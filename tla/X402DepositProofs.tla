--------------------------- MODULE X402DepositProofs ---------------------------
(***************************************************************************)
(* Proofs about paid deposits, for every set of concurrent requests, of    *)
(* authorizations (their nonces may coincide) and of accounts, and any     *)
(* number of restarts.                                                     *)
(*                                                                         *)
(* The argument: a row is known by its nonce, which the unique index makes *)
(* the property of one request; only that request asks for a settlement,   *)
(* and it asks before it decides.                                          *)
(***************************************************************************)
EXTENDS X402Deposit, FiniteSetTheorems, TLAPS

Owners == {"created", "verified", "settling", "settled", "failing"}

\* The row of a nonce is one row, and belongs to one request, while it has one.
RowsByNonce ==
    \A d, e \in deposits : d.auth.nonce = e.auth.nonce => d = e

OwnersHaveRows ==
    \A r \in Requests : requests[r].pc \in Owners =>
        \E d \in deposits : d.auth = Auth(r) /\ d.status = "PENDING"

OwnersDiffer ==
    \A r, s \in Requests :
        (requests[r].pc \in Owners /\ requests[s].pc \in Owners
            /\ Auth(r).nonce = Auth(s).nonce) => r = s

\* Who has not asked yet finds that nobody has; who has been asked for has a row.
NotYetAsked ==
    \A r \in Requests : requests[r].pc \in {"created", "verified"} => asked[Auth(r)] = 0

AskedHaveRows ==
    \A a \in Authorizations : asked[a] # 0 => asked[a] = 1 /\ \E d \in deposits : d.auth = a

PaidWereAsked ==
    \A a \in settling \union transfers : asked[a] # 0

Custody ==
    /\ RowsByNonce
    /\ OwnersHaveRows
    /\ OwnersDiffer
    /\ NotYetAsked
    /\ AskedHaveRows
    /\ PaidWereAsked

\* Every request has an authorization for an account, once it has begun.
Begun ==
    \A r \in Requests : requests[r].pc # "idle" =>
        /\ Auth(r) \in Authorizations
        /\ Auth(r).chain = requests[r].chain
        /\ [address |-> Auth(r).to, chain |-> requests[r].chain] \in Accounts

-----------------------------------------------------------------------------
(* Types.                                                                  *)

\* At the start there is nothing.
LEMMA InitTypeOK == Init => TypeOK /\ Begun
  BY BoundsAssumption DEF Init, TypeOK, Begun, At, Idle, Request, Steps

\* Updates of a row keep its type.
LEMMA WithStatusType ==
  ASSUME TypeOK, NEW r \in Requests, NEW status \in Statuses
  PROVE  WithStatus(r, status) \subseteq Row
  BY DEF TypeOK, WithStatus, Row

\* Whoever has begun can make a row of the shape of the table.
LEMMA NewRowType ==
  ASSUME Begun, NEW r \in Requests, requests[r].pc # "idle"
  PROVE  [auth |-> Auth(r), chain |-> requests[r].chain, status |-> "PENDING",
          recent |-> TRUE] \in Row
  <1> DEFINE acc == [address |-> Auth(r).to, chain |-> requests[r].chain]
  <1>1. acc \in Accounts /\ acc.chain = requests[r].chain
    BY DEF Begun
  <1>2. requests[r].chain \in {x.chain : x \in Accounts}
    BY <1>1
  <1>3. Auth(r) \in Authorizations
    BY DEF Begun
  <1> QED
    BY <1>2, <1>3 DEF Row, Statuses

\* A step of one request keeps the types.
LEMMA TypeOKStep == TypeOK /\ Begun /\ [Next]_vars => TypeOK' /\ Begun'
  <1> SUFFICES ASSUME TypeOK, Begun, [Next]_vars PROVE TypeOK' /\ Begun'
    OBVIOUS
  <1> USE DEF TypeOK, Begun, At, Goto, Return, Auth, Request, Steps, Idle, facilitatorVars,
              tokenVars
  <1>1. ASSUME NEW r \in Requests, NEW a \in Authorizations, NEW acc \in Accounts,
               BeginDeposit(r, a, acc)
        PROVE  TypeOK' /\ Begun'
    BY <1>1, InputsAssumption DEF BeginDeposit, ValidFor
  <1>2. ASSUME NEW r \in Requests, CheckAuthorizationState(r) PROVE TypeOK' /\ Begun'
    BY <1>2 DEF CheckAuthorizationState
  <1>3. ASSUME NEW r \in Requests, CheckRateLimit(r) PROVE TypeOK' /\ Begun'
    BY <1>3 DEF CheckRateLimit
  <1>4. ASSUME NEW r \in Requests, CreateDeposit(r) PROVE TypeOK' /\ Begun'
    <2>1. [auth |-> Auth(r), chain |-> requests[r].chain, status |-> "PENDING",
           recent |-> TRUE] \in Row
      BY <1>4, NewRowType DEF CreateDeposit
    <2>2. deposits' \subseteq Row
      <3>1. CASE WithNonce(Auth(r).nonce) # {}
        BY <1>4, <3>1 DEF CreateDeposit
      <3>2. CASE WithNonce(Auth(r).nonce) = {}
        BY <1>4, <2>1, <3>2 DEF CreateDeposit
      <3> QED
        BY <3>1, <3>2
    <2> QED
      BY <1>4, <2>2 DEF CreateDeposit
  <1>5. ASSUME NEW r \in Requests, Verify(r) PROVE TypeOK' /\ Begun'
    BY <1>5 DEF Verify
  <1>6. ASSUME NEW r \in Requests, Settle(r) PROVE TypeOK' /\ Begun'
    <2>1. Auth(r) \in Authorizations
      BY <1>6 DEF Settle
    <2> QED
      BY <1>6, <2>1 DEF Settle
  <1>7. ASSUME NEW r \in Requests, SettleAnswered(r) PROVE TypeOK' /\ Begun'
    BY <1>7 DEF SettleAnswered
  <1>8. ASSUME NEW r \in Requests, SettleFails(r) PROVE TypeOK' /\ Begun'
    BY <1>8 DEF SettleFails
  <1>9. ASSUME NEW r \in Requests, RecordSettled(r) PROVE TypeOK' /\ Begun'
    <2>1. deposits' \subseteq Row
      BY <1>9, WithStatusType DEF RecordSettled, Statuses
    <2> QED
      BY <1>9, <2>1 DEF RecordSettled
  <1>10. ASSUME NEW r \in Requests, RecordFailed(r) PROVE TypeOK' /\ Begun'
    <2>1. deposits' \subseteq Row
      BY <1>10, WithStatusType DEF RecordFailed, Statuses
    <2> QED
      BY <1>10, <2>1 DEF RecordFailed
  <1>11. ASSUME NEW r \in Requests, UpdateRefused(r) PROVE TypeOK' /\ Begun'
    BY <1>11, BoundsAssumption DEF UpdateRefused
  <1>12. CASE Crash
    BY <1>12, BoundsAssumption DEF Crash
  <1>13. ASSUME NEW a \in Authorizations, Transfer(a) \/ Void(a) \/ Expire(a)
         PROVE  TypeOK' /\ Begun'
    BY <1>13 DEF Transfer, Void, Expire, serviceVars, facilitatorVars
  <1>14. ASSUME NEW d \in deposits, LeaveWindow(d) PROVE TypeOK' /\ Begun'
    <2>1. deposits' \subseteq Row
      BY <1>14 DEF LeaveWindow, Row
    <2> QED
      BY <1>14, <2>1 DEF LeaveWindow
  <1>15. CASE UNCHANGED vars
    BY <1>15 DEF vars, serviceVars, facilitatorVars
  <1> QED
    BY <1>1, <1>2, <1>3, <1>4, <1>5, <1>6, <1>7, <1>8, <1>9, <1>10, <1>11, <1>12,
       <1>13, <1>14, <1>15 DEF Next, RequestStep, OwnStep

\* TypeOK is an invariant: the rows, the requests and what the facilitator
\* holds keep their shapes.
THEOREM TypeCorrect == Spec => []TypeOK
  <1>1. Spec => [](TypeOK /\ Begun)
    BY InitTypeOK, TypeOKStep, PTL DEF Spec
  <1> QED
    BY <1>1, PTL

-----------------------------------------------------------------------------
(* One request owns a row, and asks once.                                  *)

\* What an update by id does to the rows: each has an image, each is an image.
LEMMA WithStatusRows ==
  ASSUME TypeOK, NEW r \in Requests, NEW status
  PROVE  /\ \A d \in deposits : \E e \in WithStatus(r, status) :
                /\ e.auth = d.auth
                /\ e.chain = d.chain
                /\ d.auth = Auth(r) => e.status = status
                /\ d.auth # Auth(r) => e = d
         /\ \A e \in WithStatus(r, status) : \E d \in deposits :
                /\ e.auth = d.auth
                /\ e.chain = d.chain
                /\ e.recent = d.recent
                /\ d.auth = Auth(r) => e.status = status
                /\ d.auth # Auth(r) => e = d
         /\ RowsByNonce => \A e1, e2 \in WithStatus(r, status) :
                e1.auth.nonce = e2.auth.nonce => e1 = e2
  <1> DEFINE image(d) == IF d.auth = Auth(r) THEN [d EXCEPT !.status = status] ELSE d
  <1>1. WithStatus(r, status) = {image(d) : d \in deposits}
    BY DEF WithStatus
  <1>2. ASSUME NEW d \in deposits
        PROVE  /\ image(d).auth = d.auth
               /\ image(d).chain = d.chain
               /\ d.auth = Auth(r) => image(d).status = status
               /\ image(d).recent = d.recent
               /\ d.auth # Auth(r) => image(d) = d
    BY DEF TypeOK, Row
  <1> HIDE DEF image
  <1>3. ASSUME NEW d \in deposits
        PROVE  \E e \in WithStatus(r, status) :
                /\ e.auth = d.auth
                /\ e.chain = d.chain
                /\ d.auth = Auth(r) => e.status = status
                /\ d.auth # Auth(r) => e = d
    <2>1. image(d) \in WithStatus(r, status)
      BY <1>1
    <2> QED
      BY <2>1, <1>2
  <1>4. ASSUME NEW e \in WithStatus(r, status)
        PROVE  \E d \in deposits :
                /\ e.auth = d.auth
                /\ e.chain = d.chain
                /\ e.recent = d.recent
                /\ d.auth = Auth(r) => e.status = status
                /\ d.auth # Auth(r) => e = d
    <2>1. PICK d \in deposits : e = image(d)
      BY <1>1
    <2> QED
      BY <2>1, <1>2
  <1>5. ASSUME RowsByNonce, NEW e1 \in WithStatus(r, status),
               NEW e2 \in WithStatus(r, status), e1.auth.nonce = e2.auth.nonce
        PROVE  e1 = e2
    <2>1. PICK d1 \in deposits : e1 = image(d1)
      BY <1>1
    <2>2. PICK d2 \in deposits : e2 = image(d2)
      BY <1>1
    <2>3. d1.auth.nonce = d2.auth.nonce
      BY <2>1, <2>2, <1>2, <1>5
    <2> QED
      BY <2>1, <2>2, <2>3, <1>5 DEF RowsByNonce
  <1> QED
    BY <1>3, <1>4, <1>5

\* And so does time: a row that leaves the window stays as it was otherwise.
LEMMA LeaveWindowRows ==
  ASSUME TypeOK, NEW x \in deposits, LeaveWindow(x)
  PROVE  /\ \A d \in deposits : \E e \in deposits' :
                e.auth = d.auth /\ e.chain = d.chain /\ e.status = d.status
         /\ \A e \in deposits' : e \in deposits \/ e = [x EXCEPT !.recent = FALSE]
  <1> DEFINE left == [x EXCEPT !.recent = FALSE]
  <1>1. deposits' = (deposits \ {x}) \union {left}
    BY DEF LeaveWindow
  <1>2. left.auth = x.auth /\ left.chain = x.chain /\ left.status = x.status
    BY DEF TypeOK, Row
  <1> HIDE DEF left
  <1>3. \A d \in deposits : \E e \in deposits' :
           e.auth = d.auth /\ e.chain = d.chain /\ e.status = d.status
    BY <1>1, <1>2
  <1> QED
    BY <1>1, <1>3 DEF left

\* At the start nobody owns anything.
LEMMA InitCustody == Init => Custody
  BY DEF Init, Custody, RowsByNonce, OwnersHaveRows, OwnersDiffer, NotYetAsked,
         AskedHaveRows, PaidWereAsked, Owners, Idle

\* An update of the row of an owner that thereby ends leaves the others theirs.
LEMMA RecordKeepsCustody ==
  ASSUME TypeOK, Begun, Custody, NEW r \in Requests, NEW status,
         requests[r].pc \in Owners, deposits' = WithStatus(r, status), Return(r),
         UNCHANGED <<asked, facilitatorVars, tokenVars, faults>>
  PROVE  Custody'
  <1>1. RowsByNonce'
    BY WithStatusRows DEF Custody, RowsByNonce
  <1>2. OwnersHaveRows'
    <2> SUFFICES ASSUME NEW s \in Requests, requests'[s].pc \in Owners
                 PROVE  \E d \in deposits' : d.auth = Auth(s)' /\ d.status = "PENDING"
      BY DEF OwnersHaveRows
    <2>1. s # r /\ requests'[s] = requests[s] /\ Auth(s)' = Auth(s)
      BY DEF Return, Idle, Owners, TypeOK, Auth
    <2>2. PICK d \in deposits : d.auth = Auth(s) /\ d.status = "PENDING"
      BY <2>1 DEF Custody, OwnersHaveRows
    <2>3. d.auth # Auth(r)
      BY <2>1, <2>2 DEF Custody, OwnersDiffer
    <2> QED
      BY <2>1, <2>2, <2>3, WithStatusRows
  <1>3. OwnersDiffer' /\ NotYetAsked'
    BY DEF Custody, OwnersDiffer, NotYetAsked, Return, Idle, Owners, TypeOK, Auth
  <1>4. AskedHaveRows'
    BY WithStatusRows DEF Custody, AskedHaveRows
  <1>5. PaidWereAsked'
    BY DEF Custody, PaidWereAsked, facilitatorVars, tokenVars
  <1> QED
    BY <1>1, <1>2, <1>3, <1>4, <1>5 DEF Custody

\* A request that changes no row and asks for nothing keeps custody, where it
\* does not become an owner.
LEMMA MoveKeepsCustody ==
  ASSUME TypeOK, Custody, UNCHANGED <<deposits, asked>>,
         settling' \union transfers' \subseteq settling \union transfers,
         \A s \in Requests : requests'[s].pc \in Owners =>
             /\ requests[s].pc \in Owners /\ requests'[s].auth = requests[s].auth
             /\ requests'[s].pc \in {"created", "verified"} =>
                    requests[s].pc \in {"created", "verified"}
  PROVE  Custody'
  <1>1. RowsByNonce' /\ OwnersHaveRows' /\ OwnersDiffer' /\ AskedHaveRows' /\ PaidWereAsked'
    BY DEF Custody, RowsByNonce, OwnersHaveRows, OwnersDiffer, AskedHaveRows, PaidWereAsked, Auth
  <1>2. NotYetAsked'
    BY DEF Custody, NotYetAsked, Auth, Owners
  <1> QED
    BY <1>1, <1>2 DEF Custody

\* The insert makes its request the one owner of the nonce.
LEMMA CreateKeepsCustody ==
  ASSUME TypeOK, Begun, Custody, NEW r \in Requests, CreateDeposit(r)
  PROVE  Custody'
  <1>1. CASE WithNonce(Auth(r).nonce) # {}
    <2>1. Return(r) /\ UNCHANGED <<deposits, asked, facilitatorVars, tokenVars>>
      BY <1>1 DEF CreateDeposit
    <2> QED
      BY <2>1, MoveKeepsCustody DEF Return, Idle, Owners, TypeOK, facilitatorVars, tokenVars
  <1>2. CASE WithNonce(Auth(r).nonce) = {}
    <2> DEFINE row == [auth |-> Auth(r), chain |-> requests[r].chain, status |-> "PENDING",
                       recent |-> TRUE]
    <2>1. /\ deposits' = deposits \union {row}
          /\ requests' = [requests EXCEPT ![r].pc = "created"]
          /\ UNCHANGED <<asked, settling, transfers>>
      BY <1>2 DEF CreateDeposit, Goto, facilitatorVars, tokenVars
    <2>2. row.auth = Auth(r) /\ row.status = "PENDING" /\ Auth(r) \in Authorizations
      BY DEF Begun, CreateDeposit, At
    <2>3. \A d \in deposits : d.auth.nonce # Auth(r).nonce
      BY <1>2 DEF WithNonce
    <2>4. /\ \A s \in Requests : Auth(s)' = Auth(s)
          /\ \A s \in Requests \ {r} : requests'[s] = requests[s]
          /\ requests'[r].pc = "created"
      BY <2>1 DEF TypeOK, Auth, Request
    <2> HIDE DEF row
    <2>5. RowsByNonce'
      BY <2>1, <2>2, <2>3 DEF Custody, RowsByNonce
    <2>6. OwnersHaveRows'
      BY <2>1, <2>2, <2>4 DEF Custody, OwnersHaveRows
    <2>7. OwnersDiffer'
      BY <2>2, <2>3, <2>4 DEF Custody, OwnersDiffer, OwnersHaveRows
    <2>8. NotYetAsked'
      BY <2>1, <2>2, <2>3, <2>4 DEF Custody, NotYetAsked, AskedHaveRows
    <2>9. AskedHaveRows' /\ PaidWereAsked'
      BY <2>1 DEF Custody, AskedHaveRows, PaidWereAsked
    <2> QED
      BY <2>5, <2>6, <2>7, <2>8, <2>9 DEF Custody
  <1> QED
    BY <1>1, <1>2

\* The owner that asks is the only one that could.
LEMMA SettleKeepsCustody ==
  ASSUME TypeOK, Begun, Custody, NEW r \in Requests, Settle(r)
  PROVE  Custody'
  <1>1. /\ requests[r].pc = "verified" /\ Auth(r) \in Authorizations
        /\ asked[Auth(r)] = 0
    BY DEF Settle, At, Begun, Custody, NotYetAsked
  <1>2. /\ asked'[Auth(r)] = 1
        /\ \A a \in Authorizations \ {Auth(r)} : asked'[a] = asked[a]
    BY <1>1 DEF Settle, TypeOK
  <1>3. /\ \A s \in Requests : Auth(s)' = Auth(s)
        /\ \A s \in Requests \ {r} : requests'[s] = requests[s]
        /\ requests'[r].pc = "settling"
    BY DEF Settle, Goto, TypeOK, Auth, Request
  <1>4. /\ UNCHANGED <<deposits, transfers>>
        /\ settling' = settling \union {Auth(r)}
    BY DEF Settle, facilitatorVars, tokenVars
  <1>5. RowsByNonce'
    BY <1>4 DEF Custody, RowsByNonce
  <1>6. OwnersHaveRows' /\ OwnersDiffer'
    BY <1>1, <1>3, <1>4 DEF Custody, OwnersHaveRows, OwnersDiffer, Owners
  <1>7. NotYetAsked'
    <2> SUFFICES ASSUME NEW s \in Requests, requests'[s].pc \in {"created", "verified"}
                 PROVE  asked'[Auth(s)'] = 0
      BY DEF NotYetAsked
    <2>1. s # r /\ requests'[s] = requests[s] /\ Auth(s)' = Auth(s)
      BY <1>3
    <2>2. Auth(s) # Auth(r)
      BY <1>1, <2>1 DEF Custody, OwnersDiffer, Owners
    <2>3. Auth(s) \in Authorizations /\ asked[Auth(s)] = 0
      BY <2>1 DEF Begun, Custody, NotYetAsked
    <2> QED
      BY <1>2, <2>1, <2>2, <2>3
  <1>8. AskedHaveRows'
    BY <1>1, <1>2, <1>4 DEF Custody, AskedHaveRows, OwnersHaveRows, Owners
  <1>9. PaidWereAsked'
    BY <1>1, <1>2, <1>4 DEF Custody, PaidWereAsked, TypeOK
  <1> QED
    BY <1>5, <1>6, <1>7, <1>8, <1>9 DEF Custody

\* Every step keeps custody.
LEMMA CustodyStep == TypeOK /\ Begun /\ Custody /\ [Next]_vars => Custody'
  <1> SUFFICES ASSUME TypeOK, Begun, Custody, [Next]_vars PROVE Custody'
    OBVIOUS
  <1>1. ASSUME NEW r \in Requests, NEW a \in Authorizations, NEW acc \in Accounts,
               BeginDeposit(r, a, acc)
        PROVE  Custody'
    BY <1>1, MoveKeepsCustody DEF BeginDeposit, At, Owners, TypeOK, facilitatorVars, tokenVars
  <1>2. ASSUME NEW r \in Requests, CheckAuthorizationState(r) PROVE Custody'
    BY <1>2, MoveKeepsCustody
       DEF CheckAuthorizationState, At, Goto, Return, Idle, Owners, TypeOK, Request,
           facilitatorVars, tokenVars
  <1>3. ASSUME NEW r \in Requests, CheckRateLimit(r) PROVE Custody'
    BY <1>3, MoveKeepsCustody
       DEF CheckRateLimit, At, Goto, Return, Idle, Owners, TypeOK, Request,
           facilitatorVars, tokenVars
  <1>4. ASSUME NEW r \in Requests, CreateDeposit(r) PROVE Custody'
    BY <1>4, CreateKeepsCustody
  <1>5. ASSUME NEW r \in Requests, Verify(r) PROVE Custody'
    BY <1>5, MoveKeepsCustody
       DEF Verify, At, Goto, Owners, TypeOK, Request,
           facilitatorVars, tokenVars
  <1>6. ASSUME NEW r \in Requests, Settle(r) PROVE Custody'
    BY <1>6, SettleKeepsCustody
  <1>7. ASSUME NEW r \in Requests, SettleAnswered(r) \/ SettleFails(r) PROVE Custody'
    BY <1>7, MoveKeepsCustody
       DEF SettleAnswered, SettleFails, At, Goto, Owners, TypeOK, Request,
           facilitatorVars, tokenVars
  <1>8. ASSUME NEW r \in Requests, RecordSettled(r) PROVE Custody'
    BY <1>8, RecordKeepsCustody DEF RecordSettled, At, Owners
  <1>9. ASSUME NEW r \in Requests, RecordFailed(r) PROVE Custody'
    BY <1>9, RecordKeepsCustody DEF RecordFailed, At, Owners
  <1>10. ASSUME NEW r \in Requests, UpdateRefused(r) PROVE Custody'
    BY <1>10, MoveKeepsCustody
       DEF UpdateRefused, At, Goto, Return, Idle, Owners, TypeOK, Request,
           facilitatorVars, tokenVars
  <1>11. CASE Crash
    BY <1>11, MoveKeepsCustody DEF Crash, Idle, Owners, TypeOK, facilitatorVars, tokenVars
  <1>12. ASSUME NEW a \in Authorizations, Transfer(a) \/ Void(a) \/ Expire(a)
         PROVE  Custody'
    BY <1>12, MoveKeepsCustody DEF Transfer, Void, Expire, serviceVars, facilitatorVars
  <1>13. ASSUME NEW x \in deposits, LeaveWindow(x) PROVE Custody'
    <2>1. UNCHANGED <<requests, asked, settling, transfers>>
      BY <1>13 DEF LeaveWindow, facilitatorVars, tokenVars
    <2>2. RowsByNonce'
      <3> DEFINE left == [x EXCEPT !.recent = FALSE]
      <3>1. deposits' = (deposits \ {x}) \union {left}
        BY <1>13 DEF LeaveWindow
      <3>2. left.auth = x.auth
        BY DEF TypeOK, Row
      <3> HIDE DEF left
      <3> QED
        BY <3>1, <3>2 DEF Custody, RowsByNonce
    <2>3. OwnersHaveRows' /\ AskedHaveRows'
      BY <1>13, <2>1, LeaveWindowRows DEF Custody, OwnersHaveRows, AskedHaveRows, Auth
    <2>4. OwnersDiffer' /\ NotYetAsked' /\ PaidWereAsked'
      BY <2>1 DEF Custody, OwnersDiffer, NotYetAsked, PaidWereAsked, Auth
    <2> QED
      BY <2>2, <2>3, <2>4 DEF Custody
  <1>14. CASE UNCHANGED vars
    BY <1>14, MoveKeepsCustody DEF vars, serviceVars, facilitatorVars, tokenVars
  <1> QED
    BY <1>1, <1>2, <1>3, <1>4, <1>5, <1>6, <1>7, <1>8, <1>9, <1>10, <1>11, <1>12,
       <1>13, <1>14 DEF Next, RequestStep, OwnStep

\* Custody is an invariant.
LEMMA CustodyHolds == Spec => [](TypeOK /\ Begun /\ Custody)
  BY InitTypeOK, InitCustody, TypeOKStep, CustodyStep, PTL DEF Spec

\* AskedOnce: however many requests use one authorization, or several with one
\* nonce, at once or over restarts, one settlement is asked for.
THEOREM OneSettlement == Spec => []AskedOnce
  <1>1. TypeOK /\ Begun /\ Custody => AskedOnce
    BY DEF TypeOK, Custody, AskedHaveRows, RowsByNonce, AskedOnce
  <1> QED
    BY CustodyHolds, <1>1, PTL

\* PaidIsRecorded: every transfer the service asked for has its row.
THEOREM EveryPaymentHasItsRow == Spec => []PaidIsRecorded
  <1>1. TypeOK /\ Begun /\ Custody => PaidIsRecorded
    BY DEF TypeOK, Custody, AskedHaveRows, PaidWereAsked, PaidIsRecorded
  <1> QED
    BY CustodyHolds, <1>1, PTL

-----------------------------------------------------------------------------
(* What SETTLED means.                                                     *)

\* Rows are for accounts that exist.  An answer is to a settlement that was asked
\* for; a row that is SETTLED, and a request about to make it so, have the answer
\* of the facilitator for it.
Reported ==
    /\ \A d \in deposits :
           /\ d.chain = d.auth.chain
           /\ [address |-> d.auth.to, chain |-> d.chain] \in Accounts
           /\ d.status = "SETTLED" => d.auth \in vouched
    /\ \A r \in Requests :
           /\ requests[r].pc = "settling" => asked[Auth(r)] # 0
           /\ requests[r].pc = "settled" => Auth(r) \in vouched

\* At the start there is no row and no answer.
LEMMA InitReported == Init => Reported
  BY DEF Init, Reported, Idle

\* A step that changes no row, asks for nothing and takes back no answer, and
\* leaves requests where they were or with what they need.
LEMMA MoveKeepsReported ==
  ASSUME Reported, UNCHANGED <<deposits, asked>>, vouched \subseteq vouched',
         \A s \in Requests : requests'[s].pc \in {"settling", "settled"} =>
             /\ requests'[s].auth = requests[s].auth
             /\ \/ requests'[s].pc = requests[s].pc
                \/ requests'[s].pc = "settled" /\ Auth(s) \in vouched'
  PROVE  Reported'
  BY DEF Reported, Auth

\* An update that says what was answered.
LEMMA RecordKeepsReported ==
  ASSUME TypeOK, Reported, NEW r \in Requests, NEW status \in Statuses,
         deposits' = WithStatus(r, status), Return(r), UNCHANGED <<asked, vouched>>,
         status = "SETTLED" => Auth(r) \in vouched
  PROVE  Reported'
  <1>1. ASSUME NEW e \in deposits'
        PROVE  /\ e.chain = e.auth.chain
               /\ [address |-> e.auth.to, chain |-> e.chain] \in Accounts
               /\ e.status = "SETTLED" => e.auth \in vouched'
    <2>1. PICK d \in deposits :
            /\ e.auth = d.auth
            /\ e.chain = d.chain
            /\ e.recent = d.recent
            /\ d.auth = Auth(r) => e.status = status
            /\ d.auth # Auth(r) => e = d
      BY WithStatusRows
    <2> QED
      BY <2>1 DEF Reported
  <1>2. \A s \in Requests :
            /\ requests'[s].pc = "settling" => asked'[Auth(s)'] # 0
            /\ requests'[s].pc = "settled" => Auth(s)' \in vouched'
    BY DEF Reported, Return, Idle, TypeOK, Auth
  <1> QED
    BY <1>1, <1>2 DEF Reported

\* Every step keeps what SETTLED means.
LEMMA ReportedStep == TypeOK /\ Begun /\ Reported /\ [Next]_vars => Reported'
  <1> SUFFICES ASSUME TypeOK, Begun, Reported, [Next]_vars PROVE Reported'
    OBVIOUS
  <1> USE DEF At, Goto, Return, Idle, TypeOK, Request, facilitatorVars, tokenVars
  <1>1. ASSUME NEW r \in Requests, NEW a \in Authorizations, NEW acc \in Accounts,
               BeginDeposit(r, a, acc)
        PROVE  Reported'
    BY <1>1, MoveKeepsReported DEF BeginDeposit
  <1>2. ASSUME NEW r \in Requests, CheckAuthorizationState(r) PROVE Reported'
    BY <1>2, MoveKeepsReported DEF CheckAuthorizationState
  <1>3. ASSUME NEW r \in Requests, CheckRateLimit(r) PROVE Reported'
    BY <1>3, MoveKeepsReported DEF CheckRateLimit
  <1>4. ASSUME NEW r \in Requests, CreateDeposit(r) PROVE Reported'
    <2>1. CASE WithNonce(Auth(r).nonce) # {}
      BY <1>4, <2>1, MoveKeepsReported DEF CreateDeposit
    <2>2. CASE WithNonce(Auth(r).nonce) = {}
      <3> DEFINE row == [auth |-> Auth(r), chain |-> requests[r].chain, status |-> "PENDING",
                         recent |-> TRUE]
      <3>1. /\ deposits' = deposits \union {row}
            /\ requests' = [requests EXCEPT ![r].pc = "created"]
            /\ UNCHANGED <<asked, vouched>>
        BY <1>4, <2>2 DEF CreateDeposit
      <3>2. /\ row.chain = row.auth.chain
            /\ [address |-> row.auth.to, chain |-> row.chain] \in Accounts
            /\ row.status = "PENDING"
        BY <1>4 DEF CreateDeposit, Begun
      <3> HIDE DEF row
      <3>3. \A s \in Requests : requests'[s].pc \in {"settling", "settled"} =>
               requests[s].pc = requests'[s].pc /\ Auth(s)' = Auth(s)
        BY <3>1 DEF Auth
      <3> QED
        BY <3>1, <3>2, <3>3 DEF Reported
    <2> QED
      BY <2>1, <2>2
  <1>5. ASSUME NEW r \in Requests, Verify(r) \/ SettleFails(r) PROVE Reported'
    BY <1>5, MoveKeepsReported DEF Verify, SettleFails
  <1>6. ASSUME NEW r \in Requests, Settle(r) PROVE Reported'
    <2>1. Auth(r) \in Authorizations
      BY <1>6 DEF Settle, Begun
    <2>2. \A a : asked[a] # 0 /\ a \in Authorizations => asked'[a] # 0
      BY <1>6 DEF Settle
    <2>3. asked'[Auth(r)] # 0
      BY <1>6, <2>1 DEF Settle
    <2>4. /\ UNCHANGED <<deposits, vouched>>
          /\ \A s \in Requests : Auth(s)' = Auth(s)
          /\ \A s \in Requests : s # r => requests'[s] = requests[s]
          /\ requests'[r].pc = "settling"
      BY <1>6 DEF Settle, Auth
    <2>5. \A s \in Requests : requests'[s].pc = "settling" => asked'[Auth(s)'] # 0
      BY <2>2, <2>3, <2>4 DEF Reported, Begun
    <2>6. \A s \in Requests : requests'[s].pc = "settled" => Auth(s)' \in vouched'
      BY <2>4 DEF Reported
    <2> QED
      BY <2>4, <2>5, <2>6 DEF Reported
  <1>7. ASSUME NEW r \in Requests, SettleAnswered(r) PROVE Reported'
    BY <1>7, MoveKeepsReported DEF SettleAnswered, Auth
  <1>8. ASSUME NEW r \in Requests, RecordSettled(r) PROVE Reported'
    <2>1. Auth(r) \in vouched
      BY <1>8 DEF RecordSettled, Reported
    <2> QED
      BY <1>8, <2>1, RecordKeepsReported DEF RecordSettled, Statuses
  <1>9. ASSUME NEW r \in Requests, RecordFailed(r) PROVE Reported'
    BY <1>9, RecordKeepsReported DEF RecordFailed, Statuses
  <1>10. ASSUME NEW r \in Requests, UpdateRefused(r) PROVE Reported'
    BY <1>10, MoveKeepsReported DEF UpdateRefused
  <1>11. CASE Crash
    BY <1>11, MoveKeepsReported DEF Crash
  <1>12. ASSUME NEW a \in Authorizations, Transfer(a) \/ Void(a) \/ Expire(a)
         PROVE  Reported'
    BY <1>12, MoveKeepsReported DEF Transfer, Void, Expire, serviceVars
  <1>13. ASSUME NEW x \in deposits, LeaveWindow(x) PROVE Reported'
    <2> DEFINE left == [x EXCEPT !.recent = FALSE]
    <2>1. /\ deposits' = (deposits \ {x}) \union {left}
          /\ UNCHANGED <<requests, asked, vouched>>
      BY <1>13 DEF LeaveWindow
    <2>2. left.auth = x.auth /\ left.chain = x.chain /\ left.status = x.status
      BY DEF Row
    <2> HIDE DEF left
    <2> QED
      BY <2>1, <2>2 DEF Reported, Auth
  <1>14. CASE UNCHANGED vars
    BY <1>14, MoveKeepsReported DEF vars, serviceVars
  <1> QED
    BY <1>1, <1>2, <1>3, <1>4, <1>5, <1>6, <1>7, <1>8, <1>9, <1>10, <1>11, <1>12,
       <1>13, <1>14 DEF Next, RequestStep, OwnStep

\* Reported is an invariant.
LEMMA ReportedHolds == Spec => [](TypeOK /\ Begun /\ Reported)
  BY InitTypeOK, InitReported, TypeOKStep, ReportedStep, PTL DEF Spec

\* What the service believes: a `success` is true.  Nothing in the code makes it so.
FacilitatorIsTruthful == vouched \subseteq transfers

\* Every SETTLED row has its transfer, to an account of the service on the chain
\* of that account.
SettledIsPaid ==
    \A d \in deposits : d.status = "SETTLED" =>
        /\ d.auth \in transfers
        /\ d.chain = d.auth.chain
        /\ [address |-> d.auth.to, chain |-> d.chain] \in Accounts

\* SettledIsPaid where what the facilitator has answered is true: the service
\* adds no wrong SETTLED of its own, and relies on the facilitator for the rest.
THEOREM SettledMeansPaid == Spec => [](FacilitatorIsTruthful => SettledIsPaid)
  <1>1. Reported => (FacilitatorIsTruthful => SettledIsPaid)
    BY DEF Reported, FacilitatorIsTruthful, SettledIsPaid
  <1> QED
    BY ReportedHolds, <1>1, PTL

-----------------------------------------------------------------------------
(* What was decided.                                                       *)

\* SETTLED and FAILED are final, and no row is lost.
DecidedIsFinal ==
    [][\A d \in deposits : \E e \in deposits' :
           /\ e.auth = d.auth
           /\ d.status # "PENDING" => e.status = d.status]_vars

\* A step changes no row that is decided, and loses none: the row that an
\* owner updates is PENDING, and the only one of its authorization.
LEMMA FinalStep ==
  ASSUME TypeOK, Custody, [Next]_vars
  PROVE  \A d \in deposits : \E e \in deposits' :
           /\ e.auth = d.auth
           /\ d.status # "PENDING" => e.status = d.status
  <1> DEFINE Kept == \A d \in deposits : \E e \in deposits' :
                        /\ e.auth = d.auth
                        /\ d.status # "PENDING" => e.status = d.status
  <1>1. ASSUME deposits \subseteq deposits' PROVE Kept
    BY <1>1
  <1>2. ASSUME NEW r \in Requests, NEW status, requests[r].pc \in Owners,
               deposits' = WithStatus(r, status)
        PROVE  Kept
    <2> SUFFICES ASSUME NEW d \in deposits
                 PROVE  \E e \in deposits' :
                           /\ e.auth = d.auth
                           /\ d.status # "PENDING" => e.status = d.status
      OBVIOUS
    <2>1. d.auth = Auth(r) => d.status = "PENDING"
      BY <1>2 DEF Custody, OwnersHaveRows, RowsByNonce
    <2>2. PICK e \in WithStatus(r, status) :
            e.auth = d.auth /\ (d.auth # Auth(r) => e = d)
      BY WithStatusRows
    <2> QED
      BY <1>2, <2>1, <2>2
  <1>3. ASSUME NEW x \in deposits, LeaveWindow(x) PROVE Kept
    BY <1>3, LeaveWindowRows
  <1>4. ASSUME NEW r \in Requests, RequestStep(r) \/ UpdateRefused(r) PROVE Kept
    <2>1. CASE CreateDeposit(r)
      BY <2>1, <1>1 DEF CreateDeposit
    <2>2. CASE RecordSettled(r)
      BY <2>2, <1>2 DEF RecordSettled, At, Owners
    <2>3. CASE RecordFailed(r)
      BY <2>3, <1>2 DEF RecordFailed, At, Owners
    <2>4. CASE \/ CheckAuthorizationState(r) \/ CheckRateLimit(r) \/ Verify(r) \/ Settle(r)
               \/ SettleAnswered(r) \/ SettleFails(r) \/ UpdateRefused(r)
      <3>1. UNCHANGED deposits
        BY <2>4 DEF CheckAuthorizationState, CheckRateLimit, Verify, Settle, SettleAnswered,
                    SettleFails, UpdateRefused
      <3> QED
        BY <3>1, <1>1
    <2> QED
      BY <1>4, <2>1, <2>2, <2>3, <2>4 DEF RequestStep, OwnStep
  <1>5. ASSUME UNCHANGED deposits PROVE Kept
    BY <1>5, <1>1
  <1>6. ASSUME NEW r \in Requests, NEW a \in Authorizations, NEW acc \in Accounts,
               BeginDeposit(r, a, acc)
        PROVE  UNCHANGED deposits
    BY <1>6 DEF BeginDeposit
  <1>7. ASSUME NEW a \in Authorizations, Transfer(a) \/ Void(a) \/ Expire(a)
        PROVE  UNCHANGED deposits
    BY <1>7 DEF Transfer, Void, Expire, serviceVars, facilitatorVars
  <1> HIDE DEF Kept
  <1>8. Kept
    BY <1>3, <1>4, <1>5, <1>6, <1>7 DEF Next, Crash, vars, serviceVars, facilitatorVars
  <1> QED
    BY <1>8 DEF Kept

\* DecidedIsFinal: no request changes or removes the outcome of another, or
\* its own.
THEOREM DecisionsAreFinal == Spec => DecidedIsFinal
  <1>1. TypeOK /\ Custody /\ [Next]_vars =>
          [\A d \in deposits : \E e \in deposits' :
             /\ e.auth = d.auth
             /\ d.status # "PENDING" => e.status = d.status]_vars
    BY FinalStep
  <1> QED
    BY CustodyHolds, <1>1, PTL DEF Spec, DecidedIsFinal

-----------------------------------------------------------------------------
(* The rate limit.                                                         *)

CountedFor(address) == {r \in Requests : At(r, "counted") /\ Auth(r).to = address}

Within(address) ==
    Cardinality(RecentOf(address)) + Cardinality(CountedFor(address))
        < RateLimit + Cardinality(Requests)

Bounded == IsFiniteSet(deposits) /\ \A acc \in Accounts : Within(acc.address)

\* The counts are numbers.
LEMMA Counts ==
  ASSUME IsFiniteSet(deposits), NEW address
  PROVE  /\ IsFiniteSet(RecentOf(address)) /\ Cardinality(RecentOf(address)) \in Nat
         /\ IsFiniteSet(CountedFor(address)) /\ Cardinality(CountedFor(address)) \in Nat
         /\ Cardinality(CountedFor(address)) <= Cardinality(Requests)
         /\ Cardinality(Requests) \in Nat
         /\ RateLimit \in Nat
  <1>1. RecentOf(address) \subseteq deposits /\ CountedFor(address) \subseteq Requests
    BY DEF RecentOf, CountedFor
  <1>2. /\ IsFiniteSet(RecentOf(address)) /\ IsFiniteSet(CountedFor(address))
        /\ Cardinality(CountedFor(address)) <= Cardinality(Requests)
    BY <1>1, BoundsAssumption, FS_Subset
  <1> QED
    BY <1>2, BoundsAssumption, FS_CardinalityType

\* Fewer rows of the window, and fewer counted requests, keep the bound.
LEMMA FewerKeepsBounded ==
  ASSUME Bounded, IsFiniteSet(deposits'),
         \A acc \in Accounts :
             /\ Cardinality(RecentOf(acc.address)') <= Cardinality(RecentOf(acc.address))
             /\ CountedFor(acc.address)' \subseteq CountedFor(acc.address)
  PROVE  Bounded'
  <1> SUFFICES ASSUME NEW acc \in Accounts PROVE Within(acc.address)'
    BY DEF Bounded
  <1>1. /\ IsFiniteSet(CountedFor(acc.address)) /\ Cardinality(CountedFor(acc.address)) \in Nat
        /\ Cardinality(RecentOf(acc.address)) \in Nat
        /\ Cardinality(Requests) \in Nat /\ RateLimit \in Nat
    BY Counts DEF Bounded
  <1>2. /\ IsFiniteSet(CountedFor(acc.address)')
        /\ Cardinality(CountedFor(acc.address)') <= Cardinality(CountedFor(acc.address))
    BY <1>1, FS_Subset
  <1>3. /\ Cardinality(CountedFor(acc.address)') \in Nat
    BY <1>2, FS_CardinalityType
  <1>4. RecentOf(acc.address)' \subseteq deposits' /\ IsFiniteSet(RecentOf(acc.address)')
    BY FS_Subset DEF RecentOf
  <1>5. Cardinality(RecentOf(acc.address)') \in Nat
    BY <1>4, FS_CardinalityType
  <1> QED
    BY <1>1, <1>2, <1>3, <1>5 DEF Bounded, Within

\* A step that changes no row and counts no request keeps the bound.
LEMMA MoveKeepsBounded ==
  ASSUME Bounded, UNCHANGED deposits,
         \A s \in Requests : requests'[s].pc = "counted" =>
             requests[s].pc = "counted" /\ requests'[s].auth = requests[s].auth
  PROVE  Bounded'
  <1>1. \A acc \in Accounts : RecentOf(acc.address)' = RecentOf(acc.address)
    BY DEF RecentOf
  <1>2. \A acc \in Accounts : CountedFor(acc.address)' \subseteq CountedFor(acc.address)
    BY DEF CountedFor, At, Auth
  <1>3. \A acc \in Accounts : Cardinality(RecentOf(acc.address)) \in Nat
    BY Counts DEF Bounded
  <1> QED
    BY <1>1, <1>2, <1>3, FewerKeepsBounded DEF Bounded

\* An update of a row makes no row of the window out of none.
LEMMA RecordKeepsBounded ==
  ASSUME TypeOK, Bounded, NEW r \in Requests, NEW status,
         deposits' = WithStatus(r, status), Return(r)
  PROVE  Bounded'
  <1> DEFINE image(d) == IF d.auth = Auth(r) THEN [d EXCEPT !.status = status] ELSE d
  <1>1. deposits' = {image(d) : d \in deposits}
    BY DEF WithStatus
  <1>2. \A d \in deposits : image(d).auth = d.auth /\ image(d).recent = d.recent
    BY DEF TypeOK, Row
  <1> HIDE DEF image
  <1>3. IsFiniteSet(deposits')
    <2> DEFINE f == [d \in deposits |-> image(d)]
    <2>1. f \in Surjection(deposits, deposits')
      BY <1>1 DEF Surjection
    <2> QED
      BY <2>1, FS_Surjection DEF Bounded
  <1>4. ASSUME NEW acc \in Accounts
        PROVE  Cardinality(RecentOf(acc.address)') <= Cardinality(RecentOf(acc.address))
    <2> DEFINE f == [d \in RecentOf(acc.address) |-> image(d)]
    <2>1. f \in Surjection(RecentOf(acc.address), RecentOf(acc.address)')
      BY <1>1, <1>2 DEF Surjection, RecentOf
    <2>2. IsFiniteSet(RecentOf(acc.address))
      BY Counts DEF Bounded
    <2> QED
      BY <2>1, <2>2, FS_Surjection
  <1>5. ASSUME NEW acc \in Accounts
        PROVE  CountedFor(acc.address)' \subseteq CountedFor(acc.address)
    BY DEF CountedFor, At, Auth, Return, Idle, TypeOK
  <1> QED
    BY <1>3, <1>4, <1>5, FewerKeepsBounded

\* A request is counted only where a row more stays within the limit.
LEMMA CountKeepsBounded ==
  ASSUME TypeOK, Begun, Bounded, NEW r \in Requests, CheckRateLimit(r)
  PROVE  Bounded'
  <1>1. CASE Cardinality(RecentOf(Auth(r).to)) >= RateLimit
    BY <1>1, MoveKeepsBounded DEF CheckRateLimit, Return, Idle, TypeOK
  <1>2. CASE ~(Cardinality(RecentOf(Auth(r).to)) >= RateLimit)
    <2>1. /\ UNCHANGED deposits
          /\ requests' = [requests EXCEPT ![r].pc = "counted"]
      BY <1>2 DEF CheckRateLimit, Goto
    <2> SUFFICES ASSUME NEW acc \in Accounts PROVE Within(acc.address)'
      BY <2>1 DEF Bounded
    <2>2. RecentOf(acc.address)' = RecentOf(acc.address)
      BY <2>1 DEF RecentOf
    <2>3. CASE Auth(r).to = acc.address
      <3>1. /\ Cardinality(RecentOf(acc.address)) \in Nat
            /\ RateLimit \in Nat /\ Cardinality(Requests) \in Nat
        BY Counts DEF Bounded
      <3>2. CountedFor(acc.address)' \subseteq Requests
        BY DEF CountedFor
      <3>3. /\ IsFiniteSet(CountedFor(acc.address)')
            /\ Cardinality(CountedFor(acc.address)') <= Cardinality(Requests)
        BY <3>2, BoundsAssumption, FS_Subset
      <3>4. Cardinality(CountedFor(acc.address)') \in Nat
        BY <3>3, FS_CardinalityType
      <3>5. Cardinality(RecentOf(acc.address)) < RateLimit
        BY <1>2, <2>3, <3>1
      <3> QED
        BY <2>2, <3>1, <3>3, <3>4, <3>5 DEF Within
    <2>4. CASE Auth(r).to # acc.address
      <3>1. CountedFor(acc.address)' = CountedFor(acc.address)
        BY <2>1, <2>4 DEF CountedFor, At, Auth, TypeOK, Request, CheckRateLimit
      <3> QED
        BY <2>2, <3>1 DEF Bounded, Within
    <2> QED
      BY <2>3, <2>4
  <1> QED
    BY <1>1, <1>2

\* The insert turns a counted request into a row.
LEMMA CreateKeepsBounded ==
  ASSUME TypeOK, Begun, Bounded, NEW r \in Requests, CreateDeposit(r)
  PROVE  Bounded'
  <1>1. CASE WithNonce(Auth(r).nonce) # {}
    BY <1>1, MoveKeepsBounded DEF CreateDeposit, Return, Idle, TypeOK
  <1>2. CASE WithNonce(Auth(r).nonce) = {}
    <2> DEFINE row == [auth |-> Auth(r), chain |-> requests[r].chain, status |-> "PENDING",
                       recent |-> TRUE]
    <2>1. /\ deposits' = deposits \union {row}
          /\ requests' = [requests EXCEPT ![r].pc = "created"]
      BY <1>2 DEF CreateDeposit, Goto
    <2>2. row.auth = Auth(r)
      OBVIOUS
    <2> HIDE DEF row
    <2>3. IsFiniteSet(deposits')
      BY <2>1, FS_AddElement DEF Bounded
    <2> SUFFICES ASSUME NEW acc \in Accounts PROVE Within(acc.address)'
      BY <2>3 DEF Bounded
    <2> DEFINE rows == RecentOf(acc.address)
               counted == CountedFor(acc.address)
    <2>4. /\ IsFiniteSet(rows) /\ Cardinality(rows) \in Nat
          /\ IsFiniteSet(counted) /\ Cardinality(counted) \in Nat
          /\ RateLimit \in Nat /\ Cardinality(Requests) \in Nat
      BY Counts DEF Bounded
    <2>5. counted' = counted \ {r}
      BY <2>1 DEF CountedFor, At, Auth, TypeOK, Request
    <2>6. CASE Auth(r).to = acc.address
      <3>1. r \in counted
        BY <2>6 DEF CountedFor, CreateDeposit
      <3>2. rows' \subseteq rows \union {row}
        BY <2>1 DEF RecentOf
      <3>a. /\ IsFiniteSet(rows \union {row})
            /\ Cardinality(rows \union {row})
                   = IF row \in rows THEN Cardinality(rows) ELSE Cardinality(rows) + 1
        BY <2>4, FS_AddElement
      <3>3. /\ IsFiniteSet(rows \union {row})
            /\ Cardinality(rows \union {row}) <= Cardinality(rows) + 1
            /\ Cardinality(rows \union {row}) \in Nat
        <4> DEFINE n == Cardinality(rows)
                   m == Cardinality(rows \union {row})
        <4>1. n \in Nat /\ m = IF row \in rows THEN n ELSE n + 1
          BY <2>4, <3>a
        <4> HIDE DEF n, m
        <4>2. m <= n + 1 /\ m \in Nat
          BY <4>1
        <4> QED
          BY <3>a, <4>2 DEF n, m
      <3>4. IsFiniteSet(rows') /\ Cardinality(rows') <= Cardinality(rows \union {row})
        BY <3>2, <3>3, FS_Subset
      <3>5. Cardinality(rows') \in Nat
        BY <3>4, FS_CardinalityType
      <3>6. Cardinality(counted') = Cardinality(counted) - 1
        BY <2>4, <2>5, <3>1, FS_RemoveElement
      <3>7. Cardinality(rows) + Cardinality(counted) < RateLimit + Cardinality(Requests)
        BY DEF Bounded, Within
      <3>8. Cardinality(rows') + Cardinality(counted') < RateLimit + Cardinality(Requests)
        BY <2>4, <3>3, <3>4, <3>5, <3>6, <3>7
      <3> QED
        BY <3>8 DEF Within
    <2>7. CASE Auth(r).to # acc.address
      <3>1. rows' = rows
        BY <2>1, <2>2, <2>7 DEF RecentOf
      <3>2. counted' = counted
        BY <2>5, <2>7 DEF CountedFor
      <3> QED
        BY <3>1, <3>2 DEF Bounded, Within
    <2> QED
      BY <2>6, <2>7
  <1> QED
    BY <1>1, <1>2

\* Every step keeps the bound.
LEMMA BoundedStep == TypeOK /\ Begun /\ Bounded /\ [Next]_vars => Bounded'
  <1> SUFFICES ASSUME TypeOK, Begun, Bounded, [Next]_vars PROVE Bounded'
    OBVIOUS
  <1> USE DEF At, Goto, Return, Idle, TypeOK, Request, facilitatorVars, tokenVars
  <1>1. ASSUME NEW r \in Requests, NEW a \in Authorizations, NEW acc \in Accounts,
               BeginDeposit(r, a, acc)
        PROVE  Bounded'
    BY <1>1, MoveKeepsBounded DEF BeginDeposit
  <1>2. ASSUME NEW r \in Requests, CheckAuthorizationState(r) PROVE Bounded'
    BY <1>2, MoveKeepsBounded DEF CheckAuthorizationState
  <1>3. ASSUME NEW r \in Requests, CheckRateLimit(r) PROVE Bounded'
    BY <1>3, CountKeepsBounded
  <1>4. ASSUME NEW r \in Requests, CreateDeposit(r) PROVE Bounded'
    BY <1>4, CreateKeepsBounded
  <1>5. ASSUME NEW r \in Requests,
               Verify(r) \/ Settle(r) \/ SettleAnswered(r) \/ SettleFails(r)
        PROVE  Bounded'
    BY <1>5, MoveKeepsBounded DEF Verify, Settle, SettleAnswered, SettleFails
  <1>6. ASSUME NEW r \in Requests, RecordSettled(r) \/ RecordFailed(r) PROVE Bounded'
    BY <1>6, RecordKeepsBounded DEF RecordSettled, RecordFailed
  <1>7. ASSUME NEW r \in Requests, UpdateRefused(r) PROVE Bounded'
    BY <1>7, MoveKeepsBounded DEF UpdateRefused
  <1>8. CASE Crash
    BY <1>8, MoveKeepsBounded DEF Crash
  <1>9. ASSUME NEW a \in Authorizations, Transfer(a) \/ Void(a) \/ Expire(a)
        PROVE  Bounded'
    BY <1>9, MoveKeepsBounded DEF Transfer, Void, Expire, serviceVars, facilitatorVars
  <1>10. ASSUME NEW x \in deposits, LeaveWindow(x) PROVE Bounded'
    <2> DEFINE left == [x EXCEPT !.recent = FALSE]
    <2>1. /\ deposits' = (deposits \ {x}) \union {left}
          /\ UNCHANGED requests
      BY <1>10 DEF LeaveWindow
    <2>2. left.recent = FALSE
      BY DEF Row
    <2> HIDE DEF left
    <2>3. IsFiniteSet(deposits')
      BY <2>1, FS_RemoveElement, FS_AddElement DEF Bounded
    <2>4. \A acc \in Accounts : RecentOf(acc.address)' \subseteq RecentOf(acc.address)
      BY <2>1, <2>2 DEF RecentOf
    <2>5. \A acc \in Accounts : IsFiniteSet(RecentOf(acc.address))
      BY Counts DEF Bounded
    <2>6. \A acc \in Accounts :
            Cardinality(RecentOf(acc.address)') <= Cardinality(RecentOf(acc.address))
      BY <2>4, <2>5, FS_Subset
    <2>7. \A acc \in Accounts : CountedFor(acc.address)' \subseteq CountedFor(acc.address)
      BY <2>1 DEF CountedFor, Auth
    <2> QED
      BY <2>3, <2>6, <2>7, FewerKeepsBounded
  <1>11. CASE UNCHANGED vars
    BY <1>11, MoveKeepsBounded DEF vars, serviceVars, facilitatorVars
  <1> QED
    BY <1>1, <1>2, <1>3, <1>4, <1>5, <1>6, <1>7, <1>8, <1>9, <1>10, <1>11
       DEF Next, RequestStep, OwnStep

\* At the start nothing counts, and the limit allows one.
LEMMA InitBounded == Init => Bounded
  <1> SUFFICES ASSUME Init PROVE Bounded
    OBVIOUS
  <1>1. IsFiniteSet(deposits) /\ Cardinality({}) = 0 /\ Cardinality(Requests) \in Nat
    BY BoundsAssumption, FS_EmptySet, FS_CardinalityType DEF Init
  <1>2. \A acc \in Accounts : RecentOf(acc.address) = {} /\ CountedFor(acc.address) = {}
    BY DEF Init, RecentOf, CountedFor, At, Idle
  <1> QED
    BY <1>1, <1>2, BoundsAssumption DEF Bounded, Within

\* OvershootBounded: concurrent requests overshoot the rate limit by less than
\* their number.
THEOREM RateLimitOvershoot == Spec => []OvershootBounded
  <1>1. Spec => [](TypeOK /\ Begun /\ Bounded)
    BY InitTypeOK, InitBounded, TypeOKStep, BoundedStep, PTL DEF Spec
  <1>2. Bounded => OvershootBounded
    BY DEF Bounded, Within, CountedFor, OvershootBounded
  <1> QED
    BY <1>1, <1>2, PTL

-----------------------------------------------------------------------------
(* The table and the money keep the ledger.                                *)

\* An update of the row of an owner decides its authorization, and no other.
LEMMA RecordOutcome ==
  ASSUME TypeOK, Custody, NEW r \in Requests, requests[r].pc \in Owners,
         NEW status \in {"SETTLED", "FAILED"}, deposits' = WithStatus(r, status)
  PROVE  /\ Auth(r) \in WithOutcome("PENDING")
         /\ WithOutcome("PENDING")' = WithOutcome("PENDING") \ {Auth(r)}
         /\ \A s \in {"SETTLED", "FAILED"} :
                WithOutcome(s)' = IF s = status THEN WithOutcome(s) \union {Auth(r)}
                                  ELSE WithOutcome(s)
  <1>1. PICK own \in deposits : own.auth = Auth(r) /\ own.status = "PENDING"
    BY DEF Custody, OwnersHaveRows
  <1>2. \A d \in deposits : d.auth = Auth(r) => d.status = "PENDING"
    BY <1>1 DEF Custody, RowsByNonce
  <1>3. \A d \in deposits : \E e \in deposits' :
            /\ e.auth = d.auth
            /\ d.auth = Auth(r) => e.status = status
            /\ d.auth # Auth(r) => e.status = d.status
    BY WithStatusRows
  <1>4. \A e \in deposits' : \E d \in deposits :
            /\ e.auth = d.auth
            /\ d.auth = Auth(r) => e.status = status
            /\ d.auth # Auth(r) => e.status = d.status
    BY WithStatusRows
  <1>5. Auth(r) \in WithOutcome("PENDING")
    BY <1>1 DEF WithOutcome
  <1>6. WithOutcome("PENDING")' = WithOutcome("PENDING") \ {Auth(r)}
    BY <1>3, <1>4 DEF WithOutcome
  <1>7. ASSUME NEW s \in {"SETTLED", "FAILED"}
        PROVE  WithOutcome(s)' = IF s = status THEN WithOutcome(s) \union {Auth(r)}
                                 ELSE WithOutcome(s)
    <2>1. \A a : a \in WithOutcome(s) => a # Auth(r)
      BY <1>2 DEF WithOutcome
    <2>2. CASE s = status
      BY <1>1, <1>3, <1>4, <2>1, <2>2 DEF WithOutcome
    <2>3. CASE s # status
      BY <1>3, <1>4, <2>1, <2>3 DEF WithOutcome
    <2> QED
      BY <2>2, <2>3
  <1> QED
    BY <1>5, <1>6, <1>7

\* The insert opens the entry of the first authorization of its nonce.
LEMMA CreateOpens ==
  ASSUME TypeOK, Begun, NEW r \in Requests, CreateDeposit(r),
         UNCHANGED <<vouched, transfers>>
  PROVE  \/ UNCHANGED deposits
         \/ Ledger!Open(Auth(r))
  <1>1. CASE WithNonce(Auth(r).nonce) # {}
    BY <1>1 DEF CreateDeposit
  <1>2. CASE WithNonce(Auth(r).nonce) = {}
    <2> DEFINE row == [auth |-> Auth(r), chain |-> requests[r].chain, status |-> "PENDING",
                       recent |-> TRUE]
    <2>1. deposits' = deposits \union {row} /\ asked' = asked
      BY <1>2 DEF CreateDeposit
    <2>2. row.auth = Auth(r) /\ row.status = "PENDING"
      OBVIOUS
    <2> HIDE DEF row
    <2>3. [address |-> Auth(r).to, chain |-> Auth(r).chain] \in Accounts
      BY DEF CreateDeposit, At, Begun
    <2>4. /\ WithOutcome("PENDING")' = WithOutcome("PENDING") \union {Auth(r)}
          /\ WithOutcome("SETTLED")' = WithOutcome("SETTLED")
          /\ WithOutcome("FAILED")' = WithOutcome("FAILED")
      BY <2>1, <2>2 DEF WithOutcome
    <2>5. \A s : \A b \in WithOutcome(s) : b.nonce # Auth(r).nonce
      BY <1>2 DEF WithOutcome, WithNonce
    <2> QED
      BY <2>1, <2>3, <2>4, <2>5 DEF Ledger!Open, Ledger!Entries
  <1> QED
    BY <1>1, <1>2

\* Every step of requests, facilitator, buyers and time is one of the ledger, or
\* leaves it alone.
LEMMA LedgerStep ==
  ASSUME TypeOK, Begun, Custody, Reported, [Next]_vars
  PROVE  [Ledger!Next]_(Ledger!vars)
  <1> USE DEF At, facilitatorVars, tokenVars
  <1>1. CASE UNCHANGED <<deposits, asked, vouched, transfers>>
    BY <1>1 DEF Ledger!vars, WithOutcome
  <1>2. ASSUME NEW r \in Requests, CreateDeposit(r)
        PROVE  [Ledger!Next]_(Ledger!vars)
    <2>1. Auth(r) \in Authorizations /\ UNCHANGED <<asked, vouched, transfers>>
      BY <1>2 DEF CreateDeposit, Begun
    <2> QED
      BY <1>1, <1>2, <2>1, CreateOpens DEF Ledger!Next
  <1>3. ASSUME NEW r \in Requests, Settle(r)
        PROVE  Ledger!Next
    <2>1. Auth(r) \in Authorizations /\ asked[Auth(r)] = 0
      BY <1>3 DEF Settle, Begun, Custody, NotYetAsked
    <2>2. Auth(r) \in WithOutcome("PENDING")
      BY <1>3 DEF Settle, Custody, OwnersHaveRows, Owners, WithOutcome
    <2>3. /\ UNCHANGED <<deposits, vouched, transfers>>
          /\ asked' = [asked EXCEPT ![Auth(r)] = 1]
      BY <1>3, <2>1 DEF Settle, TypeOK
    <2>4. Ledger!Charge(Auth(r))
      BY <2>1, <2>2, <2>3 DEF Ledger!Charge, WithOutcome
    <2> QED
      BY <2>1, <2>4 DEF Ledger!Next
  <1>4. ASSUME NEW a \in Authorizations, Transfer(a)
        PROVE  Ledger!Next
    <2>1. asked[a] # 0
      BY <1>4 DEF Transfer, Custody, PaidWereAsked
    <2>2. a \notin transfers
      BY <1>4 DEF Transfer, Payable, Consumed, SameOnChain
    <2>3. Ledger!Pay(a)
      BY <1>4, <2>1, <2>2 DEF Transfer, serviceVars, facilitatorVars, Ledger!Pay, WithOutcome
    <2> QED
      BY <2>3 DEF Ledger!Next
  <1>5. ASSUME NEW r \in Requests, RecordSettled(r)
        PROVE  Ledger!Next
    <2>1. Auth(r) \in Authorizations /\ Auth(r) \in vouched
      BY <1>5 DEF RecordSettled, Begun, Reported
    <2>2. UNCHANGED <<asked, vouched, transfers>>
      BY <1>5 DEF RecordSettled
    <2>3. /\ Auth(r) \in WithOutcome("PENDING")
          /\ WithOutcome("PENDING")' = WithOutcome("PENDING") \ {Auth(r)}
          /\ WithOutcome("SETTLED")' = WithOutcome("SETTLED") \union {Auth(r)}
          /\ WithOutcome("FAILED")' = WithOutcome("FAILED")
      BY <1>5, RecordOutcome DEF RecordSettled, Owners
    <2>4. Ledger!Settle(Auth(r))
      BY <2>1, <2>2, <2>3 DEF Ledger!Settle
    <2> QED
      BY <2>1, <2>4 DEF Ledger!Next
  <1>6. ASSUME NEW r \in Requests, RecordFailed(r)
        PROVE  Ledger!Next
    <2>1. Auth(r) \in Authorizations /\ UNCHANGED <<asked, vouched, transfers>>
      BY <1>6 DEF RecordFailed, Begun
    <2>2. /\ Auth(r) \in WithOutcome("PENDING")
          /\ WithOutcome("PENDING")' = WithOutcome("PENDING") \ {Auth(r)}
          /\ WithOutcome("SETTLED")' = WithOutcome("SETTLED")
          /\ WithOutcome("FAILED")' = WithOutcome("FAILED") \union {Auth(r)}
      BY <1>6, RecordOutcome DEF RecordFailed, Owners
    <2>3. Ledger!Fail(Auth(r))
      BY <2>1, <2>2 DEF Ledger!Fail
    <2> QED
      BY <2>1, <2>3 DEF Ledger!Next
  <1>7. ASSUME NEW x \in deposits, LeaveWindow(x)
        PROVE  UNCHANGED Ledger!vars
    <2> DEFINE left == [x EXCEPT !.recent = FALSE]
    <2>1. /\ deposits' = (deposits \ {x}) \union {left}
          /\ UNCHANGED <<asked, vouched, transfers>>
      BY <1>7 DEF LeaveWindow
    <2>2. left.auth = x.auth /\ left.status = x.status
      BY DEF TypeOK, Row
    <2> HIDE DEF left
    <2>3. /\ WithOutcome("PENDING")' = WithOutcome("PENDING")
          /\ WithOutcome("SETTLED")' = WithOutcome("SETTLED")
          /\ WithOutcome("FAILED")' = WithOutcome("FAILED")
      BY <2>1, <2>2 DEF WithOutcome
    <2> QED
      BY <2>1, <2>3 DEF Ledger!vars
  <1>8. ASSUME NEW r \in Requests,
               \/ CheckAuthorizationState(r) \/ CheckRateLimit(r) \/ Verify(r)
               \/ SettleFails(r) \/ UpdateRefused(r)
        PROVE  UNCHANGED <<deposits, asked, vouched, transfers>>
    BY <1>8 DEF CheckAuthorizationState, CheckRateLimit, Verify, SettleFails, UpdateRefused
  <1>9. ASSUME \/ \E r \in Requests, a \in Authorizations, acc \in Accounts :
                      BeginDeposit(r, a, acc)
               \/ \E a \in Authorizations : Void(a) \/ Expire(a)
               \/ Crash
               \/ UNCHANGED vars
        PROVE  UNCHANGED <<deposits, asked, vouched, transfers>>
    BY <1>9 DEF BeginDeposit, Void, Expire, Crash, vars, serviceVars, facilitatorVars
  <1>10. ASSUME NEW r \in Requests, SettleAnswered(r)
         PROVE  Ledger!Next
    <2>1. Auth(r) \in Authorizations /\ asked[Auth(r)] # 0
      BY <1>10 DEF SettleAnswered, Begun, Reported
    <2>2. Ledger!Confirm(Auth(r))
      BY <1>10, <2>1 DEF SettleAnswered, Ledger!Confirm, WithOutcome
    <2> QED
      BY <2>1, <2>2 DEF Ledger!Next
  <1> QED
    BY <1>1, <1>2, <1>3, <1>4, <1>5, <1>6, <1>7, <1>8, <1>9, <1>10
       DEF Next, RequestStep, OwnStep

\* X402Deposit implements DepositLedger: overlapping requests, restarts, refused
\* updates and answers that are lost or wrong do nothing that the ledger does not
\* allow.
THEOREM DepositsKeepLedger == Spec => LedgerSpec
  <1>1. Init => Ledger!Init
    BY DEF Init, Ledger!Init, WithOutcome
  <1>2. /\ TypeOK /\ Begun /\ Custody
        /\ TypeOK /\ Begun /\ Reported
        /\ [Next]_vars
        => [Ledger!Next]_(Ledger!vars)
    BY LedgerStep
  <1> QED
    BY <1>1, <1>2, CustodyHolds, ReportedHolds, PTL DEF Spec, LedgerSpec, Ledger!Spec

-----------------------------------------------------------------------------
(* What was answered is recorded.                                          *)

\* An answer is in the table, or with the request that will put it there, as long
\* as there was no fault.
Recorded ==
    \A a \in vouched :
        \/ a \in WithOutcome("SETTLED")
        \/ \E r \in Requests : At(r, "settled") /\ Auth(r) = a
        \/ faults > 0

\* At the start nothing was answered.
LEMMA InitRecorded == Init => Recorded
  BY DEF Init, Recorded

\* A step without an answer that keeps the rows that are SETTLED, and lets no
\* request forget one.
LEMMA MoveKeepsRecorded ==
  ASSUME Recorded, UNCHANGED <<vouched, faults>>,
         WithOutcome("SETTLED") \subseteq WithOutcome("SETTLED")',
         \A s \in Requests : At(s, "settled") =>
             \/ requests'[s].pc = "settled" /\ requests'[s].auth = requests[s].auth
             \/ Auth(s) \in WithOutcome("SETTLED")'
  PROVE  Recorded'
  BY DEF Recorded, At, Auth

\* Every step keeps the record.
LEMMA RecordedStep ==
  ASSUME TypeOK, Begun, Custody, Recorded, [Next]_vars
  PROVE  Recorded'
  <1> USE DEF At, Goto, Return, Idle, TypeOK, Request, facilitatorVars, tokenVars
  <1>1. ASSUME UNCHANGED <<deposits, vouched, faults>>,
               \A s \in Requests : requests[s].pc = "settled" =>
                   requests'[s].pc = "settled" /\ requests'[s].auth = requests[s].auth
        PROVE  Recorded'
    <2>1. WithOutcome("SETTLED")' = WithOutcome("SETTLED")
      BY <1>1 DEF WithOutcome
    <2> QED
      BY <1>1, <2>1, MoveKeepsRecorded
  <1>2. ASSUME NEW r \in Requests, NEW a \in Authorizations, NEW acc \in Accounts,
               BeginDeposit(r, a, acc)
        PROVE  Recorded'
    BY <1>1, <1>2 DEF BeginDeposit
  <1>3. ASSUME NEW r \in Requests,
               CheckAuthorizationState(r) \/ CheckRateLimit(r) \/ Verify(r) \/ SettleFails(r)
        PROVE  Recorded'
    BY <1>1, <1>3 DEF CheckAuthorizationState, CheckRateLimit, Verify, SettleFails
  <1>4. ASSUME NEW r \in Requests, CreateDeposit(r) PROVE Recorded'
    <2>1. WithOutcome("SETTLED") \subseteq WithOutcome("SETTLED")'
      BY <1>4 DEF CreateDeposit, WithOutcome
    <2>2. UNCHANGED <<vouched, faults>>
      BY <1>4 DEF CreateDeposit
    <2>3. \A s \in Requests : requests[s].pc = "settled" => requests'[s] = requests[s]
      BY <1>4 DEF CreateDeposit
    <2> QED
      BY <2>1, <2>2, <2>3, MoveKeepsRecorded
  <1>5. ASSUME NEW r \in Requests, Settle(r) PROVE Recorded'
    BY <1>1, <1>5 DEF Settle
  <1>6. ASSUME NEW r \in Requests, SettleAnswered(r) PROVE Recorded'
    <2>1. /\ vouched' = vouched \union {Auth(r)}
          /\ requests'[r].pc = "settled" /\ Auth(r)' = Auth(r)
          /\ \A s \in Requests : requests[s].pc = "settled" => requests'[s] = requests[s]
          /\ UNCHANGED <<deposits, faults>>
      BY <1>6 DEF SettleAnswered, Auth
    <2>2. WithOutcome("SETTLED")' = WithOutcome("SETTLED")
      BY <2>1 DEF WithOutcome
    <2> QED
      BY <2>1, <2>2 DEF Recorded, Auth
  <1>7. ASSUME NEW r \in Requests, RecordSettled(r) PROVE Recorded'
    <2>1. WithOutcome("SETTLED")' = WithOutcome("SETTLED") \union {Auth(r)}
      BY <1>7, RecordOutcome DEF RecordSettled, Owners
    <2>2. /\ \A s \in Requests : s # r => requests'[s] = requests[s]
          /\ UNCHANGED <<vouched, faults>>
      BY <1>7 DEF RecordSettled
    <2> QED
      BY <2>1, <2>2, MoveKeepsRecorded
  <1>8. ASSUME NEW r \in Requests, RecordFailed(r) PROVE Recorded'
    <2>1. WithOutcome("SETTLED")' = WithOutcome("SETTLED")
      BY <1>8, RecordOutcome DEF RecordFailed, Owners
    <2>2. /\ \A s \in Requests : requests[s].pc = "settled" => requests'[s] = requests[s]
          /\ UNCHANGED <<vouched, faults>>
      BY <1>8 DEF RecordFailed
    <2> QED
      BY <2>1, <2>2, MoveKeepsRecorded
  <1>9. ASSUME Crash \/ \E r \in Requests : UpdateRefused(r)
        PROVE  Recorded'
    <2>1. faults' > 0
      BY <1>9 DEF Crash, UpdateRefused
    <2> QED
      BY <2>1 DEF Recorded
  <1>10. ASSUME NEW a \in Authorizations, Transfer(a) \/ Void(a) \/ Expire(a)
         PROVE  Recorded'
    BY <1>1, <1>10 DEF Transfer, Void, Expire, serviceVars
  <1>11. ASSUME NEW x \in deposits, LeaveWindow(x) PROVE Recorded'
    <2>1. WithOutcome("SETTLED") \subseteq WithOutcome("SETTLED")'
      BY <1>11, LeaveWindowRows DEF WithOutcome
    <2> QED
      BY <1>11, <2>1, MoveKeepsRecorded DEF LeaveWindow
  <1>12. CASE UNCHANGED vars
    BY <1>1, <1>12 DEF vars, serviceVars
  <1> QED
    BY <1>2, <1>3, <1>4, <1>5, <1>6, <1>7, <1>8, <1>9, <1>10, <1>11, <1>12
       DEF Next, RequestStep, OwnStep

\* SettledAsReported: a row is SETTLED only after the facilitator has said so, and
\* it is SETTLED then, unless a restart or a refused update came between.
THEOREM OutcomesAreReported == Spec => []SettledAsReported
  <1>1. Spec => [](TypeOK /\ Begun /\ Custody /\ Recorded)
    BY InitTypeOK, InitCustody, InitRecorded, TypeOKStep, CustodyStep, RecordedStep,
       PTL DEF Spec
  <1>2. Reported /\ Recorded => SettledAsReported
    BY DEF Reported, Recorded, SettledAsReported, WithOutcome
  <1> QED
    BY <1>1, <1>2, ReportedHolds, PTL
=============================================================================
