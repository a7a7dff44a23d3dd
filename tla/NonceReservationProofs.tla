------------------------ MODULE NonceReservationProofs ------------------------
(***************************************************************************)
(* Proofs about reserved nonces and drafts, for every set of clients and   *)
(* of drafts and any number of reservations.                               *)
(*                                                                         *)
(* The argument: the id of a reservation is given out once, so what a      *)
(* request remembers of a reservation stays true of the row with that id,  *)
(* for as long as there is one, however long the request waits.            *)
(***************************************************************************)
EXTENDS NonceReservation, WellFoundedInduction, TLAPS

\* Reservations and what clients know of them have ids below the next, and
\* nonces that leave room for one more each.
Numbered ==
    /\ \A r \in reservations : r.id < nextId /\ r.nonce + 2 <= nextId
    /\ \A x \in transactions : x.nonce + 2 <= nextId
    /\ \A c \in Clients :
           /\ requests[c].seen + 1 <= nextId
           /\ requests[c].nonce + 1 <= nextId
           /\ requests[c].pc \in {"reserved", "proving"} => requests[c].nonce + 2 <= nextId

\* The two indexes of the table.
Indexed ==
    \A r, s \in reservations : (r.id = s.id \/ r.nonce = s.nonce) => r = s

\* What a client knows of its own reservation, and of the one it found.
Remembered ==
    \A c \in Clients :
        /\ \A id \in {requests[c].own, requests[c].found} :
               /\ id # NoId => id < nextId
               /\ \A r \in reservations : r.id = id => r.nonce = requests[c].nonce
        /\ requests[c].pc \in {"idle", "cleaned", "counted", "chosen"} =>
               requests[c].own = NoId /\ requests[c].found = NoId

OwnDiffers ==
    \A c, d \in Clients :
        c # d /\ requests[c].own # NoId => requests[c].own # requests[d].own

-----------------------------------------------------------------------------
(* The largest nonce.                                                      *)

\* Max, a CHOOSE, is a largest element where there is a bound.
LEMMA MaxOfBounded ==
  ASSUME NEW n \in Nat, NEW S \in SUBSET (0..n), S # {}
  PROVE  Max(S) \in S /\ \A x \in S : x <= Max(S)
  <1> DEFINE U == {m \in Nat : \A x \in S : x <= m}
  <1>1. n \in U
    OBVIOUS
  <1>2. PICK u \in U : \A k \in U : u <= k
    <2> DEFINE Less == OpToRel(<, Nat)
    <2>1. Less = {ss \in Nat \X Nat : ss[1] < ss[2]}
      BY DEF OpToRel
    <2>2. IsWellFoundedOn(Less, Nat)
      BY NatLessThanWellFounded
    <2>3. \A k, u \in Nat : k < u => <<k, u>> \in Less
      BY <2>1
    <2> HIDE DEF Less
    <2>4. PICK u \in U : \A k \in U : ~(<<k, u>> \in Less)
      BY <1>1, <2>2, WFMin
    <2>5. \A k \in U : ~(k < u)
      BY <2>3, <2>4
    <2> QED
      BY <2>5
  <1>3. u \in S
    <2> SUFFICES ASSUME u \notin S PROVE FALSE
      OBVIOUS
    <2>1. PICK x \in S : TRUE
      OBVIOUS
    <2>2. u > 0
      BY <2>1
    <2>3. u - 1 \in U
      BY <2>2
    <2> QED
      BY <2>3, <1>2
  <1>4. \E y \in S : \A x \in S : y >= x
    BY <1>3
  <1> QED
    BY <1>4 DEF Max

\* The nonce after a set of rows is past each of them, and no further than the
\* bound of theirs allows.
LEMMA NextAfterBound ==
  ASSUME NEW rows, NEW n \in Nat, \A r \in rows : r.nonce \in Nat /\ r.nonce + 1 <= n
  PROVE  NextAfter(rows) \in Nat /\ NextAfter(rows) <= n
  <1>1. CASE rows = {}
    BY <1>1 DEF NextAfter
  <1>2. CASE rows # {}
    <2> DEFINE S == {r.nonce : r \in rows}
    <2>1. S \in SUBSET (0..n) /\ S # {}
      BY <1>2
    <2>2. Max(S) \in S
      BY <2>1, MaxOfBounded
    <2>3. NextAfter(rows) = Max(S) + 1
      BY <1>2 DEF NextAfter
    <2> QED
      BY <2>2, <2>3
  <1> QED
    BY <1>1, <1>2

\* And of two numbers, one of them.
LEMMA MaxOfTwo ==
  ASSUME NEW n \in Nat, NEW a \in 0..n, NEW b \in 0..n
  PROVE  Max({a, b}) \in 0..n
  BY MaxOfBounded

-----------------------------------------------------------------------------
(* Types.                                                                  *)

\* At the start there is nothing but drafts.
LEMMA InitTypeOK == Init => TypeOK /\ Numbered
  BY MaxReservationsAssumption
     DEF Init, TypeOK, Numbered, Idle, Request, Steps, Nonces

\* A step of one request keeps the types where its record does.
LEMMA RequestKeepsTypes ==
  ASSUME TypeOK, Numbered, NEW c \in Clients, NEW q \in Request,
         requests' = [requests EXCEPT ![c] = q],
         UNCHANGED <<reservations, transactions, items, nextId>>,
         q.seen + 1 <= nextId /\ q.nonce + 1 <= nextId,
         q.pc \in {"reserved", "proving"} => q.nonce + 2 <= nextId
  PROVE  TypeOK' /\ Numbered'
  BY DEF TypeOK, Numbered

\* Idle is a request that knows nothing.
LEMMA IdleType ==
  ASSUME TypeOK
  PROVE  /\ Idle \in Request /\ Idle.pc = "idle" /\ Idle.nonce = 0 /\ Idle.seen = 0
         /\ Idle.own = NoId /\ Idle.found = NoId
         /\ nextId \in Nat /\ 1 <= nextId
  BY MaxReservationsAssumption DEF TypeOK, Idle, Request, Steps, Nonces

\* A step keeps the types.
LEMMA TypeOKStep == TypeOK /\ Numbered /\ [Next]_vars => TypeOK' /\ Numbered'
  <1> SUFFICES ASSUME TypeOK, Numbered, [Next]_vars PROVE TypeOK' /\ Numbered'
    OBVIOUS
  <1> USE MaxReservationsAssumption
  <1>0. /\ \A c \in Clients : requests[c] \in Request
        /\ nextId \in Nat /\ 1 <= nextId /\ nextId - 1 <= MaxReservations
    BY DEF TypeOK
  <1>1. ASSUME NEW c \in Clients, CleanExpired(c) PROVE TypeOK' /\ Numbered'
    <2> DEFINE cleaned == {r.id : r \in {r \in reservations : r.expired}}
               q == [Idle EXCEPT !.pc = "cleaned", !.cleaned = cleaned]
    <2>1. cleaned \subseteq Ids
      BY DEF TypeOK, Reservation
    <2>2. /\ requests' = [requests EXCEPT ![c] = q]
          /\ UNCHANGED <<reservations, transactions, items, nextId>>
      BY <1>1 DEF CleanExpired
    <2>3. q \in Request /\ q.pc = "cleaned" /\ q.nonce = 0 /\ q.seen = 0
      BY <2>1, IdleType DEF Request, Steps, Idle
    <2> HIDE DEF q
    <2>4. q.seen + 1 <= nextId /\ q.nonce + 1 <= nextId /\ q.pc \notin {"reserved", "proving"}
      BY <1>0, <2>3
    <2> QED
      BY <2>2, <2>3, <2>4, RequestKeepsTypes
  <1>2. ASSUME NEW c \in Clients, ReadTransactions(c) PROVE TypeOK' /\ Numbered'
    <2>1. nextId - 1 \in Nat /\ nextId - 1 <= MaxReservations
      BY DEF TypeOK
    <2>2. \A x \in transactions : x.nonce \in Nat /\ x.nonce + 1 <= nextId - 1
      BY DEF TypeOK, Numbered, Transaction, Nonces
    <2>3. NextAfter(transactions) \in Nat /\ NextAfter(transactions) <= nextId - 1
      BY <2>1, <2>2, NextAfterBound
    <2> DEFINE seen == NextAfter(transactions)
               q == [requests[c] EXCEPT !.pc = "counted", !.seen = seen]
    <2>4. seen \in Nonces /\ seen + 1 <= nextId
      BY <1>0, <2>1, <2>3 DEF Nonces
    <2>5. /\ requests' = [requests EXCEPT ![c] = q]
          /\ UNCHANGED <<reservations, transactions, items, nextId>>
      BY <1>2 DEF ReadTransactions, TypeOK
    <2> HIDE DEF seen
    <2>6. /\ q \in Request /\ q.pc = "counted" /\ q.nonce = requests[c].nonce
          /\ q.seen = seen
      BY <1>0, <2>4 DEF Request, Steps
    <2> HIDE DEF q
    <2>7. requests[c].nonce + 1 <= nextId
      BY DEF Numbered
    <2> QED
      BY <2>4, <2>5, <2>6, <2>7, RequestKeepsTypes
  <1>3. ASSUME NEW c \in Clients, ReadReservations(c) PROVE TypeOK' /\ Numbered'
    <2>1. nextId - 1 \in Nat /\ nextId - 1 <= MaxReservations
      BY DEF TypeOK
    <2>2. \A r \in NotCleanedBy(c) : r.nonce \in Nat /\ r.nonce + 1 <= nextId - 1
      BY DEF TypeOK, Numbered, Reservation, NotCleanedBy, Nonces
    <2>3. NextAfter(NotCleanedBy(c)) \in 0..(nextId - 1)
      BY <2>1, <2>2, NextAfterBound
    <2>4. requests[c].seen \in 0..(nextId - 1)
      BY <1>0, <2>1 DEF Numbered, Request, Nonces
    <2> DEFINE nonce == Max({requests[c].seen, NextAfter(NotCleanedBy(c))})
               q == [requests[c] EXCEPT !.pc = "chosen", !.nonce = nonce]
    <2>5. nonce \in 0..(nextId - 1)
      BY <2>1, <2>3, <2>4, MaxOfTwo
    <2>6. /\ requests' = [requests EXCEPT ![c] = q]
          /\ UNCHANGED <<reservations, transactions, items, nextId>>
      BY <1>3 DEF ReadReservations, TypeOK
    <2> HIDE DEF nonce
    <2>7. nonce \in Nonces /\ nonce + 1 <= nextId
      BY <1>0, <2>1, <2>5 DEF Nonces
    <2>8. /\ q \in Request /\ q.pc = "chosen" /\ q.seen = requests[c].seen
          /\ q.nonce = nonce
      BY <1>0, <2>7 DEF Request, Steps
    <2> HIDE DEF q
    <2>9. requests[c].seen + 1 <= nextId
      BY DEF Numbered
    <2> QED
      BY <2>6, <2>7, <2>8, <2>9, RequestKeepsTypes
  <1>4. ASSUME NEW c \in Clients, CommitReservation(c) PROVE TypeOK' /\ Numbered'
    <2>1. CASE \E r \in NotCleanedBy(c) : r.nonce = requests[c].nonce
      BY <1>4, <2>1, IdleType, RequestKeepsTypes DEF CommitReservation
    <2>2. CASE ~ \E r \in NotCleanedBy(c) : r.nonce = requests[c].nonce
      <3> DEFINE row == [id |-> nextId, nonce |-> requests[c].nonce, expired |-> FALSE]
                 q == [requests[c] EXCEPT !.pc = "reserved", !.cleaned = {}, !.own = nextId]
      <3>1. /\ nextId \in Ids
            /\ reservations' = NotCleanedBy(c) \union {row}
            /\ requests' = [requests EXCEPT ![c] = q]
            /\ nextId' = nextId + 1
            /\ UNCHANGED <<transactions, items>>
        BY <1>4, <2>2 DEF CommitReservation, TypeOK
      <3>2. row \in Reservation /\ row.id < nextId' /\ row.nonce + 2 <= nextId'
        BY <1>0, <3>1 DEF Reservation, Ids, Numbered, Request, Nonces
      <3>3. /\ q \in Request /\ q.seen = requests[c].seen /\ q.nonce = requests[c].nonce
        BY <1>0, <3>1 DEF Request, Steps
      <3> HIDE DEF row, q
      <3>4. /\ reservations' \subseteq Reservation
            /\ \A r \in reservations' : r.id < nextId' /\ r.nonce + 2 <= nextId'
        BY <3>1, <3>2 DEF Reservation, NotCleanedBy, TypeOK, Numbered, Ids, Nonces
      <3>5. /\ transactions' \subseteq Transaction
            /\ \A x \in transactions' : x.nonce + 2 <= nextId'
        BY <3>1 DEF Transaction, TypeOK, Numbered, Ids, Nonces
      <3>6. \A d \in Clients :
               /\ requests'[d].seen \in Nat /\ requests'[d].seen + 1 <= nextId
               /\ requests'[d].nonce \in Nat /\ requests'[d].nonce + 1 <= nextId
        BY <1>0, <3>1, <3>3 DEF TypeOK, Numbered, Request, Nonces
      <3>7. TypeOK'
        BY <3>1, <3>3, <3>4, <3>5 DEF TypeOK, Ids
      <3> QED
        BY <3>1, <3>4, <3>5, <3>6, <3>7 DEF Numbered, Ids
    <2> QED
      BY <2>1, <2>2
  <1>5. ASSUME NEW c \in Clients, NEW batch \in SUBSET Items, FindReservation(c, batch)
        PROVE  TypeOK' /\ Numbered'
    <2>0. UNCHANGED <<reservations, transactions, items, nextId>>
      BY <1>5 DEF FindReservation
    <2>1. CASE requests' = [requests EXCEPT ![c] = Idle]
      <3>1. /\ Idle \in Request /\ Idle.seen + 1 <= nextId /\ Idle.nonce + 1 <= nextId
            /\ Idle.pc \notin {"reserved", "proving"}
        BY <1>0, IdleType
      <3> QED
        BY <2>0, <2>1, <3>1, RequestKeepsTypes
    <2>2. ASSUME NEW r \in reservations,
                 requests' = [requests EXCEPT ![c].pc = "proving", ![c].found = r.id,
                                              ![c].batch = batch]
          PROVE  TypeOK' /\ Numbered'
      <3> DEFINE q == [requests[c] EXCEPT !.pc = "proving", !.found = r.id, !.batch = batch]
      <3>1. requests' = [requests EXCEPT ![c] = q]
        BY <2>2 DEF TypeOK
      <3>2. r.id \in Ids
        BY DEF TypeOK, Reservation
      <3>3. q \in Request /\ q.seen = requests[c].seen /\ q.nonce = requests[c].nonce
        BY <1>0, <3>2 DEF Request, Steps
      <3> HIDE DEF q
      <3> QED
        BY <1>5, <3>1, <3>3, RequestKeepsTypes DEF FindReservation, Numbered, At
    <2>3. \/ requests' = [requests EXCEPT ![c] = Idle]
          \/ \E r \in reservations :
                requests' = [requests EXCEPT ![c].pc = "proving", ![c].found = r.id,
                                             ![c].batch = batch]
      BY <1>5 DEF FindReservation
    <2> QED
      BY <2>1, <2>2, <2>3
  <1>6. ASSUME NEW c \in Clients, CommitTransaction(c) PROVE TypeOK' /\ Numbered'
    <2>1. /\ reservations' \subseteq reservations
          /\ items' \subseteq items
          /\ transactions' \subseteq transactions \union {Created(c)}
          /\ requests' = [requests EXCEPT ![c] = Idle]
          /\ nextId' = nextId
      BY <1>6 DEF CommitTransaction
    <2>2. transactions' # transactions =>
            Created(c) \in Transaction /\ Created(c).nonce + 2 <= nextId
      BY <1>0, <1>6 DEF CommitTransaction, Insertable, Consumed, Created, Reservation,
                        Transaction, TypeOK, Numbered, Request, At
    <2>3. transactions' \subseteq Transaction
      BY <2>1, <2>2 DEF TypeOK
    <2>4. \A x \in transactions' : x.nonce + 2 <= nextId'
      BY <2>1, <2>2 DEF Numbered
    <2>5. TypeOK'
      BY <2>1, <2>3, IdleType DEF TypeOK
    <2> QED
      BY <2>1, <2>4, <2>5, IdleType DEF Numbered, TypeOK
  <1>7. ASSUME NEW c \in Clients, CommitFails(c) \/ GiveUp(c) PROVE TypeOK' /\ Numbered'
    <2>1. /\ items' \subseteq items
          /\ requests' = [requests EXCEPT ![c] = Idle]
          /\ UNCHANGED <<reservations, transactions, nextId>>
      BY <1>7 DEF CommitFails, GiveUp
    <2> QED
      BY <2>1, IdleType DEF TypeOK, Numbered
  <1>8. ASSUME NEW r \in reservations, Expire(r) PROVE TypeOK' /\ Numbered'
    <2> DEFINE left == [r EXCEPT !.expired = TRUE]
    <2>1. left \in Reservation /\ left.id = r.id /\ left.nonce = r.nonce
      BY DEF TypeOK, Reservation
    <2>2. /\ reservations' = (reservations \ {r}) \union {left}
          /\ UNCHANGED <<transactions, items, requests, nextId>>
      BY <1>8 DEF Expire
    <2> HIDE DEF left
    <2> QED
      BY <2>1, <2>2 DEF TypeOK, Numbered
  <1>9. ASSUME NEW i \in items, DeleteItem(i) PROVE TypeOK' /\ Numbered'
    BY <1>9 DEF DeleteItem, TypeOK, Numbered
  <1>10. CASE UNCHANGED vars
    BY <1>10 DEF vars, TypeOK, Numbered
  <1> QED
    BY <1>1, <1>2, <1>3, <1>4, <1>5, <1>6, <1>7, <1>8, <1>9, <1>10 DEF Next

\* TypeOK is an invariant: nonces and ids stay within their bounds, rows and
\* requests keep their shapes.
THEOREM TypeCorrect == Spec => []TypeOK
  <1>1. Spec => [](TypeOK /\ Numbered)
    BY InitTypeOK, TypeOKStep, PTL DEF Spec
  <1> QED
    BY <1>1, PTL

-----------------------------------------------------------------------------
(* What requests remember.                                                 *)

Memory == Indexed /\ Remembered /\ OwnDiffers

\* At the start there is nothing to remember.
LEMMA InitMemory == Init => Memory
  BY DEF Init, Memory, Indexed, Remembered, OwnDiffers, Idle

\* Fewer rows, and a request that forgets or keeps what it knew, keep memory.
LEMMA ForgettingKeepsMemory ==
  ASSUME TypeOK, Memory, reservations' \subseteq reservations, nextId' = nextId,
         NEW c \in Clients, NEW q, requests' = [requests EXCEPT ![c] = q],
         \/ q.own = NoId /\ q.found = NoId
         \/ /\ q.own = requests[c].own /\ q.found = requests[c].found
            /\ q.nonce = requests[c].nonce /\ q.pc = requests[c].pc
  PROVE  Memory'
  <1>1. Indexed'
    BY DEF Memory, Indexed
  <1>2. \A r \in reservations : r.id # NoId
    BY NoIdAssumption DEF TypeOK, Reservation, Ids
  <1>3. Remembered'
    <2> SUFFICES ASSUME NEW d \in Clients
                 PROVE
        /\ \A id \in {requests'[d].own, requests'[d].found} :
               /\ id # NoId => id < nextId'
               /\ \A r \in reservations' : r.id = id => r.nonce = requests'[d].nonce
        /\ requests'[d].pc \in {"idle", "cleaned", "counted", "chosen"} =>
               requests'[d].own = NoId /\ requests'[d].found = NoId
      BY DEF Remembered
    <2>1. CASE d = c
      BY <1>2, <2>1 DEF Memory, Remembered, TypeOK
    <2>2. CASE d # c
      BY <2>2 DEF Memory, Remembered, TypeOK
    <2> QED
      BY <2>1, <2>2
  <1>4. OwnDiffers'
    BY DEF Memory, OwnDiffers, TypeOK
  <1> QED
    BY <1>1, <1>3, <1>4 DEF Memory

\* A new reservation has a new id, a nonce of its own and one owner.
LEMMA CommitKeepsMemory ==
  ASSUME TypeOK, Numbered, Memory, NEW c \in Clients, CommitReservation(c)
  PROVE  Memory'
  <1>1. CASE \E r \in NotCleanedBy(c) : r.nonce = requests[c].nonce
    <2>1. requests' = [requests EXCEPT ![c] = Idle] /\ UNCHANGED <<reservations, nextId>>
      BY <1>1 DEF CommitReservation
    <2> QED
      BY <2>1, IdleType, ForgettingKeepsMemory
  <1>2. CASE ~ \E r \in NotCleanedBy(c) : r.nonce = requests[c].nonce
    <2> DEFINE row == [id |-> nextId, nonce |-> requests[c].nonce, expired |-> FALSE]
    <2>1. /\ nextId \in Ids
          /\ reservations' = NotCleanedBy(c) \union {row}
          /\ nextId' = nextId + 1
      BY <1>2 DEF CommitReservation
    <2>2. /\ \A d \in Clients \ {c} : requests'[d] = requests[d]
          /\ requests'[c].own = nextId /\ requests'[c].found = requests[c].found
          /\ requests'[c].nonce = requests[c].nonce /\ requests'[c].pc = "reserved"
      BY <1>2 DEF CommitReservation, TypeOK, Request
    <2>3. row.id = nextId /\ row.nonce = requests[c].nonce
      OBVIOUS
    <2> HIDE DEF row
    <2>4. NotCleanedBy(c) \subseteq reservations
      BY DEF NotCleanedBy
    <2>5. /\ \A r \in reservations : r.id < nextId /\ r.id \in Nat /\ r.id # NoId
          /\ nextId \in Nat /\ nextId # NoId
      BY <2>1, NoIdAssumption DEF TypeOK, Reservation, Ids, Numbered
    <2>6. requests[c].own = NoId /\ requests[c].found = NoId
      BY DEF Memory, Remembered, CommitReservation, At
    <2>7. \A d \in Clients : requests[d].own # NoId => requests[d].own < nextId
      BY DEF Memory, Remembered
    <2>8. \A d \in Clients : requests[d].own \in Nat \/ requests[d].own = NoId
      BY DEF TypeOK, Request, Ids
    <2>9. Indexed'
      BY <1>2, <2>1, <2>3, <2>4, <2>5 DEF Memory, Indexed
    <2>10. OwnDiffers'
      BY <2>2, <2>5, <2>7, <2>8 DEF Memory, OwnDiffers
    <2>11. Remembered'
      <3> SUFFICES ASSUME NEW d \in Clients
                   PROVE
          /\ \A id \in {requests'[d].own, requests'[d].found} :
                 /\ id # NoId => id < nextId'
                 /\ \A r \in reservations' : r.id = id => r.nonce = requests'[d].nonce
          /\ requests'[d].pc \in {"idle", "cleaned", "counted", "chosen"} =>
                 requests'[d].own = NoId /\ requests'[d].found = NoId
        BY DEF Remembered
      <3>1. CASE d = c
        BY <3>1, <2>1, <2>2, <2>3, <2>4, <2>5, <2>6
      <3>2. CASE d # c
        <4>1. requests'[d] = requests[d]
          BY <3>2, <2>2
        <4>2. ASSUME NEW id \in {requests[d].own, requests[d].found}
              PROVE  /\ id # NoId => id < nextId + 1 /\ id # nextId
                     /\ \A r \in reservations : r.id = id => r.nonce = requests[d].nonce
          <5>1. id \in Nat \/ id = NoId
            BY DEF TypeOK, Request, Ids
          <5>2. id # NoId => id < nextId
            BY DEF Memory, Remembered
          <5> QED
            BY <5>1, <5>2, <2>5 DEF Memory, Remembered
        <4>3. requests[d].pc \in {"idle", "cleaned", "counted", "chosen"} =>
                 requests[d].own = NoId /\ requests[d].found = NoId
          BY DEF Memory, Remembered
        <4> QED
          BY <4>1, <4>2, <4>3, <2>1, <2>3, <2>4, <2>5
      <3> QED
        BY <3>1, <3>2
    <2> QED
      BY <2>9, <2>10, <2>11 DEF Memory
  <1> QED
    BY <1>1, <1>2

\* What createTransaction finds has the nonce of the request.
LEMMA FindKeepsMemory ==
  ASSUME TypeOK, Memory, NEW c \in Clients, NEW batch \in SUBSET Items,
         FindReservation(c, batch), Numbered
  PROVE  Memory'
  <1>1. CASE requests' = [requests EXCEPT ![c] = Idle]
    BY <1>1, IdleType, ForgettingKeepsMemory DEF FindReservation
  <1>2. ASSUME NEW x \in reservations, x.nonce = requests[c].nonce,
               requests' = [requests EXCEPT ![c].pc = "proving", ![c].found = x.id,
                                            ![c].batch = batch]
        PROVE  Memory'
    <2>1. UNCHANGED <<reservations, nextId>>
      BY DEF FindReservation
    <2>2. /\ \A d \in Clients \ {c} : requests'[d] = requests[d]
          /\ requests'[c].own = requests[c].own /\ requests'[c].found = x.id
          /\ requests'[c].nonce = requests[c].nonce /\ requests'[c].pc = "proving"
      BY <1>2 DEF TypeOK, Request
    <2>3. \A r \in reservations : r.id = x.id => r.nonce = x.nonce
      BY DEF Memory, Indexed
    <2>4. x.id < nextId
      BY DEF Numbered
    <2>5. Indexed' /\ OwnDiffers'
      BY <2>1, <2>2 DEF Memory, Indexed, OwnDiffers
    <2>6. Remembered'
      <3> SUFFICES ASSUME NEW d \in Clients
                   PROVE
          /\ \A id \in {requests'[d].own, requests'[d].found} :
                 /\ id # NoId => id < nextId'
                 /\ \A r \in reservations' : r.id = id => r.nonce = requests'[d].nonce
          /\ requests'[d].pc \in {"idle", "cleaned", "counted", "chosen"} =>
                 requests'[d].own = NoId /\ requests'[d].found = NoId
        BY DEF Remembered
      <3>1. CASE d = c
        <4>1. /\ requests[c].own # NoId => requests[c].own < nextId
              /\ \A r \in reservations : r.id = requests[c].own => r.nonce = requests[c].nonce
          BY DEF Memory, Remembered
        <4>2. /\ x.id < nextId
              /\ \A r \in reservations : r.id = x.id => r.nonce = requests[c].nonce
          BY <1>2, <2>3, <2>4
        <4>3. /\ requests'[d].own = requests[c].own /\ requests'[d].found = x.id
              /\ requests'[d].nonce = requests[c].nonce /\ requests'[d].pc = "proving"
          BY <3>1, <2>2
        <4>4. reservations' = reservations /\ nextId' = nextId
          BY <2>1
        <4>5. \A id \in {requests'[d].own, requests'[d].found} :
                 /\ id # NoId => id < nextId'
                 /\ \A r \in reservations' : r.id = id => r.nonce = requests'[d].nonce
          BY <4>1, <4>2, <4>3, <4>4
        <4>6. requests'[d].pc \notin {"idle", "cleaned", "counted", "chosen"}
          BY <4>3
        <4> QED
          BY <4>5, <4>6
      <3>2. CASE d # c
        BY <3>2, <2>1, <2>2 DEF Memory, Remembered
      <3> QED
        BY <3>1, <3>2
    <2> QED
      BY <2>5, <2>6 DEF Memory
  <1>3. \/ requests' = [requests EXCEPT ![c] = Idle]
        \/ \E x \in reservations : x.nonce = requests[c].nonce /\
              requests' = [requests EXCEPT ![c].pc = "proving", ![c].found = x.id,
                                           ![c].batch = batch]
    BY DEF FindReservation
  <1> QED
    BY <1>1, <1>2, <1>3

\* Every step keeps memory.
LEMMA MemoryStep == TypeOK /\ Numbered /\ Memory /\ [Next]_vars => Memory'
  <1> SUFFICES ASSUME TypeOK, Numbered, Memory, [Next]_vars PROVE Memory'
    OBVIOUS
  <1>1. ASSUME NEW c \in Clients, CleanExpired(c) PROVE Memory'
    <2> DEFINE q == [Idle EXCEPT !.pc = "cleaned",
                       !.cleaned = {r.id : r \in {r \in reservations : r.expired}}]
    <2>1. requests' = [requests EXCEPT ![c] = q] /\ UNCHANGED <<reservations, nextId>>
      BY <1>1 DEF CleanExpired
    <2>2. q.own = NoId /\ q.found = NoId
      BY DEF Idle
    <2> HIDE DEF q
    <2> QED
      BY <2>1, <2>2, ForgettingKeepsMemory
  <1>2. ASSUME NEW c \in Clients, NEW q,
               requests' = [requests EXCEPT ![c] = q],
               q.own = requests[c].own /\ q.found = requests[c].found,
               requests[c].pc \in {"cleaned", "counted"},
               UNCHANGED <<reservations, nextId>>
        PROVE  Memory'
    <2>1. q.own = NoId /\ q.found = NoId
      BY <1>2 DEF Memory, Remembered
    <2> QED
      BY <1>2, <2>1, ForgettingKeepsMemory
  <1>3. ASSUME NEW c \in Clients, ReadTransactions(c) PROVE Memory'
    <2> DEFINE q == [requests[c] EXCEPT !.pc = "counted", !.seen = NextAfter(transactions)]
    <2>1. requests' = [requests EXCEPT ![c] = q] /\ UNCHANGED <<reservations, nextId>>
      BY <1>3 DEF ReadTransactions, TypeOK
    <2>2. q.own = requests[c].own /\ q.found = requests[c].found
      BY DEF TypeOK, Request
    <2> HIDE DEF q
    <2> QED
      BY <1>2, <1>3, <2>1, <2>2 DEF ReadTransactions, At
  <1>4. ASSUME NEW c \in Clients, ReadReservations(c) PROVE Memory'
    <2> DEFINE q == [requests[c] EXCEPT !.pc = "chosen",
                       !.nonce = Max({requests[c].seen, NextAfter(NotCleanedBy(c))})]
    <2>1. requests' = [requests EXCEPT ![c] = q] /\ UNCHANGED <<reservations, nextId>>
      BY <1>4 DEF ReadReservations, TypeOK
    <2>2. q.own = requests[c].own /\ q.found = requests[c].found
      BY DEF TypeOK, Request
    <2> HIDE DEF q
    <2> QED
      BY <1>2, <1>4, <2>1, <2>2 DEF ReadReservations, At
  <1>5. ASSUME NEW c \in Clients, CommitReservation(c) PROVE Memory'
    BY <1>5, CommitKeepsMemory
  <1>6. ASSUME NEW c \in Clients, NEW batch \in SUBSET Items, FindReservation(c, batch)
        PROVE  Memory'
    BY <1>6, FindKeepsMemory
  <1>7. ASSUME NEW c \in Clients, CommitTransaction(c) \/ CommitFails(c) \/ GiveUp(c)
        PROVE  Memory'
    <2>1. /\ reservations' \subseteq reservations
          /\ requests' = [requests EXCEPT ![c] = Idle]
          /\ nextId' = nextId
      BY <1>7 DEF CommitTransaction, CommitFails, GiveUp
    <2> QED
      BY <2>1, IdleType, ForgettingKeepsMemory
  <1>8. ASSUME NEW x \in reservations, Expire(x) PROVE Memory'
    <2> DEFINE left == [x EXCEPT !.expired = TRUE]
    <2>1. left.id = x.id /\ left.nonce = x.nonce
      BY DEF TypeOK, Reservation
    <2>2. /\ reservations' = (reservations \ {x}) \union {left}
          /\ UNCHANGED <<requests, nextId>>
      BY <1>8 DEF Expire
    <2> HIDE DEF left
    <2>3. Indexed' /\ OwnDiffers'
      BY <2>1, <2>2 DEF Memory, Indexed, OwnDiffers
    <2>4. Remembered'
      BY <2>1, <2>2 DEF Memory, Remembered
    <2> QED
      BY <2>3, <2>4 DEF Memory
  <1>9. ASSUME UNCHANGED <<reservations, requests, nextId>> PROVE Memory'
    BY <1>9 DEF Memory, Indexed, Remembered, OwnDiffers
  <1>10. CASE \E i \in items : DeleteItem(i)
    BY <1>9, <1>10 DEF DeleteItem
  <1>11. CASE UNCHANGED vars
    BY <1>9, <1>11 DEF vars
  <1> QED
    BY <1>1, <1>3, <1>4, <1>5, <1>6, <1>7, <1>8, <1>10, <1>11 DEF Next

\* Memory is an invariant.
LEMMA MemoryHolds == Spec => [](TypeOK /\ Numbered /\ Memory)
  BY InitTypeOK, InitMemory, TypeOKStep, MemoryStep, PTL DEF Spec

\* LiveReservationsDiffer: the reservations that clients hold and that are
\* alive are of different nonces.
THEOREM ReservationsExclusive == Spec => []LiveReservationsDiffer
  <1>1. TypeOK /\ Memory => LiveReservationsDiffer
    <2> SUFFICES ASSUME TypeOK, Memory, NEW c \in Clients, NEW d \in Clients, c # d,
                        Live(requests[c].own), Live(requests[d].own)
                 PROVE  requests[c].nonce # requests[d].nonce
      BY DEF LiveReservationsDiffer
    <2>1. PICK r \in reservations : r.id = requests[c].own
      BY DEF Live
    <2>2. PICK s \in reservations : s.id = requests[d].own
      BY DEF Live
    <2>3. requests[c].own # NoId
      BY <2>1, NoIdAssumption DEF TypeOK, Reservation, Ids
    <2>4. r # s
      BY <2>1, <2>2, <2>3 DEF Memory, OwnDiffers
    <2>5. r.nonce = requests[c].nonce /\ s.nonce = requests[d].nonce
      BY <2>1, <2>2 DEF Memory, Remembered
    <2> QED
      BY <2>4, <2>5 DEF Memory, Indexed
  <1> QED
    BY MemoryHolds, <1>1, PTL

\* CreationConsumesReservation: a transaction is created by deleting the very
\* reservation that its request found before it waited for zkVerify.
THEOREM CreationIsReserved == Spec => CreationConsumesReservation
  <1>1. ASSUME TypeOK, Memory, [Next]_vars, NEW x \in transactions' \ transactions
        PROVE  \E r \in reservations \ reservations' :
                  r.nonce = x.nonce /\ r.id = x.reservation
    <2>1. PICK c \in Clients : CommitTransaction(c)
      BY <1>1 DEF Next, CleanExpired, ReadTransactions, ReadReservations, CommitReservation,
                  FindReservation, CommitFails, GiveUp, Expire, DeleteItem, vars
    <2>2. /\ x = Created(c)
          /\ Consumed(c) # {}
          /\ reservations' = reservations \ Consumed(c)
      BY <2>1 DEF CommitTransaction, Insertable
    <2>3. PICK r \in Consumed(c) : TRUE
      BY <2>2
    <2>4. r \in reservations \ reservations' /\ r.id = requests[c].found
      BY <2>2, <2>3 DEF Consumed
    <2>5. r.nonce = requests[c].nonce
      BY <1>1, <2>4 DEF Memory, Remembered
    <2> QED
      BY <2>2, <2>4, <2>5 DEF Created
  <1>2. TypeOK /\ Memory /\ [Next]_vars =>
          [\A x \in transactions' \ transactions :
             \E r \in reservations \ reservations' :
                r.nonce = x.nonce /\ r.id = x.reservation]_vars
    BY <1>1
  <1> QED
    BY MemoryHolds, <1>2, PTL DEF Spec, CreationConsumesReservation

-----------------------------------------------------------------------------
(* Drafts.                                                                 *)

\* DraftProposedOnce: no draft is paid by two transactions.
THEOREM DraftsAreProposedOnce == Spec => []DraftProposedOnce
  <1>1. Init => DraftProposedOnce
    BY DEF Init, DraftProposedOnce
  <1>2. ASSUME DraftProposedOnce, [Next]_vars PROVE DraftProposedOnce'
    <2>1. ASSUME UNCHANGED transactions, items' \subseteq items PROVE DraftProposedOnce'
      BY <1>2, <2>1 DEF DraftProposedOnce
    <2>2. ASSUME NEW c \in Clients, CommitTransaction(c) PROVE DraftProposedOnce'
      <3>1. CASE Insertable(c) /\ requests[c].batch \subseteq items
        <4>1. /\ items' = items \ requests[c].batch
              /\ transactions' = transactions \union {Created(c)}
              /\ Created(c).batch = requests[c].batch
          BY <2>2, <3>1 DEF CommitTransaction, Created
        <4> QED
          BY <1>2, <3>1, <4>1 DEF DraftProposedOnce
      <3>2. CASE ~(Insertable(c) /\ requests[c].batch \subseteq items)
        BY <2>1, <2>2, <3>2 DEF CommitTransaction
      <3> QED
        BY <3>1, <3>2
    <2>3. CASE ~ \E c \in Clients : CommitTransaction(c)
      <3>1. UNCHANGED transactions /\ items' \subseteq items
        BY <1>2, <2>3
           DEF Next, CleanExpired, ReadTransactions, ReadReservations, CommitReservation,
               FindReservation, CommitFails, GiveUp, Expire, DeleteItem, vars
      <3> QED
        BY <2>1, <3>1
    <2> QED
      BY <2>2, <2>3
  <1> QED
    BY <1>1, <1>2, PTL DEF Spec
=============================================================================
