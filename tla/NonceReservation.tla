--------------------------- MODULE NonceReservation ---------------------------
(***************************************************************************)
(* How a proposal gets its nonce: reserveNonce and createTransaction of    *)
(* backend/src/transaction/transaction.service.ts, for one account; and    *)
(* what becomes of the drafts (backend/src/batch-item/) that a batch is    *)
(* made from.                                                              *)
(*                                                                         *)
(* A client reserves a nonce, proves its approval of the transaction with  *)
(* that nonce, and creates the transaction, which waits for zkVerify       *)
(* longer than the reservation lives.  reserveNonce runs in one database   *)
(* transaction, at PostgreSQL's default isolation (read committed): each   *)
(* of its queries sees what others have committed meanwhile, a deleted row *)
(* is gone for them at the commit, and whoever wants to delete it too      *)
(* waits until then.                                                       *)
(***************************************************************************)
EXTENDS Integers, FiniteSets, FiniteSetsExt

CONSTANTS
    Clients,            \* requests and the people behind them
    Items,              \* drafts of payments, of all members
    MaxReservations,    \* bound: reservations ever made
    NoId                \* no reservation

ASSUME MaxReservationsAssumption == MaxReservations \in Nat
ASSUME NoIdAssumption == NoId \notin 1..MaxReservations

VARIABLES
    reservations,   \* table ReservedNonce: rows [id, nonce, expired]
    transactions,   \* table Transaction: rows [nonce, reservation, batch]
    items,          \* table BatchItem
    requests,       \* Clients -> [pc, cleaned, seen, nonce, own, found, batch]
    nextId

vars == <<reservations, transactions, items, requests, nextId>>

Ids == 1..MaxReservations
Nonces == 0..MaxReservations
Reservation == [id : Ids, nonce : Nonces, expired : BOOLEAN]
Transaction == [nonce : Nonces, reservation : Ids, batch : SUBSET Items]

Steps == {"idle", "cleaned", "counted", "chosen", "reserved", "proving"}

\* cleaned: reservations an uncommitted reserveNonce has deleted.  seen: the
\* nonce after the transactions it read.  own: the reservation the client was
\* given.  found: the one that createTransaction found.  batch: the drafts it
\* copied, none unless the transaction is a batch.
Request == [pc : Steps, cleaned : SUBSET Ids, seen : Nonces, nonce : Nonces,
            own : Ids \union {NoId}, found : Ids \union {NoId}, batch : SUBSET Items]
Idle == [pc |-> "idle", cleaned |-> {}, seen |-> 0, nonce |-> 0, own |-> NoId,
         found |-> NoId, batch |-> {}]

At(c, pc) == requests[c].pc = pc
Locked(id) == \E c \in Clients : id \in requests[c].cleaned
Live(id) == \E r \in reservations : r.id = id /\ ~r.expired

\* (max ?? -1) + 1
NextAfter(rows) == IF rows = {} THEN 0 ELSE Max({r.nonce : r \in rows}) + 1
NotCleanedBy(c) == {r \in reservations : r.id \notin requests[c].cleaned}

-----------------------------------------------------------------------------
(* reserveNonce *)

CleanExpired(c) ==
    LET expired == {r.id : r \in {r \in reservations : r.expired}} IN
    /\ At(c, "idle")
    /\ \A id \in expired : ~Locked(id)
    /\ requests' = [requests EXCEPT ![c] = [Idle EXCEPT !.pc = "cleaned",
                                                        !.cleaned = expired]]
    /\ UNCHANGED <<reservations, transactions, items, nextId>>

ReadTransactions(c) ==
    /\ At(c, "cleaned")
    /\ requests' = [requests EXCEPT ![c].pc = "counted",
                                    ![c].seen = NextAfter(transactions)]
    /\ UNCHANGED <<reservations, transactions, items, nextId>>

ReadReservations(c) ==
    /\ At(c, "counted")
    /\ requests' = [requests EXCEPT ![c].pc = "chosen",
           ![c].nonce = Max({requests[c].seen, NextAfter(NotCleanedBy(c))})]
    /\ UNCHANGED <<reservations, transactions, items, nextId>>

\* Mutant: no unique index.
CommitReservationAnyway(c) ==
    /\ At(c, "chosen")
    /\ nextId \in Ids
    /\ reservations' = NotCleanedBy(c) \union
           {[id |-> nextId, nonce |-> requests[c].nonce, expired |-> FALSE]}
    /\ requests' = [requests EXCEPT ![c].pc = "reserved", ![c].cleaned = {},
                                    ![c].own = nextId]
    /\ nextId' = nextId + 1
    /\ UNCHANGED <<transactions, items>>

\* The insert and the commit.  The unique index on the nonce refuses a second
\* reservation, and then nothing was deleted either.
CommitReservation(c) ==
    /\ At(c, "chosen")
    /\ nextId \in Ids
    /\ IF \E r \in NotCleanedBy(c) : r.nonce = requests[c].nonce
       THEN /\ requests' = [requests EXCEPT ![c] = Idle]
            /\ UNCHANGED <<reservations, nextId>>
       ELSE /\ reservations' = NotCleanedBy(c) \union
                   {[id |-> nextId, nonce |-> requests[c].nonce, expired |-> FALSE]}
            /\ requests' = [requests EXCEPT ![c].pc = "reserved", ![c].cleaned = {},
                                            ![c].own = nextId]
            /\ nextId' = nextId + 1
    /\ UNCHANGED <<transactions, items>>

-----------------------------------------------------------------------------
(* createTransaction *)

\* Any reservation of the nonce that has not expired will do, and all drafts of
\* the batch must be there; otherwise: refused.
FindReservation(c, batch) ==
    LET matching == {r \in reservations : r.nonce = requests[c].nonce /\ ~r.expired} IN
    /\ At(c, "reserved")
    /\ IF matching = {} \/ ~(batch \subseteq items)
       THEN requests' = [requests EXCEPT ![c] = Idle]
       ELSE \E r \in matching :
               requests' = [requests EXCEPT ![c].pc = "proving", ![c].found = r.id,
                                            ![c].batch = batch]
    /\ UNCHANGED <<reservations, transactions, items, nextId>>

Consumed(c) == {r \in reservations : r.id = requests[c].found}
Created(c) == [nonce |-> requests[c].nonce, reservation |-> requests[c].found,
               batch |-> requests[c].batch]

\* The delete of the reservation throws if it is gone, the insert if the nonce
\* is taken.
Insertable(c) == Consumed(c) # {} /\ \A x \in transactions : x.nonce # requests[c].nonce

\* Mutant: deleteMany, which does not mind that the reservation is gone.
CommitTransactionUnreserved(c) ==
    /\ At(c, "proving")
    /\ ~Locked(requests[c].found)
    /\ \A x \in transactions : x.nonce # requests[c].nonce
    /\ reservations' = reservations \ Consumed(c)
    /\ transactions' = transactions \union {Created(c)}
    /\ items' = items \ requests[c].batch
    /\ requests' = [requests EXCEPT ![c] = Idle]
    /\ UNCHANGED nextId

\* Mutant: deleteMany for the drafts, too.
CommitTransactionForgivingDrafts(c) ==
    /\ At(c, "proving")
    /\ ~Locked(requests[c].found)
    /\ Insertable(c)
    /\ reservations' = reservations \ Consumed(c)
    /\ transactions' = transactions \union {Created(c)}
    /\ items' = items \ requests[c].batch
    /\ requests' = [requests EXCEPT ![c] = Idle]
    /\ UNCHANGED nextId

\* zkVerify has finalised the proof.  The drafts are deleted by a connection of
\* their own: one that is missing throws and undoes the transaction, but not
\* the deletion of the others.
CommitTransaction(c) ==
    LET batch == requests[c].batch IN
    /\ At(c, "proving")
    /\ ~Locked(requests[c].found)
    /\ items' = IF Insertable(c) THEN items \ batch ELSE items
    /\ IF Insertable(c) /\ batch \subseteq items
       THEN /\ reservations' = reservations \ Consumed(c)
            /\ transactions' = transactions \union {Created(c)}
       ELSE UNCHANGED <<reservations, transactions>>
    /\ requests' = [requests EXCEPT ![c] = Idle]
    /\ UNCHANGED nextId

\* The database refuses the commit, or the backend stops before it.
CommitFails(c) ==
    /\ At(c, "proving")
    /\ ~Locked(requests[c].found)
    /\ Insertable(c)
    /\ items' = items \ requests[c].batch
    /\ requests' = [requests EXCEPT ![c] = Idle]
    /\ UNCHANGED <<reservations, transactions, nextId>>

-----------------------------------------------------------------------------

\* The client leaves, zkVerify refuses the proof, or the backend restarts.  A
\* database transaction that has not committed leaves nothing.
GiveUp(c) ==
    /\ ~At(c, "idle")
    /\ requests' = [requests EXCEPT ![c] = Idle]
    /\ UNCHANGED <<reservations, transactions, items, nextId>>

\* Two minutes have passed.
Expire(r) ==
    /\ ~r.expired
    /\ reservations' = (reservations \ {r}) \union {[r EXCEPT !.expired = TRUE]}
    /\ UNCHANGED <<transactions, items, requests, nextId>>

\* Its owner deletes a draft.
DeleteItem(i) ==
    /\ i \in items
    /\ items' = items \ {i}
    /\ UNCHANGED <<reservations, transactions, requests, nextId>>

Init ==
    /\ reservations = {}
    /\ transactions = {}
    /\ items = Items
    /\ requests = [c \in Clients |-> Idle]
    /\ nextId = 1

Next ==
    \/ \E c \in Clients :
          \/ CleanExpired(c)
          \/ ReadTransactions(c)
          \/ ReadReservations(c)
          \/ CommitReservation(c)
          \/ \E batch \in SUBSET Items : FindReservation(c, batch)
          \/ CommitTransaction(c)
          \/ CommitFails(c)
          \/ GiveUp(c)
    \/ \E r \in reservations : Expire(r)
    \/ \E i \in items : DeleteItem(i)

Spec == Init /\ [][Next]_vars

-----------------------------------------------------------------------------
(* Properties.                                                             *)

\* The shapes of the tables and of the requests of transaction.service.ts.
TypeOK ==
    /\ reservations \subseteq Reservation
    /\ transactions \subseteq Transaction
    /\ items \subseteq Items
    /\ requests \in [Clients -> Request]
    /\ nextId \in 1..(MaxReservations + 1)

\* Two clients whose reservations are both alive hold different nonces, also
\* when an expired reservation of that nonce is cleaned away, and its nonce
\* given out again, while they work.
LiveReservationsDiffer ==
    \A c, d \in Clients :
        c # d /\ Live(requests[c].own) /\ Live(requests[d].own)
            => requests[c].nonce # requests[d].nonce

\* A transaction is created by consuming the reservation that its request
\* found before the long wait, if that one is still there; a reservation of
\* the same nonce made since is not touched.
CreationConsumesReservation ==
    [][\A x \in transactions' \ transactions :
           \E r \in reservations \ reservations' :
               r.nonce = x.nonce /\ r.id = x.reservation]_vars

\* A draft becomes part of at most one transaction, of however many requests
\* that copied it before their proofs were verified, and is gone afterwards.
DraftProposedOnce ==
    /\ \A x, y \in transactions : x # y => x.batch \intersect y.batch = {}
    /\ \A x \in transactions : x.batch \intersect items = {}
=============================================================================
