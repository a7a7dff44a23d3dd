---------------------------- MODULE AccountEvents ----------------------------
(***************************************************************************)
(* How a change of an account's transactions gets to the list that a       *)
(* signer looks at:                                                        *)
(*   backend/src/events/, and the emits of backend/src/transaction/        *)
(*   nextjs/services/socket/socketManager.ts                               *)
(*   nextjs/hooks/app/useSocketConnection.ts, useSocketEvent.ts            *)
(*   nextjs/hooks/api/useTransaction.ts    (list, invalidation on events)  *)
(*                                                                         *)
(* An event carries no data that is shown; it makes the client ask again.  *)
(* So an account is a version, events are counted, and a list is the       *)
(* version it was read at.  Clients do not touch each other: this is one.  *)
(* The query library is not in the repository; it is modelled by what its  *)
(* calls in nextjs/ rely on.                                               *)
(***************************************************************************)
EXTENDS Naturals

CONSTANTS
    Accounts,           \* accounts of the user, on one chain
    First,              \* the account that is shown at first
    MaxVersion,         \* bound: Accounts -> changes of the account
    MaxFaults,          \* bound: lost connections, failed requests, roll-backs
    None                \* no list yet

ASSUME BoundsAssumption ==
    /\ First \in Accounts
    /\ MaxVersion \in [Accounts -> Nat]
    /\ MaxFaults \in Nat
    /\ None \notin Nat

VARIABLES
    version,    \* Accounts -> number of committed changes
    owed,       \* Accounts -> commits whose event is not emitted yet
    early,      \* Accounts -> is an EXECUTED announced and not committed?
    shown,      \* currentAccount
    open,       \* is the page with the list mounted?
    listening,  \* are its callbacks attached to the present socket?
    socket,     \* [connected, query, room, inbox]
    list,       \* Accounts -> the version in the query cache, or None
    stale,      \* Accounts -> is the query invalid, or older than staleTime?
    fetch,      \* Accounts -> [phase, version] of the request of the query
    heard,      \* Accounts -> what was committed when an event was last heard
    missed,     \* Accounts -> has an event come too late for the first load?
    faults

server == <<version, owed, early>>
page == <<shown, open, listening>>
cache == <<list, stale, fetch, heard, missed>>
vars == <<server, page, socket, cache, faults>>

Socket == [connected : BOOLEAN, query : Accounts, room : Accounts, inbox : Nat]
Fetch == [phase : {"idle", "asked", "read"}, version : Nat]

Fetching(a) == fetch[a].phase # "idle"
Ask(a) == [fetch EXCEPT ![a] = [phase |-> "asked", version |-> 0]]

-----------------------------------------------------------------------------
(* The server.                                                             *)

\* emitToAccount: to the room of the account.
Send(a) ==
    socket' = [socket EXCEPT
        !.inbox = IF socket.connected /\ socket.room = a THEN @ + 1 ELSE @]

\* A creation, a vote, or a status other than EXECUTED: the event follows the
\* commit.
Commit(a) ==
    /\ version[a] < MaxVersion[a]
    /\ version' = [version EXCEPT ![a] = @ + 1]
    /\ owed' = [owed EXCEPT ![a] = @ + 1]
    /\ UNCHANGED <<early, page, socket, cache, faults>>

Emit(a) ==
    /\ owed[a] > 0
    /\ owed' = [owed EXCEPT ![a] = @ - 1]
    /\ Send(a)
    /\ UNCHANGED <<version, early, page, cache, faults>>

\* markExecuted emits inside of the database transaction.
EmitExecuted(a) ==
    /\ ~early[a]
    /\ version[a] < MaxVersion[a]
    /\ early' = [early EXCEPT ![a] = TRUE]
    /\ Send(a)
    /\ UNCHANGED <<version, owed, page, cache, faults>>

CommitExecuted(a) ==
    /\ early[a]
    /\ version[a] < MaxVersion[a]
    /\ early' = [early EXCEPT ![a] = FALSE]
    /\ version' = [version EXCEPT ![a] = @ + 1]
    /\ UNCHANGED <<owed, page, socket, cache, faults>>

RollBackExecuted(a) ==
    /\ faults < MaxFaults
    /\ faults' = faults + 1
    /\ early[a]
    /\ early' = [early EXCEPT ![a] = FALSE]
    /\ UNCHANGED <<version, owed, page, socket, cache>>

-----------------------------------------------------------------------------
(* Socket and page.                                                        *)

Closed(a) == [connected |-> FALSE, query |-> a, room |-> a, inbox |-> 0]

\* A query that is mounted asks if it has no data or stale data, unless a
\* request of it is on its way.
Mount(a) ==
    fetch' = IF ~Fetching(a) /\ (list[a] = None \/ stale[a]) THEN Ask(a) ELSE fetch

\* Mutant: join-account instead of a new connection, as socketManager.connect
\* would do if it were not disconnected first.
SwitchRoom(a) ==
    /\ a # shown
    /\ shown' = a
    /\ socket' = IF socket.connected THEN [socket EXCEPT !.room = a, !.inbox = 0] ELSE Closed(a)
    /\ IF open THEN Mount(a) ELSE UNCHANGED fetch
    /\ UNCHANGED <<server, open, listening, list, stale, heard, missed, faults>>

\* All clean-ups of effects run before the effects: the connection is closed,
\* the list, a child, subscribes to a socket that is null, and then the parent
\* opens the next connection.
SwitchAccount(a) ==
    /\ a # shown
    /\ shown' = a
    /\ socket' = Closed(a)
    /\ listening' = FALSE
    /\ IF open THEN Mount(a) ELSE UNCHANGED fetch
    /\ UNCHANGED <<server, open, list, stale, heard, missed, faults>>

OpenPage ==
    /\ ~open
    /\ open' = TRUE
    /\ listening' = TRUE
    /\ Mount(shown)
    /\ UNCHANGED <<server, shown, socket, list, stale, heard, missed, faults>>

ClosePage ==
    /\ open
    /\ open' = FALSE
    /\ listening' = FALSE
    /\ UNCHANGED <<server, shown, socket, cache, faults>>

\* The address of the list comes from the client of the wallet; when that one is
\* replaced, the callbacks are new and subscribe again.
Resubscribe ==
    /\ open
    /\ listening' = TRUE
    /\ UNCHANGED <<server, shown, open, socket, cache, faults>>

\* handleConnection: the room of the handshake, at a reconnection too.
Connect ==
    /\ ~socket.connected
    /\ socket' = [socket EXCEPT !.connected = TRUE, !.room = socket.query]
    /\ UNCHANGED <<server, page, cache, faults>>

\* The callbacks stay; what the server emits meanwhile is lost.
LoseConnection ==
    /\ faults < MaxFaults
    /\ faults' = faults + 1
    /\ socket.connected
    /\ socket' = [socket EXCEPT !.connected = FALSE, !.inbox = 0]
    /\ UNCHANGED <<server, page, cache>>

-----------------------------------------------------------------------------
(* The query.                                                              *)

\* The first load of a list has read what it will show.
FirstLoadRead(a) == fetch[a].phase = "read" /\ list[a] = None

\* invalidateQueries of the mounted query.  A request on its way is cancelled
\* and sent again, but not the first one, which is waited for: its answer makes
\* the query valid again, whatever was committed after it was read.
Invalidate(a) ==
    /\ stale' = [stale EXCEPT ![a] = TRUE]
    /\ fetch' = IF Fetching(a) /\ list[a] = None THEN fetch ELSE Ask(a)
    /\ heard' = [heard EXCEPT ![a] = version[a]]
    /\ missed' = [missed EXCEPT ![a] = @ \/ FirstLoadRead(a)]

\* Mutant: a request on its way is waited for, always.
InvalidateAndWait(a) ==
    /\ stale' = [stale EXCEPT ![a] = TRUE]
    /\ fetch' = IF Fetching(a) THEN fetch ELSE Ask(a)
    /\ heard' = [heard EXCEPT ![a] = version[a]]
    /\ missed' = [missed EXCEPT ![a] = @ \/ FirstLoadRead(a)]

\* Mutant: an event only marks the query, which is asked at the next mount.
DeliverMark ==
    /\ socket.inbox > 0
    /\ socket' = [socket EXCEPT !.inbox = @ - 1]
    /\ IF listening
       THEN /\ stale' = [stale EXCEPT ![shown] = TRUE]
            /\ heard' = [heard EXCEPT ![shown] = version[shown]]
            /\ missed' = [missed EXCEPT ![shown] = @ \/ FirstLoadRead(shown)]
       ELSE UNCHANGED <<stale, heard, missed>>
    /\ UNCHANGED <<server, page, list, fetch, faults>>

\* Mutant: see InvalidateAndWait.
DeliverAndWait ==
    /\ socket.inbox > 0
    /\ socket' = [socket EXCEPT !.inbox = @ - 1]
    /\ IF listening THEN InvalidateAndWait(shown) ELSE UNCHANGED <<stale, fetch, heard, missed>>
    /\ UNCHANGED <<server, page, list, faults>>

\* handleTxCreated, handleTxStatus, handleTxVoted.
Deliver ==
    /\ socket.inbox > 0
    /\ socket' = [socket EXCEPT !.inbox = @ - 1]
    /\ IF listening THEN Invalidate(shown) ELSE UNCHANGED <<stale, fetch, heard, missed>>
    /\ UNCHANGED <<server, page, list, faults>>

\* getAll reads the committed rows, and so makes up for what was missed.
Read(a) ==
    /\ fetch[a].phase = "asked"
    /\ missed' = [missed EXCEPT ![a] = FALSE]
    /\ fetch' = [fetch EXCEPT ![a] = [phase |-> "read", version |-> version[a]]]
    /\ UNCHANGED <<server, page, socket, list, stale, heard, faults>>

\* Mutant: the query that is shown gets the answer of another.
AnswerToShown(a) ==
    /\ fetch[a].phase = "read"
    /\ list' = [list EXCEPT ![shown] = fetch[a].version]
    /\ stale' = [stale EXCEPT ![shown] = FALSE]
    /\ fetch' = [fetch EXCEPT ![a] = [phase |-> "idle", version |-> 0]]
    /\ UNCHANGED <<server, page, socket, heard, missed, faults>>

Answer(a) ==
    /\ fetch[a].phase = "read"
    /\ list' = [list EXCEPT ![a] = fetch[a].version]
    /\ stale' = [stale EXCEPT ![a] = FALSE]
    /\ fetch' = [fetch EXCEPT ![a] = [phase |-> "idle", version |-> 0]]
    /\ UNCHANGED <<server, page, socket, heard, missed, faults>>

\* Three times; the query stays invalid.
FetchFails(a) ==
    /\ faults < MaxFaults
    /\ faults' = faults + 1
    /\ Fetching(a)
    /\ stale' = [stale EXCEPT ![a] = TRUE]
    /\ fetch' = [fetch EXCEPT ![a] = [phase |-> "idle", version |-> 0]]
    /\ UNCHANGED <<server, page, socket, list, heard, missed>>

\* staleTime is over.  Nothing is asked before the next mount.
Age(a) ==
    /\ list[a] # None
    /\ ~stale[a]
    /\ stale' = [stale EXCEPT ![a] = TRUE]
    /\ UNCHANGED <<server, page, socket, list, fetch, heard, missed, faults>>

-----------------------------------------------------------------------------

\* The page is mounted after the connection was asked for: InitializeApp shows
\* it only when the account is known.
Init ==
    /\ version = [a \in Accounts |-> 0]
    /\ owed = [a \in Accounts |-> 0]
    /\ early = [a \in Accounts |-> FALSE]
    /\ shown = First
    /\ open = FALSE
    /\ listening = FALSE
    /\ socket = Closed(First)
    /\ list = [a \in Accounts |-> None]
    /\ stale = [a \in Accounts |-> FALSE]
    /\ fetch = [a \in Accounts |-> [phase |-> "idle", version |-> 0]]
    /\ heard = [a \in Accounts |-> 0]
    /\ missed = [a \in Accounts |-> FALSE]
    /\ faults = 0

Next ==
    \/ \E a \in Accounts :
           \/ Commit(a) \/ Emit(a)
           \/ EmitExecuted(a) \/ CommitExecuted(a) \/ RollBackExecuted(a)
    \/ \E a \in Accounts : SwitchAccount(a)
    \/ OpenPage \/ ClosePage \/ Resubscribe
    \/ Connect \/ LoseConnection
    \/ Deliver
    \/ \E a \in Accounts : Read(a) \/ Answer(a) \/ FetchFails(a) \/ Age(a)

Spec == Init /\ [][Next]_vars

\* A handler that has committed emits; what was sent arrives or its connection
\* is lost; a request is answered or fails.  Reconnecting is not fair: socket.io
\* gives up after five attempts.
FairSpec ==
    /\ Spec
    /\ \A a \in Accounts : WF_vars(Emit(a)) /\ WF_vars(CommitExecuted(a))
    /\ \A a \in Accounts : WF_vars(Read(a) \/ Answer(a))
    /\ WF_vars(Deliver)

-----------------------------------------------------------------------------
(* Properties.                                                             *)

\* The shapes of the rooms, the page and the query cache.
TypeOK ==
    /\ version \in [Accounts -> Nat]
    /\ owed \in [Accounts -> Nat]
    /\ \A a \in Accounts : owed[a] <= version[a]
    /\ early \in [Accounts -> BOOLEAN]
    /\ shown \in Accounts
    /\ open \in BOOLEAN
    /\ listening \in BOOLEAN
    /\ socket \in Socket
    /\ list \in [Accounts -> Nat \union {None}]
    /\ stale \in [Accounts -> BOOLEAN]
    /\ fetch \in [Accounts -> Fetch]
    /\ heard \in [Accounts -> Nat]
    /\ missed \in [Accounts -> BOOLEAN]
    /\ faults \in 0..MaxFaults

\* A client that is connected is in the room of the account it shows, after
\* switches and reconnections in any order: no event of another account
\* reaches the list, and those of this one do.
RoomOfShownAccount ==
    socket.connected => socket.room = shown

\* An event is not lost in a reload that was under way when it came: when the
\* query is at rest and valid, the list has everything that was committed at the
\* event, unless it came between the reading for the first load of the list and
\* its answer, and nothing was read since.
HeardIsShown ==
    \A a \in Accounts :
        (list[a] # None /\ ~Fetching(a) /\ ~stale[a]) => list[a] >= heard[a] \/ missed[a]

\* Reloads do not bring back an older list.
ListNeverGoesBack ==
    [][\A a \in Accounts : list[a] # None => list'[a] >= list[a]]_vars

\* What was committed when the page hears an event is shown in the end, whatever
\* the user does with accounts and pages meanwhile, unless the connection or a
\* request fails, or the event comes too late for the first load.
HeardIsShownEventually ==
    \A a \in Accounts : \A n \in 1..MaxVersion[a] :
        heard[a] >= n ~> (list[a] # None /\ list[a] >= n) \/ missed[a] \/ faults > 0

\* "Listen for realtime transaction updates.  Use this in components that
\* display transaction list": an event that arrives while the list is displayed
\* makes the list be loaded.
ArrivalsReloadTheList ==
    [][(open /\ socket'.inbox < socket.inbox /\ socket'.connected)
           => fetch'[shown].phase # "idle"]_vars
=============================================================================
