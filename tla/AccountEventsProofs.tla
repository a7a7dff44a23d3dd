-------------------------- MODULE AccountEventsProofs --------------------------
(***************************************************************************)
(* Proofs about the events of an account and the list that they reload,    *)
(* for every set of accounts and any number of changes and faults.         *)
(*                                                                         *)
(* The argument: what a reload has read is at least as new as the list and *)
(* as the last event heard, since an event that comes after the reading    *)
(* has it done again; only the first load of a list is not repeated, and   *)
(* what comes after its reading is missed until something is read again.   *)
(***************************************************************************)
EXTENDS AccountEvents, TLAPS

\* The socket is one for the account that is shown.
SocketOfShown == socket.query = shown /\ socket.room = shown

\* Versions are compared: lists, events and readings are of the past, and a
\* reading is not older than the list nor than what was heard.
Current ==
    \A a \in Accounts :
        /\ heard[a] <= version[a]
        /\ list[a] # None => list[a] <= version[a]
        /\ fetch[a].phase = "read" =>
               /\ fetch[a].version <= version[a]
               /\ fetch[a].version >= heard[a] \/ missed[a]
               /\ list[a] # None => fetch[a].version >= list[a]

Inductive == TypeOK /\ SocketOfShown /\ Current /\ HeardIsShown

-----------------------------------------------------------------------------

\* At the start nothing was loaded or heard.
LEMMA InitInductive == Init => Inductive
  <1> SUFFICES ASSUME Init PROVE Inductive
    OBVIOUS
  <1>1. TypeOK
    <2>1. Closed(First) \in Socket /\ faults \in 0..MaxFaults
      BY BoundsAssumption DEF Init, Closed, Socket
    <2>2. fetch \in [Accounts -> Fetch]
      BY DEF Init, Fetch
    <2>3. /\ early \in [Accounts -> BOOLEAN] /\ stale \in [Accounts -> BOOLEAN]
          /\ open \in BOOLEAN /\ listening \in BOOLEAN
          /\ missed \in [Accounts -> BOOLEAN]
      BY DEF Init
    <2>4. /\ version \in [Accounts -> Nat] /\ owed \in [Accounts -> Nat]
          /\ heard \in [Accounts -> Nat] /\ list \in [Accounts -> Nat \union {None}]
          /\ \A a \in Accounts : owed[a] <= version[a]
      BY DEF Init
    <2>5. shown \in Accounts /\ socket \in Socket
      BY <2>1, BoundsAssumption DEF Init
    <2> QED
      BY <2>1, <2>2, <2>3, <2>4, <2>5 DEF TypeOK
  <1>2. SocketOfShown
    BY DEF Init, SocketOfShown, Closed
  <1>3. Current /\ HeardIsShown
    BY DEF Init, Current, HeardIsShown
  <1> QED
    BY <1>1, <1>2, <1>3 DEF Inductive

\* What sending does to the socket: it stays where it is.
LEMMA SendType ==
  ASSUME TypeOK, SocketOfShown, NEW a \in Accounts, Send(a), UNCHANGED shown
  PROVE  socket' \in Socket /\ SocketOfShown'
  BY DEF TypeOK, SocketOfShown, Send, Socket

\* Asking is a request that has read nothing yet.
LEMMA AskType ==
  ASSUME TypeOK, NEW a \in Accounts
  PROVE  /\ Ask(a) \in [Accounts -> Fetch]
         /\ Ask(a)[a].phase = "asked"
         /\ \A b \in Accounts \ {a} : Ask(a)[b] = fetch[b]
  BY DEF TypeOK, Ask, Fetch

\* A step of the server: versions grow, and nothing is taken back.
LEMMA ServerKeepsInductive ==
  ASSUME Inductive, version' \in [Accounts -> Nat],
         owed' \in [Accounts -> Nat],
         \A a \in Accounts : version'[a] >= version[a] /\ owed'[a] <= version'[a],
         early' \in [Accounts -> BOOLEAN],
         socket' \in Socket /\ SocketOfShown',
         faults' \in 0..MaxFaults,
         UNCHANGED <<page, cache>>
  PROVE  Inductive'
  <1>1. TypeOK'
    BY DEF Inductive, TypeOK, page, cache
  <1>2. Current'
    <2> SUFFICES ASSUME NEW a \in Accounts
                 PROVE
        /\ heard'[a] <= version'[a]
        /\ list'[a] # None => list'[a] <= version'[a]
        /\ fetch'[a].phase = "read" =>
               /\ fetch'[a].version <= version'[a]
               /\ fetch'[a].version >= heard'[a] \/ missed'[a]
               /\ list'[a] # None => fetch'[a].version >= list'[a]
      BY DEF Current
    <2>1. /\ version[a] \in Nat /\ version'[a] \in Nat /\ heard[a] \in Nat
          /\ list[a] # None => list[a] \in Nat
          /\ fetch[a].version \in Nat
      BY DEF Inductive, TypeOK, Fetch
    <2> QED
      BY <2>1 DEF Inductive, Current, cache
  <1>3. HeardIsShown'
    BY DEF Inductive, HeardIsShown, Fetching, cache
  <1> QED
    BY <1>1, <1>2, <1>3 DEF Inductive

\* A step of the socket or of the page that asks at most.
LEMMA PageKeepsInductive ==
  ASSUME Inductive, shown' \in Accounts, open' \in BOOLEAN, listening' \in BOOLEAN,
         socket' \in Socket /\ SocketOfShown',
         faults' \in 0..MaxFaults,
         NEW a \in Accounts, fetch' = fetch \/ fetch' = Ask(a),
         UNCHANGED <<server, list, stale, heard, missed>>
  PROVE  Inductive'
  <1>1. \A b \in Accounts : fetch'[b] = fetch[b] \/ fetch'[b].phase = "asked"
    BY AskType DEF Inductive
  <1>2. TypeOK'
    BY AskType DEF Inductive, TypeOK, server
  <1>3. Current' /\ HeardIsShown'
    BY <1>1 DEF Inductive, Current, HeardIsShown, Fetching, server
  <1> QED
    BY <1>2, <1>3 DEF Inductive

\* A step of one query.
LEMMA QueryKeepsInductive ==
  ASSUME Inductive, NEW a \in Accounts,
         NEW f \in Fetch, NEW l \in Nat \union {None}, NEW s \in BOOLEAN, NEW h \in Nat,
         NEW m \in BOOLEAN, missed' = [missed EXCEPT ![a] = m],
         fetch' = [fetch EXCEPT ![a] = f], list' = [list EXCEPT ![a] = l],
         stale' = [stale EXCEPT ![a] = s], heard' = [heard EXCEPT ![a] = h],
         h <= version[a], l # None => l <= version[a],
         f.phase = "read" =>
             /\ f.version <= version[a]
             /\ f.version >= h \/ m
             /\ l # None => f.version >= l,
         (l # None /\ f.phase = "idle" /\ ~s) => l >= h \/ m,
         socket' \in Socket /\ SocketOfShown', faults' \in 0..MaxFaults,
         UNCHANGED <<server, page>>
  PROVE  Inductive'
  <1>1. TypeOK'
    BY DEF Inductive, TypeOK, server, page
  <1>2. /\ fetch'[a] = f /\ list'[a] = l /\ stale'[a] = s /\ heard'[a] = h
        /\ missed'[a] = m
        /\ \A b \in Accounts \ {a} : /\ fetch'[b] = fetch[b] /\ list'[b] = list[b]
                                     /\ stale'[b] = stale[b] /\ heard'[b] = heard[b]
                                     /\ missed'[b] = missed[b]
        /\ version' = version
    BY DEF Inductive, TypeOK, server
  <1>3. Current'
    BY <1>2 DEF Inductive, Current
  <1>4. HeardIsShown'
    BY <1>2 DEF Inductive, HeardIsShown, Fetching
  <1> QED
    BY <1>1, <1>3, <1>4 DEF Inductive

\* The step of an event that is heard.
LEMMA InvalidateKeepsInductive ==
  ASSUME Inductive, Invalidate(shown), socket' \in Socket /\ SocketOfShown',
         UNCHANGED <<server, page, list, faults>>
  PROVE  Inductive'
  <1> DEFINE a == shown
             m == missed[a] \/ FirstLoadRead(a)
  <1>0. /\ a \in Accounts /\ version[a] \in Nat /\ fetch[a] \in Fetch
        /\ list[a] \in Nat \union {None} /\ faults \in 0..MaxFaults
        /\ list[a] # None => list[a] <= version[a]
        /\ version[a] <= version[a]
        /\ missed[a] \in BOOLEAN
    BY DEF Inductive, TypeOK, Current
  <1>1. /\ list = [list EXCEPT ![a] = list[a]]
        /\ fetch = [fetch EXCEPT ![a] = fetch[a]]
    BY DEF Inductive, TypeOK
  <1>2. m \in BOOLEAN
    BY <1>0 DEF FirstLoadRead
  <1>3. /\ stale' = [stale EXCEPT ![a] = TRUE]
        /\ heard' = [heard EXCEPT ![a] = version[a]]
        /\ list' = [list EXCEPT ![a] = list[a]]
        /\ missed' = [missed EXCEPT ![a] = m]
    BY <1>1 DEF Invalidate
  <1>4. CASE Fetching(a) /\ list[a] = None
    <2>1. fetch' = [fetch EXCEPT ![a] = fetch[a]]
      BY <1>1, <1>4 DEF Invalidate
    <2>2. fetch[a].phase = "read" => fetch[a].version <= version[a] /\ m
      BY <1>0, <1>4 DEF Inductive, Current, FirstLoadRead
    <2> HIDE DEF m
    <2> QED
      BY <1>0, <1>2, <1>3, <1>4, <2>1, <2>2, QueryKeepsInductive
  <1>5. CASE ~(Fetching(a) /\ list[a] = None)
    <2> DEFINE f == [phase |-> "asked", version |-> 0]
    <2>1. fetch' = [fetch EXCEPT ![a] = f]
      BY <1>5 DEF Invalidate, Ask
    <2>2. f \in Fetch /\ f.phase = "asked"
      BY DEF Fetch
    <2> HIDE DEF f, m
    <2> QED
      BY <1>0, <1>2, <1>3, <2>1, <2>2, QueryKeepsInductive
  <1> QED
    BY <1>4, <1>5

\* Every step of the server keeps the invariant.
LEMMA ServerStep ==
  ASSUME Inductive, NEW a \in Accounts,
         \/ Commit(a) \/ Emit(a)
         \/ EmitExecuted(a) \/ CommitExecuted(a) \/ RollBackExecuted(a)
  PROVE  Inductive'
  <1>1. /\ version \in [Accounts -> Nat] /\ early \in [Accounts -> BOOLEAN]
        /\ owed \in [Accounts -> Nat]
        /\ \A b \in Accounts : owed[b] <= version[b] /\ version[b] >= version[b]
        /\ faults \in 0..MaxFaults
        /\ socket \in Socket
    BY DEF Inductive, TypeOK
  <1>2. MaxVersion[a] \in Nat /\ MaxFaults \in Nat
    BY BoundsAssumption
  <1>3. UNCHANGED <<socket, shown>> => socket' \in Socket /\ SocketOfShown'
    BY <1>1 DEF Inductive, SocketOfShown
  <1>4. Send(a) /\ UNCHANGED shown => socket' \in Socket /\ SocketOfShown'
    BY SendType DEF Inductive
  <1>5. CASE Commit(a)
    <2>1. /\ version' \in [Accounts -> Nat]
          /\ \A b \in Accounts : version'[b] >= version[b]
      BY <1>1, <1>5 DEF Commit
    <2>2. owed' \in [Accounts -> Nat] /\ \A b \in Accounts : owed'[b] <= version'[b]
      <3>0. owed' \in [Accounts -> Nat]
        BY <1>1, <1>5 DEF Commit
      <3> SUFFICES ASSUME NEW b \in Accounts PROVE owed'[b] <= version'[b]
        BY <3>0
      <3>1. owed' = [owed EXCEPT ![a] = @ + 1] /\ version' = [version EXCEPT ![a] = @ + 1]
        BY <1>5 DEF Commit
      <3>2. /\ version'[b] = IF b = a THEN version[b] + 1 ELSE version[b]
            /\ owed'[b] = IF b = a THEN owed[b] + 1 ELSE owed[b]
        BY <1>1, <3>1
      <3>3. version[b] \in Nat /\ owed[b] \in Nat /\ owed[b] <= version[b]
        BY <1>1
      <3> QED
        BY <3>2, <3>3
    <2> QED
      BY <1>1, <1>3, <1>5, <2>1, <2>2, ServerKeepsInductive DEF Commit, page
  <1>6. CASE Emit(a)
    <2>1. UNCHANGED <<version, early, page, cache, faults>> /\ Send(a)
      BY <1>6 DEF Emit
    <2>2. owed' \in [Accounts -> Nat] /\ \A b \in Accounts : owed'[b] <= version'[b]
      BY <1>1, <1>6 DEF Emit
    <2> QED
      BY <1>1, <1>4, <2>1, <2>2, ServerKeepsInductive DEF page
  <1>7. CASE EmitExecuted(a)
    BY <1>1, <1>4, <1>7, ServerKeepsInductive DEF EmitExecuted, page
  <1>8. CASE CommitExecuted(a)
    <2>1. /\ version' \in [Accounts -> Nat]
          /\ \A b \in Accounts : version'[b] >= version[b]
      BY <1>1, <1>8 DEF CommitExecuted
    <2>2. owed' \in [Accounts -> Nat] /\ \A b \in Accounts : owed'[b] <= version'[b]
      BY <1>1, <2>1, <1>8 DEF CommitExecuted
    <2> QED
      BY <1>1, <1>3, <1>8, <2>1, <2>2, ServerKeepsInductive DEF CommitExecuted, page
  <1>9. CASE RollBackExecuted(a)
    <2>1. faults' \in 0..MaxFaults
      BY <1>1, <1>2, <1>9 DEF RollBackExecuted
    <2> QED
      BY <1>1, <1>3, <1>9, <2>1, ServerKeepsInductive DEF RollBackExecuted, page
  <1> QED
    BY <1>5, <1>6, <1>7, <1>8, <1>9

\* Every step of the page and of the socket.
LEMMA PageStep ==
  ASSUME Inductive,
         \/ \E a \in Accounts : SwitchAccount(a)
         \/ OpenPage \/ ClosePage \/ Resubscribe
         \/ Connect \/ LoseConnection
         \/ Deliver
  PROVE  Inductive'
  <1>1. /\ shown \in Accounts /\ open \in BOOLEAN /\ listening \in BOOLEAN
        /\ socket \in Socket /\ faults \in 0..MaxFaults /\ MaxFaults \in Nat
        /\ socket.query = shown /\ socket.room = shown
    BY BoundsAssumption DEF Inductive, TypeOK, SocketOfShown
  <1>2. ASSUME NEW a \in Accounts, SwitchAccount(a) PROVE Inductive'
    <2>1. socket' \in Socket /\ SocketOfShown'
      BY <1>2 DEF SwitchAccount, Closed, Socket, SocketOfShown
    <2> QED
      BY <1>1, <1>2, <2>1, PageKeepsInductive DEF SwitchAccount, Mount
  <1>3. CASE OpenPage
    BY <1>1, <1>3, PageKeepsInductive DEF OpenPage, Mount, SocketOfShown
  <1>4. CASE ClosePage
    BY <1>1, <1>4, PageKeepsInductive DEF ClosePage, SocketOfShown, cache
  <1>5. CASE Resubscribe
    BY <1>1, <1>5, PageKeepsInductive DEF Resubscribe, SocketOfShown, cache
  <1>6. CASE Connect
    <2>1. socket' \in Socket /\ SocketOfShown'
      BY <1>1, <1>6 DEF Connect, Socket, SocketOfShown, page
    <2> QED
      BY <1>1, <1>6, <2>1, PageKeepsInductive DEF Connect, page, cache
  <1>7. CASE LoseConnection
    <2>1. socket' \in Socket /\ SocketOfShown'
      BY <1>1, <1>7 DEF LoseConnection, Socket, SocketOfShown, page
    <2>2. faults' \in 0..MaxFaults
      BY <1>1, <1>7 DEF LoseConnection
    <2> QED
      BY <1>1, <1>7, <2>1, <2>2, PageKeepsInductive DEF LoseConnection, page, cache
  <1>8. CASE Deliver
    <2>1. socket' \in Socket /\ SocketOfShown'
      BY <1>1, <1>8 DEF Deliver, Socket, SocketOfShown, page
    <2>2. CASE listening
      BY <1>8, <2>1, <2>2, InvalidateKeepsInductive DEF Deliver
    <2>3. CASE ~listening
      BY <1>1, <1>8, <2>1, <2>3, PageKeepsInductive DEF Deliver, page
    <2> QED
      BY <2>2, <2>3
  <1> QED
    BY <1>2, <1>3, <1>4, <1>5, <1>6, <1>7, <1>8

\* Every step of a query.
LEMMA QueryStep ==
  ASSUME Inductive, NEW a \in Accounts, Read(a) \/ Answer(a) \/ FetchFails(a) \/ Age(a)
  PROVE  Inductive'
  <1> DEFINE rest == [phase |-> "idle", version |-> 0]
  <1>0. /\ version[a] \in Nat /\ heard[a] \in Nat /\ fetch[a] \in Fetch
        /\ fetch[a].version \in Nat
        /\ list[a] \in Nat \union {None} /\ stale[a] \in BOOLEAN
        /\ missed[a] \in BOOLEAN
        /\ faults \in 0..MaxFaults /\ MaxFaults \in Nat
        /\ list[a] # None => list[a] <= version[a]
        /\ heard[a] <= version[a]
        /\ socket \in Socket /\ SocketOfShown
    BY BoundsAssumption DEF Inductive, TypeOK, Current, Fetch
  <1>1. /\ list = [list EXCEPT ![a] = list[a]]
        /\ fetch = [fetch EXCEPT ![a] = fetch[a]]
        /\ heard = [heard EXCEPT ![a] = heard[a]]
        /\ stale = [stale EXCEPT ![a] = stale[a]]
        /\ missed = [missed EXCEPT ![a] = missed[a]]
    BY DEF Inductive, TypeOK
  <1>2. fetch[a].phase = "read" =>
           /\ fetch[a].version <= version[a]
           /\ fetch[a].version >= heard[a] \/ missed[a]
           /\ list[a] # None => fetch[a].version >= list[a]
    BY DEF Inductive, Current
  <1>3. rest \in Fetch /\ rest.phase = "idle"
    BY DEF Fetch
  <1> HIDE DEF rest
  <1>4. UNCHANGED <<socket, page>> => socket' \in Socket /\ SocketOfShown'
    BY <1>0 DEF SocketOfShown, page
  <1>5. CASE Read(a)
    <2> DEFINE f == [phase |-> "read", version |-> version[a]]
    <2>1. f \in Fetch /\ f.phase = "read" /\ f.version = version[a]
      BY <1>0 DEF Fetch
    <2>2. /\ fetch' = [fetch EXCEPT ![a] = f]
          /\ missed' = [missed EXCEPT ![a] = FALSE]
          /\ UNCHANGED <<server, page, socket, list, stale, heard, faults>>
      BY <1>5 DEF Read
    <2> HIDE DEF f
    <2>3. list[a] # None => f.version >= list[a]
      BY <1>0, <2>1
    <2>4. f.version <= version[a] /\ f.version >= heard[a]
      BY <1>0, <2>1
    <2> QED
      BY <1>0, <1>1, <1>4, <2>1, <2>2, <2>3, <2>4, QueryKeepsInductive
  <1>6. CASE Answer(a)
    <2>1. /\ fetch' = [fetch EXCEPT ![a] = rest]
          /\ list' = [list EXCEPT ![a] = fetch[a].version]
          /\ stale' = [stale EXCEPT ![a] = FALSE]
          /\ heard' = [heard EXCEPT ![a] = heard[a]]
          /\ missed' = [missed EXCEPT ![a] = missed[a]]
          /\ UNCHANGED <<server, page, socket, faults>>
          /\ fetch[a].phase = "read"
      BY <1>1, <1>6 DEF Answer, rest
    <2> QED
      BY <1>0, <1>2, <1>3, <1>4, <2>1, QueryKeepsInductive
  <1>7. CASE FetchFails(a)
    <2>1. /\ fetch' = [fetch EXCEPT ![a] = rest]
          /\ list' = [list EXCEPT ![a] = list[a]]
          /\ stale' = [stale EXCEPT ![a] = TRUE]
          /\ heard' = [heard EXCEPT ![a] = heard[a]]
          /\ missed' = [missed EXCEPT ![a] = missed[a]]
          /\ UNCHANGED <<server, page, socket>>
      BY <1>1, <1>7 DEF FetchFails, rest
    <2>2. faults' \in 0..MaxFaults
      BY <1>0, <1>7 DEF FetchFails
    <2> QED
      BY <1>0, <1>3, <1>4, <2>1, <2>2, QueryKeepsInductive
  <1>8. CASE Age(a)
    <2>1. /\ fetch' = [fetch EXCEPT ![a] = fetch[a]]
          /\ list' = [list EXCEPT ![a] = list[a]]
          /\ stale' = [stale EXCEPT ![a] = TRUE]
          /\ heard' = [heard EXCEPT ![a] = heard[a]]
          /\ missed' = [missed EXCEPT ![a] = missed[a]]
          /\ UNCHANGED <<server, page, socket, faults>>
      BY <1>1, <1>8 DEF Age
    <2> QED
      BY <1>0, <1>2, <1>4, <2>1, QueryKeepsInductive
  <1> QED
    BY <1>5, <1>6, <1>7, <1>8

\* The invariant holds in every behaviour.
LEMMA InductiveHolds == Spec => []Inductive
  <1>1. Inductive /\ [Next]_vars => Inductive'
    <2>1. ASSUME Inductive, UNCHANGED vars PROVE Inductive'
      BY <2>1 DEF vars, server, page, cache, Inductive, TypeOK, SocketOfShown, Current,
                  HeardIsShown, Fetching
    <2> QED
      BY <2>1, ServerStep, PageStep, QueryStep DEF Next
  <1> QED
    BY InitInductive, <1>1, PTL DEF Spec

-----------------------------------------------------------------------------

\* TypeOK is an invariant: no more events are owed than there were commits, and
\* the page and the cache keep their shapes.
THEOREM TypeCorrect == Spec => []TypeOK
  <1>1. Inductive => TypeOK
    BY DEF Inductive
  <1> QED
    BY InductiveHolds, <1>1, PTL

\* RoomOfShownAccount: switches and reconnections in any order leave the client
\* in the room of the account it shows.
THEOREM RoomFollowsAccount == Spec => []RoomOfShownAccount
  <1>1. Inductive => RoomOfShownAccount
    BY DEF Inductive, SocketOfShown, RoomOfShownAccount
  <1> QED
    BY InductiveHolds, <1>1, PTL

\* HeardIsShown: an event that was heard is in the list when the query rests,
\* unless it came too late for the first load and nothing was read since.
THEOREM HeardEventsAreShown == Spec => []HeardIsShown
  <1>1. Inductive => HeardIsShown
    BY DEF Inductive
  <1> QED
    BY InductiveHolds, <1>1, PTL

\* ListNeverGoesBack: no answer replaces a list by an older one.
THEOREM ListIsMonotone == Spec => ListNeverGoesBack
  <1>1. ASSUME Inductive, [Next]_vars, NEW a \in Accounts, list[a] # None
        PROVE  list'[a] >= list[a]
    <2>1. list[a] \in Nat
      BY <1>1 DEF Inductive, TypeOK
    <2>2. ASSUME NEW b \in Accounts, Answer(b) PROVE list'[a] >= list[a]
      BY <1>1, <2>1, <2>2 DEF Answer, Inductive, TypeOK, Current
    <2>3. ASSUME UNCHANGED list PROVE list'[a] >= list[a]
      BY <2>1, <2>3
    <2>4. UNCHANGED list \/ \E b \in Accounts : Answer(b)
      BY <1>1 DEF Next, Commit, Emit, EmitExecuted, CommitExecuted, RollBackExecuted,
                  SwitchAccount, OpenPage, ClosePage, Resubscribe, Connect, LoseConnection,
                  Deliver, Read, FetchFails, Age, cache, vars
    <2> QED
      BY <2>2, <2>3, <2>4
  <1>2. Inductive /\ [Next]_vars =>
          [\A a \in Accounts : list[a] # None => list'[a] >= list[a]]_vars
    BY <1>1
  <1> QED
    BY InductiveHolds, <1>2, PTL DEF Spec, ListNeverGoesBack
=============================================================================
