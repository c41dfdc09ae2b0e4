------------------------------- MODULE Rooms -------------------------------
(***************************************************************************)
(* The room of one board (server/rooms.ts): its handle, the sessions that  *)
(* are connected to it, the timers that end them and the room, and the     *)
(* projection of the account database's audit rows into the history of the *)
(* board.                                                                  *)
(*                                                                         *)
(* A handler runs to completion, so busy, the request that is being        *)
(* served, keeps every other one out.  It still makes several              *)
(* transactions: a crash or a failing write may come between them.  Time   *)
(* is what is left of it, for sessions and timers alike.                   *)
(***************************************************************************)
EXTENDS Integers, FiniteSets

CONSTANTS
  SessionIds,     \* the ids that browser tabs choose, and keep when they reconnect
  Users,
  Nobody,         \* no session, no user
  Never,          \* a timer that is not set
  Batch,          \* the LIMIT of listBoardEventsSince
  MaxDelay,       \* the longest time setTimeout can wait: 2^31 - 1 ms
  IdleDelay,      \* how long a room without sessions is kept: 5 minutes
  Ttls,           \* the times a sign-in may have left when its tab connects
  MaxTtl,         \* bound: the longest of them
  MaxRows,        \* bound: account events
  WriteFailures   \* whether a transaction of the room's file may fail

ASSUME RoomsAssumption ==
  /\ Nobody \notin SessionIds
  /\ Nobody \notin [user : Users, left : 0 .. MaxTtl]
  /\ Never \notin 0 .. IdleDelay
  /\ Never \notin [left : 0 .. MaxDelay, current : BOOLEAN]
  /\ Batch \in Nat \ {0}
  /\ MaxDelay \in Nat \ {0}
  /\ IdleDelay \in Nat \ {0}
  /\ MaxTtl \in Nat
  /\ Ttls \subseteq 1 .. MaxTtl
  /\ MaxRows \in Nat
  /\ WriteFailures \in BOOLEAN

VARIABLES
  open,       \* whether rooms has a handle of the board
  sessions,   \* handle.sessions: the user and the time left of each id
  live,       \* TLSocketRoom's sessions, with their meta
  expiry,     \* handle.expiryTimers: time left, and whether checkExpiry still finds its meta
  idle,       \* idleTimers: time left
  busy,       \* the request that has called getRoomHandle and not returned
  member,     \* who has a role on the board, as getBoardRole answers
  rows,       \* how many of the account_events are this board's
  cursor,     \* history_account_audit_cursor: how many of them it is past
  shown,      \* how many events of the history project each of them
  failed      \* whether a failed write has left the open handle wrong; no code reads it

room == <<open, sessions, live, expiry, idle, failed>>
trail == <<cursor, shown>>
vars == <<room, busy, member, rows, trail>>

Meta == [user : Users, left : 0 .. MaxTtl]

NoRequest == [kind |-> "none", id |-> Nobody, meta |-> Nobody, fresh |-> FALSE, phase |-> "done"]

TypeOK ==
  /\ open \in BOOLEAN
  /\ sessions \in [SessionIds -> Meta \cup {Nobody}]
  /\ live \in [SessionIds -> Meta \cup {Nobody}]
  /\ expiry \in [SessionIds -> [left : 0 .. MaxDelay, current : BOOLEAN] \cup {Never}]
  /\ idle \in (0 .. IdleDelay) \cup {Never}
  /\ busy \in [kind : {"none", "read", "connect"}, id : SessionIds \cup {Nobody},
               meta : Meta \cup {Nobody}, fresh : BOOLEAN, phase : {"project", "serve", "done"}]
  /\ member \subseteq Users
  /\ rows \in 0 .. MaxRows
  /\ cursor \in 0 .. rows
  /\ shown \in [1 .. MaxRows -> Nat]
  /\ failed \in BOOLEAN

Closed ==
  /\ open' = FALSE
  /\ sessions' = [k \in SessionIds |-> Nobody]
  /\ live' = [k \in SessionIds |-> Nobody]
  /\ expiry' = [k \in SessionIds |-> Never]
  /\ idle' = Never
  /\ failed' = FALSE

Init ==
  /\ open = FALSE
  /\ sessions = [k \in SessionIds |-> Nobody]
  /\ live = [k \in SessionIds |-> Nobody]
  /\ expiry = [k \in SessionIds |-> Never]
  /\ idle = Never
  /\ busy = NoRequest
  /\ member \in SUBSET Users
  /\ rows = 0
  /\ cursor = 0
  /\ shown = [i \in 1 .. MaxRows |-> 0]
  /\ failed = FALSE

Free == busy = NoRequest
Live == {k \in SessionIds : live[k] # Nobody}

Sooner(m, n) == IF m < n THEN m ELSE n

-----------------------------------------------------------------------------
(* Sessions that end.                                                      *)

Without(f, gone, none) == [k \in SessionIds |-> IF k \in gone THEN none ELSE f[k]]

Removed(gone) ==
  /\ sessions' = Without(sessions, gone, Nobody)
  /\ live' = Without(live, gone, Nobody)
  /\ expiry' = Without(expiry, gone, Never)
  /\ UNCHANGED open

\* Nothing is done about the room.
LeaveRoom(gone) == Removed(gone) /\ UNCHANGED <<idle, failed>>

\* The idle timer is set and the room stays open.
KeepRoom(gone) == Removed(gone) /\ idle' = IdleDelay /\ UNCHANGED failed

\* onSessionRemoved, for one session or several in a row: the last one closes
\* the handle.
Depart(gone) == IF Live \subseteq gone THEN Closed ELSE KeepRoom(gone)

\* onSessionRemoved when recording user.left fails for the last of them: what
\* was closing them goes no further.
DepartFails(gone, timer) ==
  /\ WriteFailures
  /\ Removed(gone)
  /\ idle' = IF Cardinality(gone) > 1 THEN IdleDelay ELSE timer
  /\ failed' = TRUE

\* The tab is closed, the connection is lost for good, or a message comes
\* after the sign-in has expired.  When recording it fails, nobody catches
\* the error and the process ends: Crash.
Leave(k) ==
  /\ Free
  /\ k \in Live
  /\ Depart({k})
  /\ UNCHANGED <<busy, member, rows, trail>>

\* closeSession for the sessions that handle.sessions lists.
CloseSessions(listed) ==
  LET gone == listed \cap Live
  IN  \/ gone = {} /\ UNCHANGED room
      \/ gone # {} /\ Depart(gone)
      \/ \E some \in SUBSET gone \ {{}} : DepartFails(some, idle)

\* The session of the user that was listed first.
FirstSessionOf(u) ==
  LET mine == {k \in SessionIds : sessions[k] # Nobody /\ sessions[k].user = u}
  IN  IF mine = {} THEN {} ELSE {CHOOSE k \in mine : TRUE}

SessionsOf(u) == {k \in SessionIds : sessions[k] # Nobody /\ sessions[k].user = u}

\* AuthService.event, in auth.sqlite, of an event of the board.
Record == rows < MaxRows /\ rows' = rows + 1

\* PUT .../members/:userId or an invitation; the sessions of the user are
\* closed (closeUserRoomSessions), to come back with the new role.  The owner
\* stays.
ChangeMember(u, stays) ==
  /\ Free
  /\ member # {}
  /\ member' = IF stays THEN member \cup {u} ELSE member \ {u}
  /\ member' # {}
  /\ Record
  /\ CloseSessions(SessionsOf(u))
  /\ UNCHANGED <<busy, trail>>

\* DELETE /api/boards/:boardId: nobody may connect any more (closeBoardSessions).
DeleteBoard ==
  /\ Free
  /\ member # {}
  /\ member' = {}
  /\ Record
  /\ CloseSessions({k \in SessionIds : sessions[k] # Nobody})
  /\ UNCHANGED <<busy, trail>>

\* POST /api/boards/:boardId/restore
RestoreBoard(members) ==
  /\ Free
  /\ member = {}
  /\ member' = members
  /\ Record
  /\ UNCHANGED <<room, busy, trail>>

\* POST /api/auth/logout (closeUserSessions).
Logout(u) ==
  /\ Free
  /\ CloseSessions(SessionsOf(u))
  /\ UNCHANGED <<busy, member, rows, trail>>

\* An event that concerns the board but nobody's role: an invitation is made
\* or revoked.
OtherBoardEvent ==
  /\ Free
  /\ Record
  /\ UNCHANGED <<room, busy, member, trail>>

-----------------------------------------------------------------------------
(* Opening the room.                                                       *)

\* getRoomHandle, for any request; a new handle is registered at once.
GetRoomHandle(kind, k, meta) ==
  /\ Free
  /\ open' = TRUE
  /\ busy' = [kind |-> kind, id |-> k, meta |-> meta, fresh |-> ~open, phase |-> "project"]
  /\ UNCHANGED <<sessions, live, expiry, idle, failed, member, rows, trail>>

StartRead == GetRoomHandle("read", Nobody, Nobody)

StartConnect(k, u, ttl) ==
  /\ u \in member
  /\ GetRoomHandle("connect", k, [user |-> u, left |-> ttl])

\* listBoardEventsSince with the last event found once more.
RowsFrom(after) == {i \in 1 .. rows : after <= i /\ i <= after + Batch}

\* listBoardEventsSince
RowsAfter(after) == {i \in 1 .. rows : after < i /\ i <= after + Batch}

\* One query is enough.
EndOfRows(found) == TRUE

\* The query found less than it may, so there is no more.
LastRows(found) == Cardinality(found) < Batch

\* A batch of projectAccountAudit, with its cursor; behind the last one, the
\* new handle's idle timer is set.
ProjectAccountAudit ==
  /\ busy.phase = "project"
  /\ shown' = [i \in 1 .. MaxRows |->
       IF i \in RowsAfter(cursor) THEN shown[i] + 1 ELSE shown[i]]
  /\ IF RowsAfter(cursor) = {}
     THEN UNCHANGED cursor
     ELSE cursor' \in RowsAfter(cursor) /\ \A i \in RowsAfter(cursor) : i <= cursor'
  /\ IF LastRows(RowsAfter(cursor))
     THEN /\ busy' = [busy EXCEPT !.phase = "serve"]
          /\ idle' = IF busy.fresh THEN IdleDelay ELSE idle
     ELSE UNCHANGED <<busy, idle>>
  /\ UNCHANGED <<open, sessions, live, expiry, failed, member, rows>>

\* The request fails; a new handle stays registered, with no timer to end it.
ProjectionFails ==
  /\ WriteFailures
  /\ busy.phase = "project"
  /\ busy' = NoRequest
  /\ failed' = (failed \/ busy.fresh)
  /\ UNCHANGED <<open, sessions, live, expiry, idle, member, rows, trail>>

ServeRead ==
  /\ busy.phase = "serve" /\ busy.kind = "read"
  /\ busy' = NoRequest
  /\ UNCHANGED <<room, member, rows, trail>>

\* connectRoomSocket: a session of the same id is replaced, its timer too.
Connect ==
  LET k == busy.id
      meta == busy.meta
  IN  /\ busy.phase = "serve" /\ busy.kind = "connect"
      /\ meta.left > 0
      /\ busy' = NoRequest
      /\ sessions' = [sessions EXCEPT ![k] = meta]
      /\ live' = [live EXCEPT ![k] = meta]
      /\ expiry' = [expiry EXCEPT ![k] = [left |-> Sooner(meta.left, MaxDelay), current |-> TRUE]]
      /\ idle' = Never
      /\ UNCHANGED <<open, failed, member, rows, trail>>

\* checkExpiry finds the new session expired at once.
ConnectTooLate ==
  LET k == busy.id
  IN  /\ busy.phase = "serve" /\ busy.kind = "connect"
      /\ busy.meta.left = 0
      /\ busy' = NoRequest
      /\ Depart({k}) \/ DepartFails({k}, Never)
      /\ UNCHANGED <<member, rows, trail>>

\* user.joined cannot be recorded: the socket is refused, the id keeps the
\* new meta, and the timer of a session that had it will not find its own.
ConnectFails ==
  LET k == busy.id
  IN  /\ WriteFailures
      /\ busy.phase = "serve" /\ busy.kind = "connect"
      /\ busy' = NoRequest
      /\ sessions' = [sessions EXCEPT ![k] = busy.meta]
      /\ expiry' = [expiry EXCEPT ![k] = IF @ = Never THEN Never ELSE [@ EXCEPT !.current = FALSE]]
      /\ idle' = Never
      /\ failed' = TRUE
      /\ UNCHANGED <<open, live, member, rows, trail>>

-----------------------------------------------------------------------------
(* Timers.                                                                 *)

\* The timer is not set again when it finds time left.
ExpiryOnce(k) == Never

\* A wait that is longer than a timer's is made of several.
NextExpiry(k) == [left |-> Sooner(sessions[k].left, MaxDelay), current |-> TRUE]

\* checkExpiry
ExpiryFires(k) ==
  /\ Free
  /\ expiry[k] # Never
  /\ expiry[k].left = 0
  /\ IF expiry[k].current /\ sessions[k].left = 0
     THEN Depart({k})
     ELSE /\ expiry' = [expiry EXCEPT ![k] = IF expiry[k].current THEN NextExpiry(k) ELSE Never]
          /\ UNCHANGED <<open, sessions, live, idle, failed>>
  /\ UNCHANGED <<busy, member, rows, trail>>

\* scheduleIdleClose
IdleFires ==
  /\ Free
  /\ idle = 0
  /\ IF Live = {} THEN Closed ELSE idle' = Never /\ UNCHANGED <<open, sessions, live, expiry, failed>>
  /\ UNCHANGED <<busy, member, rows, trail>>

Less(n) == IF n = 0 THEN 0 ELSE n - 1
LessLeft(meta) == IF meta = Nobody THEN Nobody ELSE [meta EXCEPT !.left = Less(@)]

Tick ==
  /\ sessions' = [k \in SessionIds |-> LessLeft(sessions[k])]
  /\ live' = [k \in SessionIds |-> LessLeft(live[k])]
  /\ expiry' = [k \in SessionIds |->
       IF expiry[k] = Never THEN Never ELSE [expiry[k] EXCEPT !.left = Less(@)]]
  /\ idle' = IF idle = Never THEN Never ELSE Less(idle)
  /\ busy' = [busy EXCEPT !.meta = LessLeft(@)]
  /\ UNCHANGED <<open, failed, member, rows, trail>>

\* The end of the process, an orderly one (closeAllRooms) included.
Crash ==
  /\ Closed
  /\ busy' = NoRequest
  /\ UNCHANGED <<member, rows, trail>>

Handler == ProjectAccountAudit \/ ServeRead \/ Connect \/ ConnectTooLate

Next ==
  \/ StartRead
  \/ \E k \in SessionIds, u \in Users, ttl \in Ttls : StartConnect(k, u, ttl)
  \/ Handler
  \/ ProjectionFails
  \/ ConnectFails
  \/ \E k \in SessionIds : Leave(k) \/ ExpiryFires(k)
  \/ \E u \in Users : Logout(u) \/ \E stays \in BOOLEAN : ChangeMember(u, stays)
  \/ DeleteBoard
  \/ \E members \in SUBSET Users : RestoreBoard(members)
  \/ OtherBoardEvent
  \/ IdleFires
  \/ Tick
  \/ Crash

Spec == Init /\ [][Next]_vars

\* Time passes, a handler finishes, and a timer that is due gets its turn
\* between the handlers.
Fairness ==
  /\ WF_vars(Tick)
  /\ WF_vars(Handler)
  /\ SF_vars(IdleFires)
  /\ \A k \in SessionIds : SF_vars(ExpiryFires(k))

LiveSpec == Spec /\ Fairness

-----------------------------------------------------------------------------
(* Properties.                                                             *)

\* Nobody without a role is connected: the routes that take a role away find
\* every session of the user, those whose tab came back under the same id with
\* somebody else signed in included.  Only a write that fails while they are
\* closed leaves somebody behind, until the room is closed.
OnlyMembersConnected == failed \/ \A k \in Live : live[k].user \in member

\* Whatever crashes and failures come between the batches, every account event
\* of the board up to the cursor is in its timeline once, and no later one is.
AuditTrail ==
  \A i \in 1 .. MaxRows :
    shown[i] = IF i <= cursor THEN 1 ELSE 0

\* A request that has its handle is served from a timeline with every account
\* event of the board so far, however many batches that takes.
AuditShown ==
  busy.phase = "serve" => \A i \in 1 .. rows : shown[i] = 1

\* A session ends when its sign-in does, however many timers that takes,
\* unless its tab comes back with a newer one.
ExpiredAreClosed ==
  \A k \in SessionIds :
    ~failed /\ live[k] # Nobody /\ live[k].left = 0
      ~> failed \/ live[k] = Nobody \/ live[k].left > 0

\* A room that nobody uses is closed.
UnusedRoomsClose == ~failed /\ open /\ Live = {} ~> failed \/ ~open \/ Live # {}
=============================================================================
