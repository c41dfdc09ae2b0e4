---------------------------- MODULE RoomsProofs ----------------------------
(***************************************************************************)
(* The safety of Rooms, for every number of tabs, people and events, with  *)
(* every write that can fail failing.                                      *)
(*                                                                         *)
(* None of the properties is inductive.  Nobody without a role stays       *)
(* connected because the two tables of sessions agree (Agreement: the      *)
(* routes close by handle.sessions, the connections are in TLSocketRoom's) *)
(* and because whoever is about to connect has a role (RequestsMatch).     *)
(* The timeline is complete for a request because its phase is "serve"     *)
(* only when the cursor has reached the last event (Served).               *)
(***************************************************************************)
EXTENDS Rooms, FiniteSetTheorems, TLAPS

\* The two tables list the same sessions with the same meta.
Agreement == failed \/ sessions = live

\* A timer that still finds its meta finds one.
TimersMatch ==
  \A k \in SessionIds : expiry[k] # Never /\ expiry[k].current => sessions[k] # Nobody

\* A request to connect comes from somebody with a role on the board.
RequestsMatch ==
  busy.kind = "connect" =>
    busy.id \in SessionIds /\ busy.meta \in Meta /\ busy.meta.user \in member

Served == busy.phase = "serve" => cursor = rows

Safe == OnlyMembersConnected /\ Agreement /\ TimersMatch /\ RequestsMatch

IInv == TypeOK /\ Safe /\ AuditTrail /\ Served

-----------------------------------------------------------------------------
(* What the ways of losing sessions have in common.                        *)

\* A session keeps everything or loses everything.
Shrinks ==
  /\ \A k \in SessionIds :
       \/ sessions'[k] = sessions[k] /\ live'[k] = live[k] /\ expiry'[k] = expiry[k]
       \/ sessions'[k] = Nobody /\ live'[k] = Nobody /\ expiry'[k] = Never
  /\ sessions' = [k \in SessionIds |-> sessions'[k]]
  /\ live' = [k \in SessionIds |-> live'[k]]
  /\ expiry' = [k \in SessionIds |-> expiry'[k]]

\* Only the closing of the handle makes it right again.
Heals ==
  failed => \/ failed'
            \/ sessions' = live' /\ \A k \in SessionIds : live'[k] = Nobody

Kept == idle' \in (0 .. IdleDelay) \cup {Never} /\ open' \in BOOLEAN /\ failed' \in BOOLEAN

\* Without the marked sessions the others are as they were.
LEMMA RemovedShrinks ==
  ASSUME TypeOK, NEW gone, Removed(gone)
  PROVE  /\ Shrinks
         /\ \A k \in SessionIds : k \in gone => live'[k] = Nobody
         /\ sessions = live => sessions' = live'
         /\ open' = open
  BY DEF Removed, Without, Shrinks, TypeOK

\* Closing leaves no session.
LEMMA ClosedShrinks ==
  Closed => /\ Shrinks /\ Heals /\ Kept
            /\ sessions' = live'
            /\ \A k \in SessionIds : live'[k] = Nobody
            /\ ~failed'
  BY RoomsAssumption DEF Closed, Shrinks, Heals, Kept

\* Sessions that depart are gone, and the tables agree if they did.
LEMMA DepartShrinks ==
  ASSUME TypeOK, NEW gone, Depart(gone)
  PROVE  /\ Shrinks /\ Heals /\ Kept
         /\ \A k \in SessionIds : k \in gone => live'[k] = Nobody
         /\ failed \/ sessions = live => failed' \/ sessions' = live'
<1>1. CASE Closed
  BY <1>1, ClosedShrinks
<1>2. CASE KeepRoom(gone)
  <2>1. Removed(gone) /\ idle' = IdleDelay /\ failed' = failed
    BY <1>2 DEF KeepRoom
  <2>2. Kept
    BY <2>1, RemovedShrinks, RoomsAssumption DEF Kept, TypeOK
  <2>. QED
    BY <2>1, <2>2, RemovedShrinks DEF Heals
<1>. QED
  BY <1>1, <1>2 DEF Depart

\* Sessions that depart while a write fails leave the handle marked.
LEMMA DepartFailsShrinks ==
  ASSUME TypeOK, NEW gone, NEW timer \in (0 .. IdleDelay) \cup {Never}, DepartFails(gone, timer)
  PROVE  Shrinks /\ Heals /\ Kept /\ failed'
<1>1. Removed(gone) /\ failed' = TRUE /\ idle' \in {IdleDelay, timer}
  BY DEF DepartFails
<1>2. IdleDelay \in 0 .. IdleDelay
  BY RoomsAssumption
<1>. QED
  BY <1>1, <1>2, RemovedShrinks DEF Heals, Kept, TypeOK

\* A route that closes the listed sessions closes all of them that are
\* connected, or leaves the handle marked.
LEMMA CloseSessionsShrinks ==
  ASSUME TypeOK, NEW listed, CloseSessions(listed)
  PROVE  /\ Shrinks /\ Heals /\ Kept
         /\ failed' \/ \A k \in SessionIds : k \in listed => live'[k] = Nobody
         /\ failed \/ sessions = live => failed' \/ sessions' = live'
<1>. DEFINE gone == listed \cap Live
<1>1. CASE gone = {} /\ UNCHANGED room
  BY <1>1 DEF room, Shrinks, Heals, Kept, Live, TypeOK
<1>2. CASE Depart(gone)
  <2>1. \A k \in SessionIds : k \in listed => k \in gone \/ live[k] = Nobody
    BY DEF Live
  <2>2. /\ Shrinks /\ Heals /\ Kept
        /\ \A k \in SessionIds : k \in gone => live'[k] = Nobody
        /\ failed \/ sessions = live => failed' \/ sessions' = live'
    BY <1>2, DepartShrinks
  <2>. QED
    BY <2>1, <2>2 DEF Shrinks
<1>3. ASSUME NEW some, DepartFails(some, idle)
      PROVE  Shrinks /\ Heals /\ Kept /\ failed'
  BY <1>3, DepartFailsShrinks DEF TypeOK
<1>. QED
  BY <1>1, <1>2, <1>3 DEF CloseSessions

\* What shrinks keeps its types and its timers.
LEMMA ShrinksTyped ==
  ASSUME TypeOK, TimersMatch, Shrinks
  PROVE  /\ sessions' \in [SessionIds -> Meta \cup {Nobody}]
         /\ live' \in [SessionIds -> Meta \cup {Nobody}]
         /\ expiry' \in [SessionIds -> [left : 0 .. MaxDelay, current : BOOLEAN] \cup {Never}]
         /\ TimersMatch'
<1>1. \A k \in SessionIds : /\ sessions'[k] \in Meta \cup {Nobody}
                            /\ live'[k] \in Meta \cup {Nobody}
                            /\ expiry'[k] \in [left : 0 .. MaxDelay, current : BOOLEAN] \cup {Never}
  BY DEF Shrinks, TypeOK
<1>2. TimersMatch'
  BY DEF Shrinks, TimersMatch
<1>. QED
  BY <1>1, <1>2 DEF Shrinks

\* As long as nobody loses a role, whoever stays connected has one.
LEMMA ShrinksSafe ==
  ASSUME OnlyMembersConnected, Shrinks, Heals, member \subseteq member'
  PROVE  OnlyMembersConnected'
  BY DEF OnlyMembersConnected, Shrinks, Heals, Live

-----------------------------------------------------------------------------
(* The steps that only take sessions away.                                 *)

Requests ==
  [kind : {"none", "read", "connect"}, id : SessionIds \cup {Nobody},
   meta : Meta \cup {Nobody}, fresh : BOOLEAN, phase : {"project", "serve", "done"}]

\* No request is typed and is not served.
LEMMA NoRequestTyped ==
  NoRequest \in Requests /\ NoRequest.kind # "connect" /\ NoRequest.phase = "done"
  BY DEF NoRequest, Requests

\* Between the requests anything may happen to roles and events; during one
\* they stay.  The timeline stays either way.
Calm ==
  /\ UNCHANGED trail
  /\ member' \subseteq Users
  /\ rows' \in 0 .. MaxRows /\ rows <= rows'
  /\ busy' = NoRequest \/ UNCHANGED <<busy, member, rows>>

\* Recording an event between two requests is calm.
LEMMA RecordIsCalm ==
  ASSUME TypeOK, Record, Free, UNCHANGED <<busy, trail>>, member' \subseteq Users
  PROVE  Calm
<1>1. rows' \in 0 .. MaxRows /\ rows <= rows'
  BY RoomsAssumption DEF TypeOK, Record
<1>. QED
  BY <1>1 DEF Free, Calm

\* A step that takes sessions away and is calm keeps the invariant, if it
\* takes enough of them.
LEMMA CalmStep ==
  ASSUME IInv, Shrinks, Heals, Kept, Calm, OnlyMembersConnected',
         failed \/ sessions = live => failed' \/ sessions' = live'
  PROVE  IInv'
<1>1. busy' \in Requests
  BY NoRequestTyped DEF Calm, IInv, TypeOK, Requests
<1>2. cursor' = cursor /\ shown' = shown /\ cursor' \in 0 .. rows'
  BY DEF Calm, trail, IInv, TypeOK
<1>3. TypeOK'
  BY <1>1, <1>2, ShrinksTyped DEF IInv, TypeOK, Safe, Kept, Calm, Requests
<1>4. TimersMatch'
  BY ShrinksTyped DEF IInv, Safe
<1>5. RequestsMatch'
  BY NoRequestTyped DEF IInv, Safe, RequestsMatch, Calm
<1>6. Agreement'
  BY DEF IInv, Safe, Agreement
<1>7. AuditTrail'
  BY <1>2 DEF IInv, AuditTrail
<1>8. Served'
  BY <1>2, NoRequestTyped DEF IInv, Served, Calm
<1>. QED
  BY <1>3, <1>4, <1>5, <1>6, <1>7, <1>8 DEF IInv, Safe

\* The same, when nobody loses a role.
LEMMA CalmStepSameRoles ==
  ASSUME IInv, Shrinks, Heals, Kept, Calm, member \subseteq member',
         failed \/ sessions = live => failed' \/ sessions' = live'
  PROVE  IInv'
  BY CalmStep, ShrinksSafe DEF IInv, Safe

\* A room that nothing happens to has lost no session.
LEMMA SameRoom ==
  ASSUME TypeOK, UNCHANGED <<sessions, live, expiry>>, failed => failed'
  PROVE  /\ Shrinks /\ Heals
         /\ failed \/ sessions = live => failed' \/ sessions' = live'
  BY DEF Shrinks, Heals, TypeOK

\* Leave: one session departs.
LEMMA LeaveStep == ASSUME IInv, NEW k \in SessionIds, Leave(k) PROVE IInv'
<1>1. Calm
  BY DEF Leave, Free, Calm, IInv, TypeOK
<1>2. Depart({k}) /\ member' = member
  BY DEF Leave
<1>. QED
  BY <1>1, <1>2, DepartShrinks, CalmStepSameRoles DEF IInv

\* Logout: the sessions of one person depart.
LEMMA LogoutStep == ASSUME IInv, NEW u \in Users, Logout(u) PROVE IInv'
<1>1. Calm
  BY DEF Logout, Free, Calm, IInv, TypeOK
<1>2. CloseSessions(SessionsOf(u)) /\ member' = member
  BY DEF Logout
<1>. QED
  BY <1>1, <1>2, CloseSessionsShrinks, CalmStepSameRoles DEF IInv

\* ChangeMember: the tables agree, so every session of the person is listed.
LEMMA ChangeMemberStep ==
  ASSUME IInv, NEW u \in Users, NEW stays \in BOOLEAN, ChangeMember(u, stays)
  PROVE  IInv'
<1>1. Calm
  BY RecordIsCalm DEF ChangeMember, IInv, TypeOK
<1>2. CloseSessions(SessionsOf(u)) /\ member \ {u} \subseteq member'
  BY DEF ChangeMember
<1>3. /\ Shrinks /\ Heals /\ Kept
      /\ failed' \/ \A k \in SessionIds : k \in SessionsOf(u) => live'[k] = Nobody
      /\ failed \/ sessions = live => failed' \/ sessions' = live'
  BY <1>2, CloseSessionsShrinks DEF IInv
<1>4. OnlyMembersConnected'
  <2>. SUFFICES ASSUME ~failed', NEW k \in SessionIds, live'[k] # Nobody
                PROVE  live'[k].user \in member'
    BY DEF OnlyMembersConnected, Live
  <2>1. live'[k] = live[k] /\ ~failed /\ sessions = live
    BY <1>3 DEF Shrinks, Heals, IInv, Safe, Agreement
  <2>2. live[k].user \in member
    BY <2>1 DEF IInv, Safe, OnlyMembersConnected, Live
  <2>3. live[k].user # u
    BY <1>3, <2>1 DEF SessionsOf
  <2>. QED
    BY <1>2, <2>1, <2>2, <2>3
<1>. QED
  BY <1>1, <1>3, <1>4, CalmStep

\* DeleteBoard: every session is listed.
LEMMA DeleteBoardStep == ASSUME IInv, DeleteBoard PROVE IInv'
<1>. DEFINE all == {k \in SessionIds : sessions[k] # Nobody}
<1>1. Calm
  BY RecordIsCalm DEF DeleteBoard, IInv
<1>2. CloseSessions(all)
  BY DEF DeleteBoard
<1>3. /\ Shrinks /\ Heals /\ Kept
      /\ failed' \/ \A k \in SessionIds : k \in all => live'[k] = Nobody
      /\ failed \/ sessions = live => failed' \/ sessions' = live'
  BY <1>2, CloseSessionsShrinks DEF IInv
<1>4. OnlyMembersConnected'
  <2>. SUFFICES ASSUME ~failed', NEW k \in SessionIds, live'[k] # Nobody
                PROVE  FALSE
    BY DEF OnlyMembersConnected, Live
  <2>1. live'[k] = live[k] /\ ~failed /\ sessions = live
    BY <1>3 DEF Shrinks, Heals, IInv, Safe, Agreement
  <2>. QED
    BY <1>3, <2>1
<1>. QED
  BY <1>1, <1>3, <1>4, CalmStep

\* RestoreBoard, OtherBoardEvent: the room stays.
LEMMA RecordStep ==
  ASSUME IInv, \/ \E members \in SUBSET Users : RestoreBoard(members)
               \/ OtherBoardEvent
  PROVE  IInv'
<1>1. Calm /\ UNCHANGED room /\ member \subseteq member'
  BY RecordIsCalm DEF RestoreBoard, OtherBoardEvent, IInv, TypeOK
<1>2. Kept /\ UNCHANGED <<sessions, live, expiry, failed>>
  BY <1>1 DEF room, Kept, IInv, TypeOK
<1>. QED
  BY <1>1, <1>2, SameRoom, CalmStepSameRoles DEF IInv

\* Crash: everything that is only in memory is gone.
LEMMA CrashStep == ASSUME IInv, Crash PROVE IInv'
<1>1. Calm /\ Closed /\ member' = member
  BY DEF Crash, Calm, IInv, TypeOK
<1>. QED
  BY <1>1, ClosedShrinks, CalmStepSameRoles

-----------------------------------------------------------------------------
(* The requests.                                                           *)

\* What the invariant leaves to show when the sessions stay as they are.
LEMMA SameSessionsStep ==
  ASSUME IInv, UNCHANGED <<sessions, live, expiry, member>>, failed => failed', Kept,
         rows' \in 0 .. MaxRows, cursor' \in 0 .. rows', shown' \in [1 .. MaxRows -> Nat],
         busy' \in Requests, RequestsMatch', AuditTrail', Served'
  PROVE  IInv'
<1>1. TypeOK'
  BY DEF IInv, TypeOK, Kept, Requests
<1>2. OnlyMembersConnected' /\ TimersMatch' /\ Agreement'
  BY DEF IInv, Safe, OnlyMembersConnected, Live, TimersMatch, Agreement
<1>. QED
  BY <1>1, <1>2 DEF IInv, Safe

\* GetRoomHandle: a request starts, with a member if it is to connect.
LEMMA GetRoomHandleStep ==
  ASSUME IInv, NEW kind \in {"read", "connect"}, NEW k, NEW meta, GetRoomHandle(kind, k, meta),
         k \in SessionIds \cup {Nobody}, meta \in Meta \cup {Nobody},
         kind = "connect" => k \in SessionIds /\ meta \in Meta /\ meta.user \in member
  PROVE  IInv'
<1>. DEFINE request == [kind |-> kind, id |-> k, meta |-> meta, fresh |-> ~open, phase |-> "project"]
<1>1. busy' = request /\ open' = TRUE
      /\ UNCHANGED <<sessions, live, expiry, idle, failed, member, rows, cursor, shown>>
  BY DEF GetRoomHandle, trail
<1>2. request \in Requests
  BY DEF Requests, IInv, TypeOK
<1>3. RequestsMatch' /\ Served'
  BY <1>1 DEF RequestsMatch, Served
<1>4. AuditTrail' /\ Kept
  BY <1>1 DEF IInv, AuditTrail, Kept, TypeOK
<1>. HIDE DEF request
<1>. QED
  BY <1>1, <1>2, <1>3, <1>4, SameSessionsStep DEF IInv, TypeOK

\* StartRead
LEMMA StartReadStep == ASSUME IInv, StartRead PROVE IInv'
  BY GetRoomHandleStep DEF StartRead

\* StartConnect
LEMMA StartConnectStep ==
  ASSUME IInv, NEW k \in SessionIds, NEW u \in Users, NEW ttl \in Ttls, StartConnect(k, u, ttl)
  PROVE  IInv'
<1>. DEFINE meta == [user |-> u, left |-> ttl]
<1>1. meta \in Meta /\ meta.user = u
  BY RoomsAssumption DEF Meta
<1>2. u \in member /\ GetRoomHandle("connect", k, meta)
  BY DEF StartConnect
<1>. HIDE DEF meta
<1>. QED
  BY <1>1, <1>2, GetRoomHandleStep

\* The cursor goes to the last event found, and when less than a batch is
\* found that is the last there is.
LEMMA CursorMoves ==
  ASSUME TypeOK, ProjectAccountAudit
  PROVE  /\ cursor' \in cursor .. rows
         /\ \A i \in 1 .. rows : i \in RowsAfter(cursor) <=> cursor < i /\ i <= cursor'
         /\ LastRows(RowsAfter(cursor)) => cursor' = rows
<1>. DEFINE found == RowsAfter(cursor)
<1>1. cursor \in Nat /\ rows \in Nat /\ Batch \in Nat \ {0} /\ cursor <= rows
  BY RoomsAssumption DEF TypeOK
<1>2. \A i : i \in found <=> i \in 1 .. rows /\ cursor < i /\ i <= cursor + Batch
  BY DEF RowsAfter
<1>3. CASE found = {}
  <2>1. cursor' = cursor
    BY <1>3 DEF ProjectAccountAudit
  <2>2. rows = cursor
    <3>1. SUFFICES ASSUME cursor < rows PROVE FALSE
      BY <1>1
    <3>2. cursor + 1 \in found
      BY <1>1, <1>2, <3>1
    <3>. QED
      BY <1>3, <3>2
  <2>. QED
    BY <1>1, <1>2, <1>3, <2>1, <2>2
<1>4. CASE found # {}
  <2>1. cursor' \in found /\ \A i \in found : i <= cursor'
    BY <1>4 DEF ProjectAccountAudit
  <2>2. cursor' \in cursor .. rows /\ cursor' <= cursor + Batch
    BY <1>1, <1>2, <2>1
  <2>3. \A i \in 1 .. rows : i \in found <=> cursor < i /\ i <= cursor'
    BY <1>1, <1>2, <2>1, <2>2
  <2>4. ASSUME LastRows(found) PROVE cursor' = rows
    <3>1. SUFFICES ASSUME cursor' < rows PROVE FALSE
      BY <1>1, <2>2
    <3>2. ~(cursor' + 1 \in found)
      BY <1>1, <2>1, <2>2
    <3>3. cursor + Batch <= cursor'
      BY <1>1, <1>2, <2>2, <3>1, <3>2
    <3>4. found = (cursor + 1) .. (cursor + Batch)
      <4>1. \A i : i \in found => i \in (cursor + 1) .. (cursor + Batch)
        BY <1>1, <1>2
      <4>2. \A i : i \in (cursor + 1) .. (cursor + Batch) => i \in found
        BY <1>1, <1>2, <2>2, <3>1, <3>3
      <4>. QED
        BY <4>1, <4>2
    <3>5. Cardinality(found) = Batch
      BY <1>1, <3>4, FS_Interval
    <3>. QED
      BY <1>1, <2>4, <3>5 DEF LastRows
  <2>. QED
    BY <2>2, <2>3, <2>4
<1>. QED
  BY <1>3, <1>4

\* ProjectAccountAudit
LEMMA ProjectStep == ASSUME IInv, ProjectAccountAudit PROVE IInv'
<1>1. /\ cursor' \in cursor .. rows
      /\ \A i \in 1 .. rows : i \in RowsAfter(cursor) <=> cursor < i /\ i <= cursor'
      /\ LastRows(RowsAfter(cursor)) => cursor' = rows
  BY CursorMoves DEF IInv
<1>2. /\ shown' = [i \in 1 .. MaxRows |-> IF i \in RowsAfter(cursor) THEN shown[i] + 1 ELSE shown[i]]
      /\ rows' = rows /\ busy.phase = "project"
      /\ UNCHANGED <<open, sessions, live, expiry, failed, member>>
  BY DEF ProjectAccountAudit
<1>3. /\ cursor \in Nat /\ rows \in Nat /\ MaxRows \in Nat /\ rows <= MaxRows
      /\ shown \in [1 .. MaxRows -> Nat]
  BY RoomsAssumption DEF IInv, TypeOK
<1>4. cursor' \in 0 .. rows' /\ rows' \in 0 .. MaxRows
  BY <1>1, <1>2, <1>3
<1>5. shown' \in [1 .. MaxRows -> Nat]
  BY <1>2, <1>3
<1>6. AuditTrail'
  <2>. SUFFICES ASSUME NEW i \in 1 .. MaxRows PROVE shown'[i] = IF i <= cursor' THEN 1 ELSE 0
    BY DEF AuditTrail
  <2>1. i \in RowsAfter(cursor) <=> cursor < i /\ i <= cursor'
    BY <1>1, <1>3, <1>4 DEF RowsAfter
  <2>2. shown[i] = IF i <= cursor THEN 1 ELSE 0
    BY DEF IInv, AuditTrail
  <2>. QED
    BY <1>1, <1>2, <1>3, <2>1, <2>2
<1>7. /\ busy' \in Requests /\ busy'.kind = busy.kind /\ busy'.id = busy.id /\ busy'.meta = busy.meta
      /\ busy'.phase = "serve" => LastRows(RowsAfter(cursor))
      /\ idle' \in {idle, IdleDelay}
  <2>1. busy \in Requests
    BY DEF IInv, TypeOK, Requests
  <2>2. CASE /\ LastRows(RowsAfter(cursor))
             /\ busy' = [busy EXCEPT !.phase = "serve"]
             /\ idle' = IF busy.fresh THEN IdleDelay ELSE idle
    BY <2>1, <2>2 DEF Requests
  <2>3. CASE UNCHANGED <<busy, idle>>
    BY <1>2, <2>1, <2>3
  <2>. QED
    BY <2>2, <2>3 DEF ProjectAccountAudit
<1>8. RequestsMatch' /\ Served'
  BY <1>1, <1>2, <1>7 DEF IInv, Safe, RequestsMatch, Served
<1>9. Kept
  BY <1>2, <1>7, RoomsAssumption DEF Kept, IInv, TypeOK
<1>. QED
  BY <1>2, <1>4, <1>5, <1>6, <1>7, <1>8, <1>9, SameSessionsStep

\* ProjectionFails, ServeRead: the request ends.
LEMMA EndStep == ASSUME IInv, ProjectionFails \/ ServeRead PROVE IInv'
<1>1. Calm
  BY DEF ProjectionFails, ServeRead, Calm, IInv, TypeOK
<1>2. UNCHANGED <<open, sessions, live, expiry, idle, member>>
  BY DEF ProjectionFails, ServeRead, room
<1>3. failed => failed'
  BY Zenon DEF ProjectionFails, ServeRead, room
<1>4. failed' \in BOOLEAN
  BY DEF ProjectionFails, ServeRead, room, IInv, TypeOK
<1>5. Kept
  BY <1>2, <1>4 DEF Kept, IInv, TypeOK
<1>. QED
  BY <1>1, <1>2, <1>3, <1>5, SameRoom, CalmStepSameRoles DEF IInv

\* Connect: the meta goes into both tables, and its user has a role.
LEMMA ConnectStep == ASSUME IInv, Connect PROVE IInv'
<1>. DEFINE timer == [left |-> Sooner(busy.meta.left, MaxDelay), current |-> TRUE]
<1>1. /\ busy.kind = "connect" /\ busy' = NoRequest
      /\ sessions' = [sessions EXCEPT ![busy.id] = busy.meta]
      /\ live' = [live EXCEPT ![busy.id] = busy.meta]
      /\ expiry' = [expiry EXCEPT ![busy.id] = timer]
      /\ idle' = Never
      /\ UNCHANGED <<open, failed, member, rows, cursor, shown>>
  BY DEF Connect, trail
<1>2. busy.id \in SessionIds /\ busy.meta \in Meta /\ busy.meta.user \in member
  BY <1>1 DEF IInv, Safe, RequestsMatch
<1>3. timer \in [left : 0 .. MaxDelay, current : BOOLEAN]
  BY <1>2, RoomsAssumption DEF Meta, Sooner
<1>4. Nobody \notin Meta
  BY RoomsAssumption DEF Meta
<1>. HIDE DEF timer
<1>5. TypeOK'
  BY <1>1, <1>2, <1>3, NoRequestTyped DEF IInv, TypeOK, Requests
<1>6. OnlyMembersConnected'
  BY <1>1, <1>2 DEF IInv, TypeOK, Safe, OnlyMembersConnected, Live
<1>7. TimersMatch'
  BY <1>1, <1>2, <1>4 DEF IInv, TypeOK, Safe, TimersMatch
<1>8. Agreement' /\ AuditTrail'
  BY <1>1 DEF IInv, Safe, Agreement, AuditTrail
<1>9. RequestsMatch' /\ Served'
  BY <1>1, NoRequestTyped DEF RequestsMatch, Served
<1>. QED
  BY <1>5, <1>6, <1>7, <1>8, <1>9 DEF IInv, Safe

\* ConnectFails: only handle.sessions has the new meta.
LEMMA ConnectFailsStep == ASSUME IInv, ConnectFails PROVE IInv'
<1>. DEFINE k == busy.id
            old == IF expiry[k] = Never THEN Never ELSE [expiry[k] EXCEPT !.current = FALSE]
<1>1. /\ busy.kind = "connect" /\ busy' = NoRequest
      /\ sessions' = [sessions EXCEPT ![k] = busy.meta]
      /\ expiry' = [expiry EXCEPT ![k] = old]
      /\ idle' = Never /\ failed' = TRUE
      /\ UNCHANGED <<open, live, member, rows, cursor, shown>>
  BY DEF ConnectFails, trail
<1>2. k \in SessionIds /\ busy.meta \in Meta
  BY <1>1 DEF IInv, Safe, RequestsMatch
<1>3. Nobody \notin Meta
  BY RoomsAssumption DEF Meta
<1>4. old \in [left : 0 .. MaxDelay, current : BOOLEAN] \cup {Never}
  <2>1. expiry[k] \in [left : 0 .. MaxDelay, current : BOOLEAN] \cup {Never}
    BY <1>2 DEF IInv, TypeOK
  <2>. QED
    BY <2>1
<1>. HIDE DEF k, old
<1>5. TypeOK'
  BY <1>1, <1>2, <1>4, NoRequestTyped DEF IInv, TypeOK, Requests
<1>6. OnlyMembersConnected' /\ Agreement' /\ AuditTrail'
  BY <1>1 DEF IInv, OnlyMembersConnected, Agreement, AuditTrail
<1>7. TimersMatch'
  <2>. SUFFICES ASSUME NEW s \in SessionIds, expiry'[s] # Never, expiry'[s].current
                PROVE  sessions'[s] # Nobody
    BY DEF TimersMatch
  <2>1. CASE s = k
    BY <1>1, <1>2, <1>3, <2>1 DEF IInv, TypeOK
  <2>2. CASE s # k
    BY <1>1, <2>2 DEF IInv, TypeOK, Safe, TimersMatch
  <2>. QED
    BY <2>1, <2>2
<1>8. RequestsMatch' /\ Served'
  BY <1>1, NoRequestTyped DEF RequestsMatch, Served
<1>. QED
  BY <1>5, <1>6, <1>7, <1>8 DEF IInv, Safe

\* ConnectTooLate: the session departs as soon as it is here.
LEMMA ConnectTooLateStep == ASSUME IInv, ConnectTooLate PROVE IInv'
<1>. DEFINE gone == {busy.id}
<1>1. Calm /\ member' = member
  BY DEF ConnectTooLate, Calm, IInv, TypeOK
<1>2. CASE Depart(gone)
  BY <1>1, <1>2, DepartShrinks, CalmStepSameRoles DEF IInv
<1>3. CASE DepartFails(gone, Never)
  BY <1>1, <1>3, DepartFailsShrinks, CalmStepSameRoles DEF IInv
<1>. QED
  BY <1>2, <1>3 DEF ConnectTooLate

-----------------------------------------------------------------------------
(* The timers.                                                             *)

\* IdleFires: the handle is closed, or its timer is forgotten.
LEMMA IdleFiresStep == ASSUME IInv, IdleFires PROVE IInv'
<1>1. Calm /\ member' = member
  BY DEF IdleFires, Calm, IInv, TypeOK
<1>2. CASE Closed
  BY <1>1, <1>2, ClosedShrinks, CalmStepSameRoles DEF IInv
<1>3. CASE idle' = Never /\ UNCHANGED <<open, sessions, live, expiry, failed>>
  BY <1>1, <1>3, SameRoom, CalmStepSameRoles DEF IInv, TypeOK, Kept
<1>. QED
  BY <1>2, <1>3 DEF IdleFires

\* ExpiryFires: the session departs, or its timer is set again or forgotten.
LEMMA ExpiryFiresStep == ASSUME IInv, NEW k \in SessionIds, ExpiryFires(k) PROVE IInv'
<1>1. Calm /\ member' = member
  BY DEF ExpiryFires, Calm, IInv, TypeOK
<1>2. CASE Depart({k})
  BY <1>1, <1>2, DepartShrinks, CalmStepSameRoles DEF IInv
<1>3. ASSUME expiry' = [expiry EXCEPT ![k] = IF expiry[k].current THEN NextExpiry(k) ELSE Never],
             UNCHANGED <<open, sessions, live, idle, failed>>
      PROVE  IInv'
  <2>1. UNCHANGED <<busy, member, rows, cursor, shown>> /\ expiry[k] # Never
    BY DEF ExpiryFires, trail
  <2>2. expiry[k].current => sessions[k] \in Meta /\ NextExpiry(k) \in [left : 0 .. MaxDelay, current : BOOLEAN]
    <3>1. SUFFICES ASSUME expiry[k].current
                   PROVE  sessions[k] \in Meta /\ NextExpiry(k) \in [left : 0 .. MaxDelay, current : BOOLEAN]
      OBVIOUS
    <3>2. sessions[k] \in Meta
      BY <2>1, <3>1 DEF IInv, TypeOK, Safe, TimersMatch
    <3>3. sessions[k].left \in Nat
      BY <3>2 DEF Meta
    <3>4. Sooner(sessions[k].left, MaxDelay) \in 0 .. MaxDelay
      BY <3>3, RoomsAssumption DEF Sooner
    <3>. QED
      BY <3>2, <3>4 DEF NextExpiry
  <2>3. TypeOK'
    <3>1. expiry' \in [SessionIds -> [left : 0 .. MaxDelay, current : BOOLEAN] \cup {Never}]
      BY <1>3, <2>2 DEF IInv, TypeOK
    <3>. QED
      BY <1>3, <2>1, <3>1 DEF IInv, TypeOK
  <2>4. Nobody \notin Meta
    BY RoomsAssumption DEF Meta
  <2>5. TimersMatch'
    BY <1>3, <2>2, <2>4 DEF IInv, TypeOK, Safe, TimersMatch
  <2>. QED
    BY <1>3, <2>1, <2>3, <2>5
       DEF IInv, Safe, OnlyMembersConnected, Live, Agreement, RequestsMatch, AuditTrail, Served
<1>. QED
  BY <1>2, <1>3 DEF ExpiryFires

\* Time that passes leaves a meta a meta of the same user.
LEMMA LessLeftTyped ==
  ASSUME NEW meta \in Meta \cup {Nobody}
  PROVE  /\ LessLeft(meta) \in Meta \cup {Nobody}
         /\ LessLeft(meta) = Nobody <=> meta = Nobody
         /\ meta # Nobody => LessLeft(meta) \in Meta /\ LessLeft(meta).user = meta.user
<1>1. Nobody \notin Meta
  BY RoomsAssumption DEF Meta
<1>2. ASSUME meta \in Meta
      PROVE  [meta EXCEPT !.left = Less(@)] \in Meta /\ [meta EXCEPT !.left = Less(@)].user = meta.user
  <2>1. Less(meta.left) \in 0 .. MaxTtl
    BY <1>2, RoomsAssumption DEF Meta, Less
  <2>. QED
    BY <1>2, <2>1 DEF Meta
<1>. QED
  BY <1>1, <1>2 DEF LessLeft

\* Tick
LEMMA TickStep == ASSUME IInv, Tick PROVE IInv'
<1>1. /\ sessions' = [k \in SessionIds |-> LessLeft(sessions[k])]
      /\ live' = [k \in SessionIds |-> LessLeft(live[k])]
      /\ busy' = [busy EXCEPT !.meta = LessLeft(busy.meta)]
      /\ UNCHANGED <<open, failed, member, rows, cursor, shown>>
  BY DEF Tick, trail
<1>2. /\ \A k \in SessionIds : sessions[k] \in Meta \cup {Nobody} /\ live[k] \in Meta \cup {Nobody}
      /\ busy \in Requests
  BY DEF IInv, TypeOK, Requests
<1>3. /\ sessions' \in [SessionIds -> Meta \cup {Nobody}]
      /\ live' \in [SessionIds -> Meta \cup {Nobody}]
  BY <1>1, <1>2, LessLeftTyped
<1>4. /\ expiry' \in [SessionIds -> [left : 0 .. MaxDelay, current : BOOLEAN] \cup {Never}]
      /\ \A k \in SessionIds : expiry'[k] # Never =>
           expiry[k] # Never /\ (expiry'[k].current => expiry[k].current)
  <2>. DEFINE Timer == [left : 0 .. MaxDelay, current : BOOLEAN]
              next(k) == IF expiry[k] = Never THEN Never ELSE [expiry[k] EXCEPT !.left = Less(@)]
  <2>1. \A k \in SessionIds : expiry[k] # Never => /\ expiry[k] \in Timer
                                                   /\ Less(expiry[k].left) \in 0 .. MaxDelay
    <3>1. \A k \in SessionIds : expiry[k] # Never => expiry[k] \in Timer
      BY DEF IInv, TypeOK
    <3>2. \A n \in 0 .. MaxDelay : Less(n) \in 0 .. MaxDelay
      BY RoomsAssumption DEF Less
    <3>. QED
      BY <3>1, <3>2
  <2>2. \A k \in SessionIds : expiry[k] # Never =>
          next(k) \in Timer /\ next(k).current = expiry[k].current
    BY <2>1
  <2>3. expiry' = [k \in SessionIds |-> next(k)]
    BY DEF Tick
  <2>. QED
    BY <2>2, <2>3
<1>5. idle' \in (0 .. IdleDelay) \cup {Never}
  BY RoomsAssumption DEF Tick, Less, IInv, TypeOK
<1>6. /\ busy' \in Requests /\ busy'.kind = busy.kind /\ busy'.id = busy.id
      /\ busy'.phase = busy.phase /\ busy'.meta = LessLeft(busy.meta)
  <2>1. busy.meta \in Meta \cup {Nobody}
    BY <1>2 DEF Requests
  <2>2. LessLeft(busy.meta) \in Meta \cup {Nobody}
    BY <2>1, LessLeftTyped
  <2>. QED
    BY <1>1, <1>2, <2>2 DEF Requests
<1>7. TypeOK'
  BY <1>1, <1>3, <1>4, <1>5, <1>6 DEF IInv, TypeOK, Requests
<1>8. OnlyMembersConnected'
  BY <1>1, <1>2, LessLeftTyped DEF IInv, Safe, OnlyMembersConnected, Live
<1>9. Agreement' /\ AuditTrail'
  BY <1>1 DEF IInv, Safe, Agreement, AuditTrail
<1>10. TimersMatch'
  BY <1>1, <1>2, <1>4, LessLeftTyped DEF IInv, Safe, TimersMatch
<1>11. Nobody \notin Meta
  BY RoomsAssumption DEF Meta
<1>12. RequestsMatch' /\ Served'
  BY <1>1, <1>6, <1>11, LessLeftTyped DEF IInv, Safe, RequestsMatch, Served
<1>. QED
  BY <1>7, <1>8, <1>9, <1>10, <1>12 DEF IInv, Safe

-----------------------------------------------------------------------------
(* The theorems.                                                           *)

\* Init: a closed room without a timeline.
LEMMA InitInvariant == Init => IInv
<1>. SUFFICES ASSUME Init PROVE IInv
  OBVIOUS
<1>1. busy = NoRequest /\ rows = 0 /\ cursor = 0 /\ failed = FALSE /\ open = FALSE
  BY DEF Init
<1>2. TypeOK
  <2>1. busy \in Requests
    BY <1>1, NoRequestTyped
  <2>2. rows \in 0 .. MaxRows /\ cursor \in 0 .. rows /\ shown \in [1 .. MaxRows -> Nat]
    BY <1>1, RoomsAssumption DEF Init
  <2>3. /\ sessions \in [SessionIds -> Meta \cup {Nobody}]
        /\ live \in [SessionIds -> Meta \cup {Nobody}]
        /\ expiry \in [SessionIds -> [left : 0 .. MaxDelay, current : BOOLEAN] \cup {Never}]
        /\ idle \in (0 .. IdleDelay) \cup {Never}
    BY DEF Init
  <2>4. open \in BOOLEAN /\ failed \in BOOLEAN /\ member \subseteq Users
    BY <1>1 DEF Init
  <2>. QED
    BY <2>1, <2>2, <2>3, <2>4 DEF TypeOK, Requests
<1>3. Safe
  BY <1>1, NoRequestTyped
     DEF Init, Safe, OnlyMembersConnected, Live, Agreement, TimersMatch, RequestsMatch
<1>4. AuditTrail /\ Served
  BY <1>1, RoomsAssumption DEF Init, AuditTrail, Served
<1>. QED
  BY <1>2, <1>3, <1>4 DEF IInv

\* Next: every step keeps the invariant.
LEMMA StepInvariant == IInv /\ [Next]_vars => IInv'
<1>. SUFFICES ASSUME IInv, [Next]_vars PROVE IInv'
  OBVIOUS
<1>1. CASE StartRead \/ ProjectAccountAudit \/ ServeRead \/ Connect \/ ConnectTooLate
  BY <1>1, StartReadStep, ProjectStep, EndStep, ConnectStep, ConnectTooLateStep
<1>2. CASE \E k \in SessionIds, u \in Users, ttl \in Ttls : StartConnect(k, u, ttl)
  BY <1>2, StartConnectStep
<1>3. CASE ProjectionFails \/ ConnectFails
  BY <1>3, EndStep, ConnectFailsStep
<1>4. CASE \E k \in SessionIds : Leave(k) \/ ExpiryFires(k)
  BY <1>4, LeaveStep, ExpiryFiresStep
<1>5. CASE \E u \in Users : Logout(u) \/ \E stays \in BOOLEAN : ChangeMember(u, stays)
  BY <1>5, LogoutStep, ChangeMemberStep
<1>6. CASE DeleteBoard \/ (\E members \in SUBSET Users : RestoreBoard(members)) \/ OtherBoardEvent
  BY <1>6, DeleteBoardStep, RecordStep
<1>7. CASE IdleFires \/ Tick \/ Crash
  BY <1>7, IdleFiresStep, TickStep, CrashStep
<1>8. CASE UNCHANGED vars
  BY <1>8, SameRoom, CalmStepSameRoles
     DEF vars, room, trail, Calm, Kept, IInv, TypeOK
<1>. QED
  BY <1>1, <1>2, <1>3, <1>4, <1>5, <1>6, <1>7, <1>8 DEF Next, Handler

\* The invariant holds of every behaviour of the room.
THEOREM Invariance == Spec => []IInv
  BY InitInvariant, StepInvariant, PTL DEF Spec

\* Every table, timer and request of the room is of its type: a timer never
\* waits longer than setTimeout can.
THEOREM TypeCorrect == Spec => []TypeOK
<1>1. IInv => TypeOK
  BY DEF IInv
<1>. QED
  BY <1>1, Invariance, PTL

\* The routes that take a role away leave no session of the person behind,
\* whatever tabs were reopened, by whom and under which id.
THEOREM MembersOnly == Spec => []OnlyMembersConnected
<1>1. IInv => OnlyMembersConnected
  BY DEF IInv, Safe
<1>. QED
  BY <1>1, Invariance, PTL

\* The projection is exactly once: the cursor and the events move together.
THEOREM AuditOnce == Spec => []AuditTrail
<1>1. IInv => AuditTrail
  BY DEF IInv
<1>. QED
  BY <1>1, Invariance, PTL

\* A request sees all account events of its board, for every size of batch.
THEOREM AuditComplete == Spec => []AuditShown
<1>1. IInv => AuditShown
  <2>. SUFFICES ASSUME IInv, busy.phase = "serve", NEW i \in 1 .. rows PROVE shown[i] = 1
    BY DEF AuditShown
  <2>1. cursor = rows /\ rows \in 0 .. MaxRows
    BY DEF IInv, Served, TypeOK
  <2>2. i \in 1 .. MaxRows /\ i <= cursor
    BY <2>1, RoomsAssumption
  <2>. QED
    BY <2>2 DEF IInv, AuditTrail
<1>. QED
  BY <1>1, Invariance, PTL
=============================================================================
