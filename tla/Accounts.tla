------------------------------ MODULE Accounts ------------------------------
(***************************************************************************)
(* Accounts, sign-ins, invitations, boards and their members               *)
(* (server/auth.ts over server/auth-db.ts), and the live room connections  *)
(* that the routes of server/app.ts open and close with them.              *)
(*                                                                         *)
(* Every operation of AuthService is one synchronous transaction, so it is *)
(* one action here, together with the connections its route closes.  Only  *)
(* three things await between reading and writing: a registration hashes   *)
(* the password first, a login verifies it against the user row it read,   *)
(* and the adoption of legacy boards lists the files first.  Those are     *)
(* calls that stay open while everything else goes on.                     *)
(***************************************************************************)
EXTENDS Integers, FiniteSets

CONSTANTS
  Logins,           \* the logins people may register
  Boards,
  LegacyBoards,     \* boards whose room file is older than the accounts
  Sessions,         \* bound: rows of the sessions table
  Invitations,      \* bound: rows of the invitations table
  Sockets,          \* bound: connections at once
  Calls,            \* bound: registrations and logins at once
  Nothing,          \* no user, no session, no invitation, no board
  OpenRegistration, \* allowOpenRegistration
  Disabling,        \* whether anyone calls setUserDisabled: no route does
  SessionTtl, InvitationTtl,
  MaxTime           \* bound: the time

Roles == {"none", "viewer", "editor", "owner"}   \* "none": not a member
Times == 0 .. (MaxTime + SessionTtl + InvitationTtl)

ASSUME AccountsAssumption ==
  /\ LegacyBoards \subseteq Boards
  /\ Nothing \notin Logins \cup Boards \cup Sessions \cup Invitations
  /\ OpenRegistration \in BOOLEAN
  /\ Disabling \in BOOLEAN
  /\ SessionTtl \in Nat \ {0}
  /\ InvitationTtl \in Nat \ {0}
  /\ MaxTime \in Nat

VARIABLES
  account,     \* users: "none", "active" or "disabled"
  admin,       \* users: those with isAdmin
  session,     \* sessions: user, expiresAt, revoked
  invitation,  \* invitations
  owner,       \* boards: ownerUserId, Nothing when there is no such board
  deleted,     \* boards: those with deletedAt
  member,      \* board_members
  connection,  \* rooms.ts: the open sockets and what they were admitted with
  call,        \* the registrations, logins and adoptions that are awaiting
  unconfirmed, \* boards an agent's request created and has no grant for yet
  clock

people == <<account, admin>>
boards == <<owner, deleted, member>>
vars == <<people, session, invitation, boards, connection, call, unconfirmed, clock>>

NoCall == [kind |-> "none", login |-> Nothing, invitation |-> Nothing, seen |-> "none"]

NoInvitation ==
  [state |-> "none", creator |-> Nothing, board |-> Nothing, role |-> "none",
   login |-> Nothing, expiresAt |-> 0, consumer |-> Nothing]

NoSession == [user |-> Nothing, expiresAt |-> 0, revoked |-> FALSE]

TypeOK ==
  /\ account \in [Logins -> {"none", "active", "disabled"}]
  /\ admin \subseteq Logins
  /\ session \in [Sessions -> [user : Logins \cup {Nothing}, expiresAt : Times, revoked : BOOLEAN]]
  /\ invitation \in
       [Invitations ->
         [state : {"none", "open", "consumed", "revoked"}, creator : Logins \cup {Nothing},
          board : Boards \cup {Nothing}, role : Roles, login : Logins \cup {Nothing},
          expiresAt : Times, consumer : Logins \cup {Nothing}]]
  /\ owner \in [Boards -> Logins \cup {Nothing}]
  /\ deleted \subseteq Boards
  /\ member \in [Boards -> [Logins -> Roles]]
  /\ connection \in
       [Sockets -> [board : Boards, session : Sessions, role : Roles \ {"none"}] \cup {Nothing}]
  /\ call \in
       [Calls ->
         [kind : {"none", "register", "login", "adopt"}, login : Logins \cup {Nothing},
          invitation : Invitations \cup {Nothing}, seen : {"none", "active", "disabled"}]]
  /\ unconfirmed \subseteq Boards
  /\ clock \in 0 .. MaxTime

Init ==
  /\ account = [u \in Logins |-> "none"]
  /\ admin = {}
  /\ session = [s \in Sessions |-> NoSession]
  /\ invitation = [i \in Invitations |-> NoInvitation]
  /\ owner = [b \in Boards |-> Nothing]
  /\ deleted = {}
  /\ member = [b \in Boards |-> [u \in Logins |-> "none"]]
  /\ connection = [k \in Sockets |-> Nothing]
  /\ call = [c \in Calls |-> NoCall]
  /\ unconfirmed = {}
  /\ clock = 0

-----------------------------------------------------------------------------
(* What the operations check.                                              *)

\* The user of the session cookie s, when getCurrentSession accepts it.
Active(u) == u # Nothing /\ account[u] = "active"

Current(s) ==
  /\ Active(session[s].user)
  /\ ~session[s].revoked
  /\ clock < session[s].expiresAt

\* requireBoardMember, and that the member owns the board.
OwnsLive(u, b) == b \notin deleted /\ member[b][u] = "owner"

\* Without a look at consumedAt.
UsableAgain(i, u) ==
  LET row == invitation[i]
  IN  /\ row.state \in {"open", "consumed"}
      /\ clock < row.expiresAt
      /\ row.login \in {u, Nothing}
      /\ row.board # Nothing => row.board \notin deleted

\* assertInvitationUsable, and the conditional UPDATE of consumeInvitation.
Usable(i, u) ==
  LET row == invitation[i]
  IN  /\ row.state = "open"
      /\ clock < row.expiresAt
      /\ row.login \in {u, Nothing}
      /\ row.board # Nothing => row.board \notin deleted

\* applyInvitedMembership keeps the role that is at least as high.
Rank(role) ==
  CASE role = "none" -> 0 [] role = "viewer" -> 1 [] role = "editor" -> 2 [] role = "owner" -> 3

\* The role of the invitation, whatever the user had.
RoleAsInvited(current, invited) == invited

InvitedRole(current, invited) == IF Rank(current) >= Rank(invited) THEN current ELSE invited

\* Takes the invitation for u and gives u the role it names.
Consume(i, u) ==
  /\ invitation' = [invitation EXCEPT ![i].state = "consumed", ![i].consumer = u]
  /\ member' = [b \in Boards |->
       IF b = invitation[i].board
       THEN [member[b] EXCEPT ![u] = InvitedRole(@, invitation[i].role)]
       ELSE member[b]]

-----------------------------------------------------------------------------
(* The live connections.                                                   *)

Live(k) == connection[k] # Nothing
UserOf(k) == session[connection[k].session].user
ConnectionsOf(u) == {k \in Sockets : Live(k) /\ UserOf(k) = u}
ConnectionsTo(b) == {k \in Sockets : Live(k) /\ connection[k].board = b}

Close(closing) ==
  connection' = [k \in Sockets |-> IF k \in closing THEN Nothing ELSE connection[k]]

\* Only those that can write have a right to lose.
CloseWriters(b, u) ==
  Close({k \in ConnectionsTo(b) \cap ConnectionsOf(u) : connection[k].role = "editor"})

\* closeUserRoomSessions
CloseUserRoom(b, u) == Close(ConnectionsTo(b) \cap ConnectionsOf(u))

-----------------------------------------------------------------------------
(* Registration and login.                                                 *)

Await(c, kind, u, i) ==
  /\ call[c] = NoCall
  /\ call' = [call EXCEPT ![c] = [kind |-> kind, login |-> u, invitation |-> i, seen |-> account[u]]]
  /\ UNCHANGED <<people, session, invitation, boards, connection, unconfirmed, clock>>

Return(c) == call' = [call EXCEPT ![c] = NoCall]

InsertUser(u, isAdmin) ==
  /\ account' = [account EXCEPT ![u] = "active"]
  /\ admin' = IF isAdmin THEN admin \cup {u} ELSE admin

\* The rows written by a successful registration or login; an administrator
\* goes on to adopt the legacy boards.
InsertSession(s, u) ==
  /\ session[s].user = Nothing
  /\ session' = [session EXCEPT ![s] = [user |-> u, expiresAt |-> clock + SessionTtl, revoked |-> FALSE]]

Grant(c, s, u, isAdmin) ==
  /\ InsertSession(s, u)
  /\ IF isAdmin
     THEN call' = [call EXCEPT ![c] = [NoCall EXCEPT !.kind = "adopt", !.login = u]]
     ELSE Return(c)

NoAccounts == \A u \in Logins : account[u] = "none"

\* The password is being hashed; no row has been read.
StartRegister(c, u, i) == Await(c, "register", u, i)

MayRegister(u, i) ==
  /\ account[u] = "none"
  /\ i # Nothing => Usable(i, u)
  /\ NoAccounts \/ OpenRegistration \/ i # Nothing

\* registerInternal, the transaction after the hash.
FinishRegister(c, s) ==
  LET u == call[c].login
      i == call[c].invitation
  IN  /\ call[c].kind = "register"
      /\ MayRegister(u, i)
      /\ InsertUser(u, NoAccounts)
      /\ IF i # Nothing THEN Consume(i, u) ELSE UNCHANGED <<invitation, member>>
      /\ Grant(c, s, u, NoAccounts)
      /\ UNCHANGED <<owner, deleted, connection, unconfirmed, clock>>

RefuseRegister(c) ==
  /\ call[c].kind = "register"
  /\ ~MayRegister(call[c].login, call[c].invitation)
  /\ Return(c)
  /\ UNCHANGED <<people, session, invitation, boards, connection, unconfirmed, clock>>

\* The user row is read here, and its password verified while others run.
StartLogin(c, u) == Await(c, "login", u, Nothing)

\* What login checks once the password has matched: disabledAt, as it was read.
MayLogin(c) == call[c].seen = "active"

FinishLogin(c, s) ==
  /\ call[c].kind = "login"
  /\ MayLogin(c)
  /\ Grant(c, s, call[c].login, call[c].login \in admin)
  /\ UNCHANGED <<people, invitation, boards, connection, unconfirmed, clock>>

\* Unknown login, wrong password or disabled account: one refusal.
RefuseLogin(c) ==
  /\ call[c].kind = "login"
  /\ Return(c)
  /\ UNCHANGED <<people, session, invitation, boards, connection, unconfirmed, clock>>

\* adoptLegacyBoards, with the room files that were found.  A failure adopts none.
AdoptLegacyBoards(c, found) ==
  LET u == call[c].login
      adopted == {b \in found : owner[b] = Nothing}
  IN  /\ call[c].kind = "adopt"
      /\ found # {} => Active(u)
      /\ owner' = [b \in Boards |-> IF b \in adopted THEN u ELSE owner[b]]
      /\ member' = [b \in Boards |-> IF b \in adopted THEN [member[b] EXCEPT ![u] = "owner"] ELSE member[b]]
      /\ Return(c)
      /\ UNCHANGED <<people, session, invitation, deleted, connection, unconfirmed, clock>>

\* revokeSessionByTokenHash, of a session that stands.
RevokeSession(s) ==
  /\ session[s].user # Nothing
  /\ ~session[s].revoked
  /\ session' = [session EXCEPT ![s].revoked = TRUE]

\* Every request looks its session up, and getCurrentSession revokes a late one.
RevokeExpired(s) ==
  /\ clock >= session[s].expiresAt
  /\ RevokeSession(s)
  /\ UNCHANGED <<people, invitation, boards, connection, call, unconfirmed, clock>>

\* The session is looked up after it was revoked, so nobody is found.
LookedUpAfterLogout(s) == {}

\* POST /api/auth/logout closes every connection of the user, on every board.
ClosedByLogout(s) == IF Current(s) THEN ConnectionsOf(session[s].user) ELSE {}

Logout(s) ==
  /\ RevokeSession(s)
  /\ Close(ClosedByLogout(s))
  /\ UNCHANGED <<people, invitation, boards, call, unconfirmed, clock>>

MayDisableAnyone(a, u, disable) == Active(a) /\ a \in admin

\* Not for oneself.
MaySetDisabled(a, u, disable) == Active(a) /\ a \in admin /\ (disable => a # u)

RevokeSessionsForUser(u) ==
  session' = [s \in Sessions |->
    IF session[s].user = u THEN [session[s] EXCEPT !.revoked = TRUE] ELSE session[s]]

SetUserDisabled(a, u, disable) ==
  /\ Disabling
  /\ MaySetDisabled(a, u, disable)
  /\ account[u] # "none"
  /\ account' = [account EXCEPT ![u] = IF disable THEN "disabled" ELSE "active"]
  /\ IF disable THEN RevokeSessionsForUser(u) ELSE UNCHANGED session
  /\ UNCHANGED <<admin, invitation, boards, connection, call, unconfirmed, clock>>

-----------------------------------------------------------------------------
(* Boards, their members and invitations.  "By" is the session cookie.     *)

InsertBoard(b, u) ==
  /\ owner[b] = Nothing
  /\ owner' = [owner EXCEPT ![b] = u]

\* upsertBoardMember; removeBoardMember, where the role is "none".
UpsertBoardMember(b, u, role) == member' = [member EXCEPT ![b][u] = role]

NewBoard(b, u) ==
  /\ InsertBoard(b, u)
  /\ UpsertBoardMember(b, u, "owner")

CreateBoard(by, b) ==
  /\ Current(by)
  /\ NewBoard(b, session[by].user)
  /\ UNCHANGED <<people, session, invitation, deleted, connection, call, unconfirmed, clock>>

\* DELETE /api/boards/:boardId, the repeated one included.
DeleteBoard(by, b) ==
  /\ Current(by)
  /\ member[b][session[by].user] = "owner"
  /\ deleted' = deleted \cup {b}
  /\ Close(ConnectionsTo(b))
  /\ UNCHANGED <<people, session, invitation, owner, member, call, unconfirmed, clock>>

RestoreBoard(by, b) ==
  /\ Current(by)
  /\ member[b][session[by].user] = "owner"
  /\ deleted' = deleted \ {b}
  /\ UNCHANGED <<people, session, invitation, owner, member, connection, call, unconfirmed, clock>>

\* Its last check: the role of the board's owner is not for changing.
MayChangeRole(b, u) == u # owner[b]

\* PUT /api/boards/:boardId/members/:userId: role "none" removes the member.
SetBoardMemberRole(by, b, u, role) ==
  /\ Current(by)
  /\ OwnsLive(session[by].user, b)
  /\ MayChangeRole(b, u)
  /\ account[u] = "active"
  /\ role \in {"none", "viewer", "editor"}
  /\ UpsertBoardMember(b, u, role)
  /\ CloseUserRoom(b, u)
  /\ UNCHANGED <<people, session, invitation, owner, deleted, call, unconfirmed, clock>>

InsertInvitation(i, row) ==
  /\ invitation[i] = NoInvitation
  /\ invitation' = [invitation EXCEPT ![i] = row]

\* An administrator invites to an account, a board's owner to a role on it.
CreateInvitation(by, i, b, role, u) ==
  /\ Current(by)
  /\ \/ b = Nothing /\ role = "none" /\ session[by].user \in admin
     \/ b # Nothing /\ role \in {"viewer", "editor"} /\ OwnsLive(session[by].user, b)
  /\ InsertInvitation(i,
       [state |-> "open", creator |-> session[by].user, board |-> b, role |-> role,
        login |-> u, expiresAt |-> clock + InvitationTtl, consumer |-> Nothing])
  /\ UNCHANGED <<people, session, boards, connection, call, unconfirmed, clock>>

\* POST /api/invitations/consume: the connections the user has on the board
\* are closed, and the next ones get the role the invitation gave.
ConsumeInvitation(by, i) ==
  LET u == session[by].user
      b == invitation[i].board
  IN  /\ Current(by)
      /\ Usable(i, u)
      /\ Consume(i, u)
      /\ IF b # Nothing THEN CloseUserRoom(b, u) ELSE UNCHANGED connection
      /\ UNCHANGED <<people, session, owner, deleted, call, unconfirmed, clock>>

\* The condition of the UPDATE, and what revokeInvitation finds before it looks
\* at who is asking.
Revocable(i) == invitation[i].state = "open"

RevokeInvitation(by, i) ==
  /\ Current(by)
  /\ Revocable(i)
  /\ session[by].user = invitation[i].creator \/ session[by].user \in admin
  /\ invitation' = [invitation EXCEPT ![i].state = "revoked"]
  /\ UNCHANGED <<people, session, boards, connection, call, unconfirmed, clock>>

\* POST /api/agent-boards creates the board, then awaits the grant in the
\* token file (module TokenStore).
AgentCreateBoard(u, b) ==
  /\ account[u] = "active"
  /\ NewBoard(b, u)
  /\ unconfirmed' = unconfirmed \cup {b}
  /\ UNCHANGED <<people, session, invitation, deleted, connection, call, clock>>

AgentBoardGranted(b) ==
  /\ unconfirmed' = unconfirmed \ {b}
  /\ b \in unconfirmed
  /\ UNCHANGED <<people, session, invitation, boards, connection, call, clock>>

\* removeBoard: nobody's connection is closed, and a disabled owner's board
\* is not deleted at all.
AgentRollBack(b) ==
  /\ b \in unconfirmed
  /\ unconfirmed' = unconfirmed \ {b}
  /\ deleted' = IF Active(owner[b]) THEN deleted \cup {b} ELSE deleted
  /\ UNCHANGED <<people, session, invitation, owner, member, connection, call, clock>>

-----------------------------------------------------------------------------
(* Rooms, the process and time.                                            *)

\* getCurrentSession and getBoardRole.
MayJoin(by, b) == Current(by) /\ b \notin deleted /\ member[b][session[by].user] # "none"

\* GET /api/connect/:roomId, with a free socket.
Connect(k, by, b) ==
  /\ ~Live(k)
  /\ MayJoin(by, b)
  /\ connection' = [connection EXCEPT ![k] =
       [board |-> b, session |-> by, role |-> member[b][session[by].user]]]
  /\ UNCHANGED <<people, session, invitation, boards, call, unconfirmed, clock>>

\* The client leaves, or the timer of connectRoomSocket finds the session expired.
Disconnect(k) ==
  /\ Live(k)
  /\ Close({k})
  /\ UNCHANGED <<people, session, invitation, boards, call, unconfirmed, clock>>

Crash ==
  /\ connection' = [k \in Sockets |-> Nothing]
  /\ call' = [c \in Calls |-> NoCall]
  /\ unconfirmed' = {}
  /\ UNCHANGED <<people, session, invitation, boards, clock>>

Tick ==
  /\ clock < MaxTime
  /\ clock' = clock + 1
  /\ UNCHANGED <<people, session, invitation, boards, connection, call, unconfirmed>>

Answers(c) ==
  \/ \E s \in Sessions : FinishRegister(c, s) \/ FinishLogin(c, s)
  \/ RefuseRegister(c)
  \/ RefuseLogin(c)
  \/ \E found \in SUBSET LegacyBoards : AdoptLegacyBoards(c, found)

Asks(c) ==
  \E u \in Logins :
    \/ StartLogin(c, u)
    \/ \E i \in Invitations \cup {Nothing} : StartRegister(c, u, i)

Requests(by) ==
  \/ RevokeExpired(by)
  \/ Logout(by)
  \/ \E b \in Boards :
       \/ CreateBoard(by, b)
       \/ DeleteBoard(by, b)
       \/ RestoreBoard(by, b)
       \/ \E u \in Logins, role \in Roles : SetBoardMemberRole(by, b, u, role)
       \/ \E k \in Sockets : Connect(k, by, b)
  \/ \E i \in Invitations :
       \/ \E b \in Boards \cup {Nothing}, role \in Roles, u \in Logins \cup {Nothing} :
            CreateInvitation(by, i, b, role, u)
       \/ ConsumeInvitation(by, i)
       \/ RevokeInvitation(by, i)

Agents(b) ==
  \/ \E u \in Logins : AgentCreateBoard(u, b)
  \/ AgentBoardGranted(b)
  \/ AgentRollBack(b)

Next ==
  \/ \E c \in Calls : Asks(c) \/ Answers(c)
  \/ \E by \in Sessions : Requests(by)
  \/ \E b \in Boards : Agents(b)
  \/ \E a, u \in Logins, disable \in BOOLEAN : SetUserDisabled(a, u, disable)
  \/ \E k \in Sockets : Disconnect(k)
  \/ Crash
  \/ Tick

Spec == Init /\ [][Next]_vars

-----------------------------------------------------------------------------
(* Properties.                                                             *)

\* A live connection was admitted with the role its user has now: every
\* change of a membership closed the connections it touched, and none was
\* admitted with a role read before the change (connectRoomSocket fixes
\* isReadonly and objectAccess when the socket opens).
ConnectionsMatchRoles ==
  \A k \in Sockets : Live(k) => connection[k].role = member[connection[k].board][UserOf(k)]

\* A live connection stands on a sign-in that has not been revoked, unless it
\* has expired: signing out of one browser closes the rooms of all of them.
\* Disabling an account revokes its sign-ins and closes no room, so where
\* accounts are disabled this is said of the administrator alone.
ConnectionsAreSignedIn ==
  \A k \in Sockets : Live(k) /\ (Disabling => UserOf(k) \in admin) =>
    LET row == session[connection[k].session]
    IN  ~row.revoked \/ clock >= row.expiresAt

\* Deleting a board ends the connections to it and none opens while it is
\* deleted.  Only a board rolled back for want of its agent's grant is deleted
\* under the connections it has.
DeletedBoardsClose ==
  [][\A k \in Sockets :
       connection'[k] # Nothing /\ connection'[k].board \in deleted' =>
         /\ connection'[k] = connection[k]
         /\ connection[k].board \in deleted \cup unconfirmed]_vars

\* A board has one member with the role owner, the user it was created for:
\* no invitation and no change of members takes the board away or shares it.
OwnersStay ==
  \A b \in Boards, u \in Logins : member[b][u] = "owner" <=> owner[b] = u

\* The first account is the administrator, the only one, and never disabled,
\* so somebody can always invite and enable others.
OneAdmin ==
  NoAccounts \/ \E a \in Logins : admin = {a} /\ account[a] = "active"

\* While registration is closed, every other account used up an invitation
\* that was open to its login, and no two accounts the same one.
InvitedOnly ==
  OpenRegistration \/
    \A u \in Logins : account[u] # "none" /\ u \notin admin =>
      \E i \in Invitations :
        /\ invitation[i].state = "consumed"
        /\ invitation[i].consumer = u
        /\ invitation[i].login \in {u, Nothing}

\* A used or revoked invitation stays as it is, whatever registration was
\* hashing its password when that happened.
InvitationsEnd ==
  [][\A i \in Invitations :
       invitation[i].state \in {"consumed", "revoked"} => invitation'[i] = invitation[i]]_vars

\* Using an invitation never lowers the role of anyone.
InvitationsOnlyRaise ==
  [][invitation' # invitation =>
       \A b \in Boards, u \in Logins : Rank(member'[b][u]) >= Rank(member[b][u])]_vars

\* A disabled account is not let in: tests/auth.test.ts:134.
DisabledLoginsFail ==
  [][\A s \in Sessions :
       session[s].user = Nothing /\ session'[s].user # Nothing =>
         account'[session'[s].user] = "active"]_vars
=============================================================================
