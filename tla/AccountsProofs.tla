--------------------------- MODULE AccountsProofs ---------------------------
(***************************************************************************)
(* Safety of Accounts, for any number of people, boards, sign-ins,         *)
(* invitations, sockets and calls in progress.                             *)
(*                                                                         *)
(* Each part of the invariant is disturbed by few actions: the lemmas of   *)
(* the first section say which, once, and every later proof has one step   *)
(* for each of those and one for the others.                               *)
(***************************************************************************)
EXTENDS Accounts, TLAPS

\* What rows refer to is there.
Registered ==
  /\ NoAccounts => admin = {}
  /\ \A s \in Sessions : session[s].user # Nothing => account[session[s].user] # "none"
  /\ \A c \in Calls :
       /\ call[c].kind # "none" => call[c].login \in Logins
       /\ call[c].kind = "adopt" => account[call[c].login] # "none"
       /\ call[c].kind = "login" /\ call[c].seen # "none" => account[call[c].login] # "none"

\* Only boards that exist have members and are invited to, and nobody is
\* invited to own one.
Shared ==
  /\ \A b \in Boards, u \in Logins : member[b][u] # "none" => owner[b] # Nothing
  /\ \A i \in Invitations :
       /\ invitation[i].role # "owner"
       /\ invitation[i].board # Nothing => owner[invitation[i].board] # Nothing

\* A connection is somebody's.
Connected == \A k \in Sockets : Live(k) => UserOf(k) # Nothing

\* Live connections are signed in; accounts are disabled only where that is done.
SignedIn ==
  /\ ~Disabling => \A u \in Logins : account[u] # "disabled"
  /\ ConnectionsAreSignedIn

IInv ==
  /\ TypeOK
  /\ Registered
  /\ OneAdmin
  /\ Shared
  /\ OwnersStay
  /\ Connected
  /\ ConnectionsMatchRoles
  /\ InvitedOnly
  /\ SignedIn

-----------------------------------------------------------------------------
(* Who changes what.                                                       *)

\* The users table: registration and disabling.
LEMMA PeopleChange ==
  ASSUME [Next]_vars
  PROVE  \/ UNCHANGED people
         \/ \E c \in Calls, s \in Sessions : FinishRegister(c, s)
         \/ \E a, u \in Logins, disable \in BOOLEAN : SetUserDisabled(a, u, disable)
<1>1. CASE UNCHANGED vars
  BY <1>1 DEF vars
<1>2. CASE \E c \in Calls : Asks(c)
  BY <1>2 DEF Asks, StartLogin, StartRegister, Await
<1>3. CASE \E c \in Calls : Answers(c)
  BY <1>3 DEF Answers, FinishLogin, RefuseRegister, RefuseLogin, AdoptLegacyBoards
<1>4. CASE \E by \in Sessions : Requests(by)
  BY <1>4 DEF Requests, RevokeExpired, Logout, CreateBoard, DeleteBoard, RestoreBoard,
     SetBoardMemberRole, Connect, CreateInvitation, ConsumeInvitation, RevokeInvitation,
     RevokeSession, UpsertBoardMember, InsertInvitation
<1>5. CASE \E b \in Boards : Agents(b)
  BY <1>5 DEF Agents, AgentCreateBoard, AgentBoardGranted, AgentRollBack
<1>6. CASE (\E k \in Sockets : Disconnect(k)) \/ Crash \/ Tick
  BY <1>6 DEF Disconnect, Crash, Tick
<1>7. QED
  BY <1>1, <1>2, <1>3, <1>4, <1>5, <1>6 DEF Next

\* The sessions table: sign-ins and what ends them.
LEMMA SessionChanges ==
  ASSUME [Next]_vars
  PROVE  \/ UNCHANGED session
         \/ \E c \in Calls, s \in Sessions : FinishRegister(c, s) \/ FinishLogin(c, s)
         \/ \E s \in Sessions : RevokeExpired(s) \/ Logout(s)
         \/ \E a, u \in Logins, disable \in BOOLEAN : SetUserDisabled(a, u, disable)
<1>1. CASE UNCHANGED vars
  BY <1>1 DEF vars
<1>2. CASE \E c \in Calls : Asks(c)
  BY <1>2 DEF Asks, StartLogin, StartRegister, Await
<1>3. CASE \E c \in Calls : Answers(c)
  BY <1>3 DEF Answers, RefuseRegister, RefuseLogin, AdoptLegacyBoards
<1>4. CASE \E by \in Sessions : Requests(by)
  BY <1>4 DEF Requests, CreateBoard, DeleteBoard, RestoreBoard,
     SetBoardMemberRole, Connect, CreateInvitation, ConsumeInvitation, RevokeInvitation,
     UpsertBoardMember, InsertInvitation
<1>5. CASE \E b \in Boards : Agents(b)
  BY <1>5 DEF Agents, AgentCreateBoard, AgentBoardGranted, AgentRollBack
<1>6. CASE (\E k \in Sockets : Disconnect(k)) \/ Crash \/ Tick
  BY <1>6 DEF Disconnect, Crash, Tick
<1>7. QED
  BY <1>1, <1>2, <1>3, <1>4, <1>5, <1>6 DEF Next

\* The boards and their members.
LEMMA MemberChanges ==
  ASSUME [Next]_vars
  PROVE  \/ UNCHANGED <<owner, member>>
         \/ \E c \in Calls, s \in Sessions : FinishRegister(c, s)
         \/ \E c \in Calls, found \in SUBSET LegacyBoards : AdoptLegacyBoards(c, found)
         \/ \E by \in Sessions, b \in Boards : CreateBoard(by, b)
         \/ \E u \in Logins, b \in Boards : AgentCreateBoard(u, b)
         \/ \E by \in Sessions, b \in Boards, u \in Logins, role \in Roles :
              SetBoardMemberRole(by, b, u, role)
         \/ \E by \in Sessions, i \in Invitations : ConsumeInvitation(by, i)
<1>1. CASE UNCHANGED vars
  BY <1>1 DEF vars, boards
<1>2. CASE \E c \in Calls : Asks(c)
  BY <1>2 DEF Asks, StartLogin, StartRegister, Await, boards
<1>3. CASE \E c \in Calls : Answers(c)
  BY <1>3 DEF Answers, RefuseRegister, RefuseLogin, FinishLogin, boards
<1>4. CASE \E by \in Sessions : Requests(by)
  BY <1>4 DEF Requests, DeleteBoard, RestoreBoard, RevokeExpired, Logout,
     Connect, CreateInvitation, RevokeInvitation, boards, RevokeSession, InsertInvitation
<1>5. CASE \E b \in Boards : Agents(b)
  BY <1>5 DEF Agents, AgentBoardGranted, AgentRollBack, boards
<1>6. CASE (\E k \in Sockets : Disconnect(k)) \/ Crash \/ Tick
  BY <1>6 DEF Disconnect, Crash, Tick, boards
<1>7. CASE \E a, u \in Logins, disable \in BOOLEAN : SetUserDisabled(a, u, disable)
  BY <1>7 DEF SetUserDisabled, boards, RevokeSessionsForUser
<1>8. QED
  BY <1>1, <1>2, <1>3, <1>4, <1>5, <1>6, <1>7 DEF Next

\* The invitations.
LEMMA InvitationChanges ==
  ASSUME [Next]_vars
  PROVE  \/ UNCHANGED invitation
         \/ \E c \in Calls, s \in Sessions : FinishRegister(c, s)
         \/ \E by \in Sessions, i \in Invitations, b \in Boards \cup {Nothing},
               role \in Roles, u \in Logins \cup {Nothing} : CreateInvitation(by, i, b, role, u)
         \/ \E by \in Sessions, i \in Invitations :
              ConsumeInvitation(by, i) \/ RevokeInvitation(by, i)
<1>1. CASE UNCHANGED vars
  BY <1>1 DEF vars
<1>2. CASE \E c \in Calls : Asks(c)
  BY <1>2 DEF Asks, StartLogin, StartRegister, Await
<1>3. CASE \E c \in Calls : Answers(c)
  BY <1>3 DEF Answers, RefuseRegister, RefuseLogin, FinishLogin, AdoptLegacyBoards
<1>4. CASE \E by \in Sessions : Requests(by)
  BY <1>4 DEF Requests, CreateBoard, DeleteBoard, RestoreBoard, RevokeExpired, Logout,
     SetBoardMemberRole, Connect, RevokeSession, UpsertBoardMember
<1>5. CASE \E b \in Boards : Agents(b)
  BY <1>5 DEF Agents, AgentCreateBoard, AgentBoardGranted, AgentRollBack
<1>6. CASE (\E k \in Sockets : Disconnect(k)) \/ Crash \/ Tick
  BY <1>6 DEF Disconnect, Crash, Tick
<1>7. CASE \E a, u \in Logins, disable \in BOOLEAN : SetUserDisabled(a, u, disable)
  BY <1>7 DEF SetUserDisabled, RevokeSessionsForUser
<1>8. QED
  BY <1>1, <1>2, <1>3, <1>4, <1>5, <1>6, <1>7 DEF Next

\* The connections: a new one, or some are closed.
LEMMA ConnectionChanges ==
  ASSUME [Next]_vars
  PROVE  \/ UNCHANGED connection
         \/ \E k \in Sockets, by \in Sessions, b \in Boards : Connect(k, by, b)
         \/ \E closing \in SUBSET Sockets : Close(closing)
<1>1. CASE UNCHANGED vars
  BY <1>1 DEF vars
<1>2. CASE \E c \in Calls : Asks(c)
  BY <1>2 DEF Asks, StartLogin, StartRegister, Await
<1>3. CASE \E c \in Calls : Answers(c)
  BY <1>3 DEF Answers, RefuseRegister, RefuseLogin, FinishLogin, FinishRegister, AdoptLegacyBoards,
     InsertUser
<1>4. ASSUME NEW by \in Sessions, Requests(by)
      PROVE  \/ UNCHANGED connection
             \/ \E k \in Sockets, b \in Boards : Connect(k, by, b)
             \/ \E closing \in SUBSET Sockets : Close(closing)
  <2>1. CASE Logout(by)
    <3>1. ClosedByLogout(by) \in SUBSET Sockets
      BY DEF ClosedByLogout, ConnectionsOf
    <3>2. Close(ClosedByLogout(by))
      BY <2>1 DEF Logout, RevokeSession
    <3>3. QED
      BY <3>1, <3>2
  <2>2. CASE \E b \in Boards : DeleteBoard(by, b)
    <3>1. PICK b \in Boards : DeleteBoard(by, b)
      BY <2>2
    <3>2. ConnectionsTo(b) \in SUBSET Sockets
      BY DEF ConnectionsTo
    <3>3. Close(ConnectionsTo(b))
      BY <3>1 DEF DeleteBoard
    <3>4. QED
      BY <3>2, <3>3
  <2>3. ASSUME NEW b, NEW u, CloseUserRoom(b, u)
        PROVE  \E closing \in SUBSET Sockets : Close(closing)
    <3>1. ConnectionsTo(b) \cap ConnectionsOf(u) \in SUBSET Sockets
      BY DEF ConnectionsTo, ConnectionsOf
    <3>2. QED
      BY <2>3, <3>1 DEF CloseUserRoom
  <2>4. CASE \E b \in Boards, u \in Logins, role \in Roles : SetBoardMemberRole(by, b, u, role)
    BY <2>3, <2>4 DEF SetBoardMemberRole, UpsertBoardMember
  <2>5. CASE \E i \in Invitations : ConsumeInvitation(by, i)
    BY <2>3, <2>5 DEF ConsumeInvitation
  <2>6. QED
    BY <1>4, <2>1, <2>2, <2>4, <2>5 DEF Requests, RevokeExpired, CreateBoard, RestoreBoard,
       CreateInvitation, RevokeInvitation, RevokeSession, InsertInvitation
<1>5. CASE \E b \in Boards : Agents(b)
  BY <1>5 DEF Agents, AgentCreateBoard, AgentBoardGranted, AgentRollBack
<1>6. CASE (\E k \in Sockets : Disconnect(k)) \/ Crash \/ Tick
  <2>1. CASE \E k \in Sockets : Disconnect(k)
    BY <2>1 DEF Disconnect
  <2>2. CASE Crash
    BY <2>2 DEF Crash, Close
  <2>3. CASE Tick
    BY <2>3 DEF Tick
  <2>4. QED
    BY <1>6, <2>1, <2>2, <2>3
<1>7. CASE \E a, u \in Logins, disable \in BOOLEAN : SetUserDisabled(a, u, disable)
  BY <1>7 DEF SetUserDisabled, RevokeSessionsForUser
<1>8. QED
  BY <1>1, <1>2, <1>3, <1>4, <1>5, <1>6, <1>7 DEF Next

-----------------------------------------------------------------------------
(* Types.                                                                  *)

\* A registration or login in progress is somebody's.
LEMMA CallerIsKnown ==
  ASSUME IInv, NEW c \in Calls, call[c].kind # "none"
  PROVE  call[c].login \in Logins
BY DEF IInv, Registered

LEMMA PeopleTyped ==
  ASSUME IInv, [Next]_vars
  PROVE  account' \in [Logins -> {"none", "active", "disabled"}] /\ admin' \subseteq Logins
<1>0. account \in [Logins -> {"none", "active", "disabled"}] /\ admin \subseteq Logins
  BY DEF IInv, TypeOK
<1>1. ASSUME NEW c \in Calls, NEW s \in Sessions, FinishRegister(c, s)
      PROVE  account' \in [Logins -> {"none", "active", "disabled"}] /\ admin' \subseteq Logins
  <2>1. call[c].login \in Logins
    BY <1>1, CallerIsKnown DEF FinishRegister, InsertUser
  <2>2. QED
    BY <1>0, <1>1, <2>1 DEF FinishRegister, InsertUser
<1>2. ASSUME NEW a \in Logins, NEW u \in Logins, NEW disable \in BOOLEAN, SetUserDisabled(a, u, disable)
      PROVE  account' \in [Logins -> {"none", "active", "disabled"}] /\ admin' \subseteq Logins
  BY <1>0, <1>2 DEF SetUserDisabled, RevokeSessionsForUser
<1>3. QED
  BY <1>0, <1>1, <1>2, PeopleChange DEF people

\* A row that is inserted expires within the bound on time.
LEMMA TimesAdd ==
  ASSUME AccountsAssumption, IInv
  PROVE  clock + SessionTtl \in Times /\ clock + InvitationTtl \in Times
BY DEF AccountsAssumption, IInv, TypeOK, Times

SessionRows == [user : Logins \cup {Nothing}, expiresAt : Times, revoked : BOOLEAN]

LEMMA InsertedTyped ==
  ASSUME AccountsAssumption, IInv, NEW u \in Logins, NEW s \in Sessions, InsertSession(s, u)
  PROVE  session' \in [Sessions -> SessionRows]
BY TimesAdd DEF InsertSession, SessionRows, IInv, TypeOK

LEMMA RevokedTyped ==
  ASSUME NEW row \in SessionRows
  PROVE  /\ [row EXCEPT !.revoked = TRUE] \in SessionRows
         /\ [row EXCEPT !.revoked = TRUE].user = row.user
         /\ [row EXCEPT !.revoked = TRUE].expiresAt = row.expiresAt
         /\ [row EXCEPT !.revoked = TRUE].revoked = TRUE
BY DEF SessionRows

LEMMA SessionsTyped ==
  ASSUME AccountsAssumption, IInv, [Next]_vars
  PROVE  session' \in [Sessions -> SessionRows]
<1>0. session \in [Sessions -> SessionRows]
  BY DEF IInv, TypeOK, SessionRows
<1>1. ASSUME NEW c \in Calls, NEW s \in Sessions, FinishRegister(c, s) \/ FinishLogin(c, s)
      PROVE  session' \in [Sessions -> SessionRows]
  <2>1. call[c].login \in Logins
    BY <1>1, CallerIsKnown DEF FinishRegister, FinishLogin, InsertUser
  <2>2. InsertSession(s, call[c].login)
    BY <1>1 DEF FinishRegister, FinishLogin, Grant, InsertUser
  <2>3. QED
    BY <2>1, <2>2, InsertedTyped
<1>2. ASSUME NEW s \in Sessions, RevokeExpired(s) \/ Logout(s)
      PROVE  session' \in [Sessions -> SessionRows]
  <2>1. session' = [session EXCEPT ![s] = [session[s] EXCEPT !.revoked = TRUE]]
    BY <1>2, Zenon DEF RevokeExpired, Logout, RevokeSession
  <2>2. [session[s] EXCEPT !.revoked = TRUE] \in SessionRows
    BY <1>0, RevokedTyped
  <2>3. QED
    BY <1>0, <2>1, <2>2
<1>3. ASSUME NEW a \in Logins, NEW u \in Logins, NEW disable \in BOOLEAN, SetUserDisabled(a, u, disable)
      PROVE  session' \in [Sessions -> SessionRows]
  <2>1. \A s \in Sessions : [session[s] EXCEPT !.revoked = TRUE] \in SessionRows
    BY <1>0, RevokedTyped
  <2>2. CASE disable
    <3>1. session' = [s \in Sessions |->
            IF session[s].user = u THEN [session[s] EXCEPT !.revoked = TRUE] ELSE session[s]]
      BY <1>3, <2>2, Zenon DEF SetUserDisabled, RevokeSessionsForUser
    <3>2. QED
      BY <1>0, <2>1, <3>1
  <2>3. CASE ~disable
    <3>1. session' = session
      BY <1>3, <2>3 DEF SetUserDisabled
    <3>2. QED
      BY <1>0, <3>1
  <2>4. QED
    BY <2>2, <2>3
<1>4. QED
  BY <1>0, <1>1, <1>2, <1>3, SessionChanges

InvitationRows ==
  [state : {"none", "open", "consumed", "revoked"}, creator : Logins \cup {Nothing},
   board : Boards \cup {Nothing}, role : Roles, login : Logins \cup {Nothing},
   expiresAt : Times, consumer : Logins \cup {Nothing}]

\* Of the role somebody has and the one of the invitation, the higher.
LEMMA InvitedRoleIsHigher ==
  ASSUME NEW current \in Roles, NEW invited \in Roles
  PROVE  /\ InvitedRole(current, invited) \in {current, invited}
         /\ InvitedRole(current, invited) \in Roles
         /\ Rank(InvitedRole(current, invited)) >= Rank(current)
         /\ current = "owner" => InvitedRole(current, invited) = "owner"
BY DEF InvitedRole, Rank, Roles

\* What using an invitation does to its row.
LEMMA ConsumedRow ==
  ASSUME IInv, NEW i \in Invitations, NEW u \in Logins, Consume(i, u)
  PROVE  /\ invitation' \in [Invitations -> InvitationRows]
         /\ \A j \in Invitations \ {i} : invitation'[j] = invitation[j]
         /\ invitation'[i].state = "consumed" /\ invitation'[i].consumer = u
         /\ invitation'[i].role = invitation[i].role
         /\ invitation'[i].board = invitation[i].board
         /\ invitation'[i].login = invitation[i].login
<1> DEFINE row == [invitation[i] EXCEPT !.state = "consumed", !.consumer = u]
<1>1. invitation \in [Invitations -> InvitationRows]
  BY DEF IInv, TypeOK, InvitationRows
<1>2. invitation' = [invitation EXCEPT ![i].state = "consumed", ![i].consumer = u]
  BY DEF Consume
<1>3. invitation' = [invitation EXCEPT ![i] = row]
  BY <1>1, <1>2
<1>4. row \in InvitationRows
  BY <1>1 DEF InvitationRows
<1>5. /\ row.state = "consumed" /\ row.consumer = u
      /\ row.role = invitation[i].role
      /\ row.board = invitation[i].board
      /\ row.login = invitation[i].login
  BY <1>1 DEF InvitationRows
<1> HIDE DEF row
<1>6. QED
  BY <1>1, <1>3, <1>4, <1>5

\* And to the members: one role may rise.
LEMMA ConsumedRole ==
  ASSUME IInv, NEW i \in Invitations, NEW u \in Logins, Consume(i, u)
  PROVE  /\ member' \in [Boards -> [Logins -> Roles]]
         /\ \A b \in Boards, v \in Logins :
              member'[b][v] = IF b = invitation[i].board /\ v = u
                              THEN InvitedRole(member[b][u], invitation[i].role)
                              ELSE member[b][v]
<1>1. member \in [Boards -> [Logins -> Roles]] /\ invitation[i].role \in Roles
  BY DEF IInv, TypeOK
<1>2. member' = [b \in Boards |->
        IF b = invitation[i].board
        THEN [member[b] EXCEPT ![u] = InvitedRole(@, invitation[i].role)]
        ELSE member[b]]
  BY DEF Consume
<1>3. \A b \in Boards : InvitedRole(member[b][u], invitation[i].role) \in Roles
  BY <1>1, InvitedRoleIsHigher
<1>4. QED
  BY <1>1, <1>2, <1>3

\* The invitation that a registration brings, when it brings one.
LEMMA RegisteredInvitation ==
  ASSUME IInv, NEW c \in Calls, call[c].invitation # Nothing
  PROVE  call[c].invitation \in Invitations
BY DEF IInv, TypeOK

LEMMA InvitationsTyped ==
  ASSUME AccountsAssumption, IInv, [Next]_vars
  PROVE  invitation' \in [Invitations -> InvitationRows]
<1>0. invitation \in [Invitations -> InvitationRows]
  BY DEF IInv, TypeOK, InvitationRows
<1>u. \A s \in Sessions : Current(s) => session[s].user \in Logins
  BY DEF IInv, TypeOK, Current, Active
<1>1. ASSUME NEW c \in Calls, NEW s \in Sessions, FinishRegister(c, s)
      PROVE  invitation' \in [Invitations -> InvitationRows]
  <2>1. call[c].login \in Logins
    BY <1>1, CallerIsKnown DEF FinishRegister, InsertUser
  <2>2. CASE call[c].invitation = Nothing
    BY <1>0, <1>1, <2>2 DEF FinishRegister, InsertUser
  <2>3. CASE call[c].invitation # Nothing
    BY <1>1, <2>1, <2>3, RegisteredInvitation, ConsumedRow DEF FinishRegister, InsertUser
  <2>4. QED
    BY <2>2, <2>3
<1>2. ASSUME NEW by \in Sessions, NEW i \in Invitations, NEW b \in Boards \cup {Nothing},
             NEW role \in Roles, NEW u \in Logins \cup {Nothing}, CreateInvitation(by, i, b, role, u)
      PROVE  invitation' \in [Invitations -> InvitationRows]
  BY <1>0, <1>u, <1>2, TimesAdd DEF CreateInvitation, InvitationRows, InsertInvitation
<1>3. ASSUME NEW by \in Sessions, NEW i \in Invitations, ConsumeInvitation(by, i)
      PROVE  invitation' \in [Invitations -> InvitationRows]
  BY <1>u, <1>3, ConsumedRow DEF ConsumeInvitation
<1>4. ASSUME NEW by \in Sessions, NEW i \in Invitations, RevokeInvitation(by, i)
      PROVE  invitation' \in [Invitations -> InvitationRows]
  BY <1>0, <1>4 DEF RevokeInvitation, InvitationRows
<1>5. QED
  BY <1>0, <1>1, <1>2, <1>3, <1>4, InvitationChanges

\* A new board has its maker as its owner, and nothing else changes.
LEMMA NewBoardRows ==
  ASSUME IInv, NEW b \in Boards, NEW u \in Logins, NewBoard(b, u)
  PROVE  /\ owner[b] = Nothing
         /\ owner' \in [Boards -> Logins \cup {Nothing}]
         /\ member' \in [Boards -> [Logins -> Roles]]
         /\ \A d \in Boards : owner'[d] = IF d = b THEN u ELSE owner[d]
         /\ \A d \in Boards, v \in Logins :
              member'[d][v] = IF d = b /\ v = u THEN "owner" ELSE member[d][v]
<1>1. /\ member \in [Boards -> [Logins -> Roles]]
      /\ owner \in [Boards -> Logins \cup {Nothing}]
  BY DEF IInv, TypeOK
<1>2. QED
  BY <1>1 DEF NewBoard, Roles, InsertBoard, UpsertBoardMember

\* Adoption gives boards that did not exist to the administrator.
LEMMA AdoptedRows ==
  ASSUME IInv, NEW c \in Calls, NEW found \in SUBSET LegacyBoards, AdoptLegacyBoards(c, found)
  PROVE  /\ owner' \in [Boards -> Logins \cup {Nothing}]
         /\ member' \in [Boards -> [Logins -> Roles]]
         /\ call[c].login \in Logins
         /\ \A d \in Boards :
              \/ owner'[d] = owner[d] /\ \A v \in Logins : member'[d][v] = member[d][v]
              \/ /\ owner[d] = Nothing
                 /\ owner'[d] = call[c].login
                 /\ \A v \in Logins :
                      member'[d][v] = IF v = call[c].login THEN "owner" ELSE member[d][v]
<1>1. /\ member \in [Boards -> [Logins -> Roles]]
      /\ owner \in [Boards -> Logins \cup {Nothing}]
  BY DEF IInv, TypeOK
<1>2. call[c].login \in Logins
  BY CallerIsKnown DEF AdoptLegacyBoards
<1> DEFINE u == call[c].login
           adopted == {b \in found : owner[b] = Nothing}
<1>3. /\ owner' = [b \in Boards |-> IF b \in adopted THEN u ELSE owner[b]]
      /\ member' = [b \in Boards |->
           IF b \in adopted THEN [member[b] EXCEPT ![u] = "owner"] ELSE member[b]]
  BY DEF AdoptLegacyBoards
<1>4. \A b \in adopted : owner[b] = Nothing
  OBVIOUS
<1>5. u \in Logins
  BY <1>2
<1> HIDE DEF adopted, u
<1>6. \A d \in Boards :
        \/ owner'[d] = owner[d] /\ \A v \in Logins : member'[d][v] = member[d][v]
        \/ /\ owner[d] = Nothing
           /\ owner'[d] = u
           /\ \A v \in Logins : member'[d][v] = IF v = u THEN "owner" ELSE member[d][v]
  BY <1>1, <1>3, <1>4, <1>5
<1>7. owner' \in [Boards -> Logins \cup {Nothing}] /\ member' \in [Boards -> [Logins -> Roles]]
  BY <1>1, <1>3, <1>5 DEF Roles
<1>8. QED
  BY <1>2, <1>6, <1>7 DEF u

LEMMA MembersTyped ==
  ASSUME IInv, [Next]_vars
  PROVE  /\ owner' \in [Boards -> Logins \cup {Nothing}]
         /\ member' \in [Boards -> [Logins -> Roles]]
<1>0. /\ member \in [Boards -> [Logins -> Roles]]
      /\ owner \in [Boards -> Logins \cup {Nothing}]
  BY DEF IInv, TypeOK
<1>u. \A s \in Sessions : Current(s) => session[s].user \in Logins
  BY DEF IInv, TypeOK, Current, Active
<1> DEFINE Typed == /\ owner' \in [Boards -> Logins \cup {Nothing}]
                    /\ member' \in [Boards -> [Logins -> Roles]]
<1>1. ASSUME NEW c \in Calls, NEW s \in Sessions, FinishRegister(c, s)
      PROVE  Typed
  <2>1. call[c].login \in Logins
    BY <1>1, CallerIsKnown DEF FinishRegister, InsertUser
  <2>2. CASE call[c].invitation = Nothing
    BY <1>0, <1>1, <2>2 DEF FinishRegister, InsertUser
  <2>3. CASE call[c].invitation # Nothing
    BY <1>0, <1>1, <2>1, <2>3, RegisteredInvitation, ConsumedRole DEF FinishRegister, InsertUser
  <2>4. QED
    BY <2>2, <2>3
<1>2. ASSUME NEW c \in Calls, NEW found \in SUBSET LegacyBoards, AdoptLegacyBoards(c, found)
      PROVE  Typed
  BY <1>2, AdoptedRows
<1>3. ASSUME NEW by \in Sessions, NEW b \in Boards, CreateBoard(by, b)
      PROVE  Typed
  BY <1>u, <1>3, NewBoardRows DEF CreateBoard
<1>4. ASSUME NEW u \in Logins, NEW b \in Boards, AgentCreateBoard(u, b)
      PROVE  Typed
  BY <1>4, NewBoardRows DEF AgentCreateBoard
<1>5. ASSUME NEW by \in Sessions, NEW b \in Boards, NEW u \in Logins, NEW role \in Roles,
             SetBoardMemberRole(by, b, u, role)
      PROVE  Typed
  BY <1>0, <1>5 DEF SetBoardMemberRole, UpsertBoardMember
<1>6. ASSUME NEW by \in Sessions, NEW i \in Invitations, ConsumeInvitation(by, i)
      PROVE  Typed
  BY <1>0, <1>u, <1>6, ConsumedRole DEF ConsumeInvitation
<1>7. QED
  BY <1>0, <1>1, <1>2, <1>3, <1>4, <1>5, <1>6, MemberChanges

Admissions == [board : Boards, session : Sessions, role : Roles \ {"none"}]

LEMMA ConnectionsTyped ==
  ASSUME IInv, [Next]_vars
  PROVE  connection' \in [Sockets -> Admissions \cup {Nothing}]
<1>0. connection \in [Sockets -> Admissions \cup {Nothing}]
  BY DEF IInv, TypeOK, Admissions
<1>1. ASSUME NEW k \in Sockets, NEW by \in Sessions, NEW b \in Boards, Connect(k, by, b)
      PROVE  connection' \in [Sockets -> Admissions \cup {Nothing}]
  <2>1. member[b][session[by].user] \in Roles \ {"none"}
    <3>1. session[by].user \in Logins /\ member \in [Boards -> [Logins -> Roles]]
      BY <1>1 DEF IInv, TypeOK, Connect, MayJoin, Current, Active
    <3>2. QED
      BY <1>1, <3>1 DEF Connect, MayJoin
  <2>2. QED
    BY <1>0, <1>1, <2>1 DEF Connect, Admissions
<1>2. ASSUME NEW closing \in SUBSET Sockets, Close(closing)
      PROVE  connection' \in [Sockets -> Admissions \cup {Nothing}]
  BY <1>0, <1>2 DEF Close
<1>3. QED
  BY <1>0, <1>1, <1>2, ConnectionChanges

CallRows ==
  [kind : {"none", "register", "login", "adopt"}, login : Logins \cup {Nothing},
   invitation : Invitations \cup {Nothing}, seen : {"none", "active", "disabled"}]

\* What may happen to a call: it starts, returns or goes on to adopt.
LEMMA CallChanges ==
  ASSUME IInv, [Next]_vars
  PROVE  /\ call' \in [Calls -> CallRows]
         /\ \A c \in Calls :
              \/ call'[c] = call[c]
              \/ call'[c] = NoCall
              \/ /\ call'[c].kind \in {"register", "login"}
                 /\ call'[c].login \in Logins
                 /\ call'[c].seen = account[call'[c].login]
                 /\ UNCHANGED account
              \/ /\ call'[c].kind = "adopt"
                 /\ call'[c].login = call[c].login
                 /\ call'[c].login \in Logins
                 /\ \E s \in Sessions : FinishRegister(c, s) \/ FinishLogin(c, s)
<1> DEFINE Typed == call' \in [Calls -> CallRows]
           Started(d) == /\ call'[d].kind \in {"register", "login"}
                         /\ call'[d].login \in Logins
                         /\ call'[d].seen = account[call'[d].login]
                         /\ UNCHANGED account
           GoesOn(d) == /\ call'[d].kind = "adopt"
                        /\ call'[d].login = call[d].login
                        /\ call'[d].login \in Logins
                        /\ \E s \in Sessions : FinishRegister(d, s) \/ FinishLogin(d, s)
           Changed(c) == call'[c] = call[c] \/ call'[c] = NoCall \/ Started(c) \/ GoesOn(c)
           Step == Typed /\ \A c \in Calls : Changed(c)
<1>0. call \in [Calls -> CallRows]
  BY DEF IInv, TypeOK, CallRows
<1>n. NoCall \in CallRows
  BY DEF NoCall, CallRows
<1>s. UNCHANGED call => Step
  BY <1>0
<1>r. ASSUME NEW d \in Calls, Return(d)
      PROVE  Step
  BY <1>0, <1>n, <1>r DEF Return
<1>1. CASE UNCHANGED vars
  BY <1>1, <1>s DEF vars
<1>2. ASSUME NEW d \in Calls, NEW u \in Logins, NEW i \in Invitations \cup {Nothing}, NEW kind \in {"register", "login"},
             Await(d, kind, u, i)
      PROVE  Step
  <2> DEFINE row == [kind |-> kind, login |-> u, invitation |-> i, seen |-> account[u]]
  <2>1. row \in CallRows
    BY DEF IInv, TypeOK, CallRows
  <2>2. call' = [call EXCEPT ![d] = row] /\ UNCHANGED account
    BY <1>2 DEF Await, people
  <2>3. row.kind \in {"register", "login"} /\ row.login = u /\ row.seen = account[u]
    OBVIOUS
  <2> HIDE DEF row
  <2>4. QED
    BY <1>0, <2>1, <2>2, <2>3
<1>3. ASSUME NEW d \in Calls, NEW s \in Sessions, FinishRegister(d, s) \/ FinishLogin(d, s)
      PROVE  Step
  <2>1. call[d].login \in Logins
    BY <1>3, CallerIsKnown DEF FinishRegister, FinishLogin, InsertUser
  <2> DEFINE row == [NoCall EXCEPT !.kind = "adopt", !.login = call[d].login]
  <2>2. row \in CallRows /\ row.kind = "adopt" /\ row.login = call[d].login
    BY <2>1 DEF NoCall, CallRows
  <2>3. Return(d) \/ call' = [call EXCEPT ![d] = row]
    BY <1>3 DEF FinishRegister, FinishLogin, Grant, InsertUser
  <2> HIDE DEF row
  <2>4. CASE call' = [call EXCEPT ![d] = row]
    <3>1. Typed
      BY <1>0, <2>2, <2>4
    <3>2. GoesOn(d)
      BY <1>0, <1>3, <2>1, <2>2, <2>4
    <3>3. \A c \in Calls \ {d} : call'[c] = call[c]
      BY <1>0, <2>4
    <3>4. QED
      BY <3>1, <3>2, <3>3
  <2>5. QED
    BY <1>r, <2>3, <2>4
<1>4. CASE \E d \in Calls : Asks(d)
  BY <1>2, <1>4 DEF Asks, StartLogin, StartRegister
<1>5. CASE \E d \in Calls : Answers(d)
  BY <1>3, <1>5, <1>r DEF Answers, RefuseRegister, RefuseLogin, AdoptLegacyBoards
<1>6. CASE \E by \in Sessions : Requests(by)
  BY <1>6, <1>s DEF Requests, CreateBoard, DeleteBoard, RestoreBoard, RevokeExpired, Logout,
     SetBoardMemberRole, Connect, CreateInvitation, ConsumeInvitation, RevokeInvitation,
     RevokeSession, UpsertBoardMember, InsertInvitation
<1>7. CASE \E b \in Boards : Agents(b)
  BY <1>7, <1>s DEF Agents, AgentCreateBoard, AgentBoardGranted, AgentRollBack
<1>8. CASE (\E k \in Sockets : Disconnect(k)) \/ Tick
  BY <1>8, <1>s DEF Disconnect, Tick
<1>9. CASE Crash
  BY <1>9, <1>n DEF Crash
<1>10. CASE \E a, u \in Logins, disable \in BOOLEAN : SetUserDisabled(a, u, disable)
  BY <1>10, <1>s DEF SetUserDisabled, RevokeSessionsForUser
<1>11. QED
  BY <1>1, <1>4, <1>5, <1>6, <1>7, <1>8, <1>9, <1>10 DEF Next

LEMMA RestTyped ==
  ASSUME AccountsAssumption, IInv, [Next]_vars
  PROVE  deleted' \subseteq Boards /\ unconfirmed' \subseteq Boards /\ clock' \in 0 .. MaxTime
<1> DEFINE Rest == deleted' \subseteq Boards /\ unconfirmed' \subseteq Boards /\ clock' \in 0 .. MaxTime
<1>0. deleted \subseteq Boards /\ unconfirmed \subseteq Boards /\ clock \in 0 .. MaxTime
  BY DEF IInv, TypeOK
<1>1. CASE UNCHANGED vars
  BY <1>0, <1>1 DEF vars, boards
<1>2. CASE \E c \in Calls : Asks(c)
  BY <1>0, <1>2 DEF Asks, StartLogin, StartRegister, Await, boards
<1>3. CASE \E c \in Calls : Answers(c)
  BY <1>0, <1>3 DEF Answers, RefuseRegister, RefuseLogin, FinishLogin, FinishRegister,
     AdoptLegacyBoards, boards, InsertUser
<1>4. CASE \E by \in Sessions : Requests(by)
  BY <1>0, <1>4 DEF Requests, CreateBoard, DeleteBoard, RestoreBoard, RevokeExpired, Logout,
     SetBoardMemberRole, Connect, CreateInvitation, ConsumeInvitation, RevokeInvitation, boards,
     RevokeSession, UpsertBoardMember, InsertInvitation
<1>5. CASE \E b \in Boards : Agents(b)
  BY <1>0, <1>5 DEF Agents, AgentCreateBoard, AgentBoardGranted, AgentRollBack, boards
<1>6. CASE (\E k \in Sockets : Disconnect(k)) \/ Crash
  BY <1>0, <1>6 DEF Disconnect, Crash, boards
<1>7. CASE Tick
  <2>1. clock' \in 0 .. MaxTime
    BY <1>0, <1>7 DEF Tick, AccountsAssumption
  <2>2. deleted' = deleted /\ unconfirmed' = unconfirmed
    BY <1>7 DEF Tick, boards
  <2>3. QED
    BY <1>0, <2>1, <2>2
<1>8. CASE \E a, u \in Logins, disable \in BOOLEAN : SetUserDisabled(a, u, disable)
  BY <1>0, <1>8 DEF SetUserDisabled, boards, RevokeSessionsForUser
<1>9. QED
  BY <1>1, <1>2, <1>3, <1>4, <1>5, <1>6, <1>7, <1>8 DEF Next

LEMMA TypeStep ==
  ASSUME AccountsAssumption, IInv, [Next]_vars
  PROVE  TypeOK'
<1>1. session' \in [Sessions -> [user : Logins \cup {Nothing}, expiresAt : Times, revoked : BOOLEAN]]
  BY SessionsTyped DEF SessionRows
<1>2. invitation' \in
        [Invitations ->
          [state : {"none", "open", "consumed", "revoked"}, creator : Logins \cup {Nothing},
           board : Boards \cup {Nothing}, role : Roles, login : Logins \cup {Nothing},
           expiresAt : Times, consumer : Logins \cup {Nothing}]]
  BY InvitationsTyped DEF InvitationRows
<1>3. connection' \in
        [Sockets -> [board : Boards, session : Sessions, role : Roles \ {"none"}] \cup {Nothing}]
  BY ConnectionsTyped DEF Admissions
<1>4. call' \in
        [Calls ->
          [kind : {"none", "register", "login", "adopt"}, login : Logins \cup {Nothing},
           invitation : Invitations \cup {Nothing}, seen : {"none", "active", "disabled"}]]
  BY CallChanges DEF CallRows
<1>5. QED
  BY <1>1, <1>2, <1>3, <1>4, PeopleTyped, MembersTyped, RestTyped DEF TypeOK

-----------------------------------------------------------------------------
(* Accounts and sign-ins.                                                  *)

\* An account is never forgotten, and the first one is the administrator.
LEMMA AccountsStay ==
  ASSUME IInv, [Next]_vars
  PROVE  /\ \A u \in Logins : account[u] # "none" => account'[u] # "none"
         /\ NoAccounts' => NoAccounts /\ admin' = admin
<1>0. account \in [Logins -> {"none", "active", "disabled"}]
  BY DEF IInv, TypeOK
<1>1. CASE UNCHANGED people
  BY <1>1 DEF people, NoAccounts
<1>2. ASSUME NEW c \in Calls, NEW s \in Sessions, FinishRegister(c, s)
      PROVE  /\ \A u \in Logins : account[u] # "none" => account'[u] # "none"
             /\ ~NoAccounts'
  <2>1. call[c].login \in Logins
    BY <1>2, CallerIsKnown DEF FinishRegister, InsertUser
  <2>2. account' = [account EXCEPT ![call[c].login] = "active"]
    BY <1>2 DEF FinishRegister, InsertUser
  <2>3. QED
    BY <1>0, <2>1, <2>2 DEF NoAccounts
<1>3. ASSUME NEW a \in Logins, NEW u \in Logins, NEW disable \in BOOLEAN, SetUserDisabled(a, u, disable)
      PROVE  /\ \A v \in Logins : account[v] # "none" => account'[v] # "none"
             /\ ~NoAccounts'
  BY <1>0, <1>3 DEF SetUserDisabled, NoAccounts, RevokeSessionsForUser
<1>4. QED
  BY <1>1, <1>2, <1>3, PeopleChange

\* A row of the sessions table keeps its user and its time, and is only ever
\* revoked; a free one is taken for somebody with an account.
LEMMA SessionsStay ==
  ASSUME AccountsAssumption, IInv, [Next]_vars, NEW s \in Sessions
  PROVE  \/ /\ session'[s].user = session[s].user
            /\ session'[s].expiresAt = session[s].expiresAt
            /\ session[s].revoked => session'[s].revoked
         \/ /\ session[s].user = Nothing
            /\ session'[s].user \in Logins
            /\ account'[session'[s].user] # "none"
<1> DEFINE Kept(t) == /\ session'[t].user = session[t].user
                      /\ session'[t].expiresAt = session[t].expiresAt
                      /\ session[t].revoked => session'[t].revoked
           Taken(t) == /\ session[t].user = Nothing
                       /\ session'[t].user \in Logins
                       /\ account'[session'[t].user] # "none"
<1>0. session \in [Sessions -> SessionRows]
  BY DEF IInv, TypeOK, SessionRows
<1>1. CASE UNCHANGED session
  BY <1>1
<1>2. ASSUME NEW c \in Calls, NEW t \in Sessions, FinishRegister(c, t) \/ FinishLogin(c, t)
      PROVE  Kept(s) \/ Taken(s)
  <2> DEFINE u == call[c].login
  <2>1. u \in Logins
    BY <1>2, CallerIsKnown DEF FinishRegister, FinishLogin, InsertUser
  <2>2. account'[u] # "none"
    <3>1. CASE FinishRegister(c, t)
      <4>1. account' = [account EXCEPT ![u] = "active"]
        BY <3>1 DEF FinishRegister, InsertUser
      <4>2. QED
        BY <2>1, <4>1 DEF IInv, TypeOK
    <3>2. CASE FinishLogin(c, t)
      <4>1. account[u] # "none"
        BY <3>2 DEF FinishLogin, MayLogin, IInv, Registered
      <4>2. QED
        BY <2>1, <4>1, AccountsStay
    <3>3. QED
      BY <1>2, <3>1, <3>2
  <2>3. InsertSession(t, u)
    BY <1>2 DEF FinishRegister, FinishLogin, Grant, InsertUser
  <2>4. session[t].user = Nothing /\ session'[t].user = u /\ \A r \in Sessions \ {t} : session'[r] = session[r]
    BY <1>0, <2>3 DEF InsertSession
  <2> HIDE DEF u
  <2>5. QED
    BY <2>1, <2>2, <2>4
<1>3. ASSUME NEW t \in Sessions, RevokeExpired(t) \/ Logout(t)
      PROVE  Kept(s)
  <2>1. session' = [session EXCEPT ![t] = [session[t] EXCEPT !.revoked = TRUE]]
    BY <1>3, Zenon DEF RevokeExpired, Logout, RevokeSession
  <2>2. \A r \in Sessions : session'[r] = session[r] \/ session'[r] = [session[r] EXCEPT !.revoked = TRUE]
    BY <1>0, <2>1
  <2>3. QED
    BY <1>0, <2>2, RevokedTyped
<1>4. ASSUME NEW a \in Logins, NEW u \in Logins, NEW disable \in BOOLEAN, SetUserDisabled(a, u, disable)
      PROVE  Kept(s)
  <2>1. \A r \in Sessions : session'[r] = session[r] \/ session'[r] = [session[r] EXCEPT !.revoked = TRUE]
    <3>1. CASE disable
      <4>1. session' = [r \in Sessions |->
              IF session[r].user = u THEN [session[r] EXCEPT !.revoked = TRUE] ELSE session[r]]
        BY <1>4, <3>1, Zenon DEF SetUserDisabled, RevokeSessionsForUser
      <4>2. QED
        BY <1>0, <4>1
    <3>2. CASE ~disable
      BY <1>4, <3>2 DEF SetUserDisabled
    <3>3. QED
      BY <3>1, <3>2
  <2>2. QED
    BY <1>0, <2>1, RevokedTyped
<1>5. QED
  BY <1>1, <1>2, <1>3, <1>4, SessionChanges

LEMMA RegisteredStep ==
  ASSUME AccountsAssumption, IInv, [Next]_vars
  PROVE  Registered'
<1>1. NoAccounts' => admin' = {}
  BY AccountsStay DEF IInv, Registered
<1>2. ASSUME NEW s \in Sessions, session'[s].user # Nothing
      PROVE  account'[session'[s].user] # "none"
  <2>1. session[s].user \in Logins \cup {Nothing}
    BY DEF IInv, TypeOK
  <2>2. QED
    BY <1>2, <2>1, SessionsStay, AccountsStay DEF IInv, Registered
<1>3. ASSUME NEW c \in Calls
      PROVE  /\ call'[c].kind # "none" => call'[c].login \in Logins
             /\ call'[c].kind = "adopt" => account'[call'[c].login] # "none"
             /\ call'[c].kind = "login" /\ call'[c].seen # "none" => account'[call'[c].login] # "none"
  <2>1. CASE call'[c] = call[c]
    BY <2>1, CallerIsKnown, AccountsStay DEF IInv, Registered
  <2>2. CASE call'[c] = NoCall
    BY <2>2 DEF NoCall
  <2>3. CASE /\ call'[c].kind \in {"register", "login"}
             /\ call'[c].login \in Logins
             /\ call'[c].seen = account[call'[c].login]
             /\ UNCHANGED account
    BY <2>3
  <2>4. CASE /\ call'[c].kind = "adopt"
             /\ call'[c].login = call[c].login
             /\ call'[c].login \in Logins
             /\ \E s \in Sessions : FinishRegister(c, s) \/ FinishLogin(c, s)
    <3>1. account'[call[c].login] # "none"
      <4>1. CASE \E s \in Sessions : FinishRegister(c, s)
        BY <2>4, <4>1 DEF FinishRegister, IInv, TypeOK, InsertUser
      <4>2. CASE \E s \in Sessions : FinishLogin(c, s)
        BY <2>4, <4>2, AccountsStay DEF FinishLogin, MayLogin, IInv, Registered
      <4>3. QED
        BY <2>4, <4>1, <4>2
    <3>2. QED
      BY <2>4, <3>1
  <2>5. QED
    BY <2>1, <2>2, <2>3, <2>4, CallChanges
<1>4. QED
  BY <1>1, <1>2, <1>3 DEF Registered

\* The administrator is whoever registered when nobody had, and does not
\* disable themselves.
LEMMA OneAdminStep ==
  ASSUME IInv, [Next]_vars
  PROVE  OneAdmin'
<1>0. account \in [Logins -> {"none", "active", "disabled"}] /\ admin \subseteq Logins
  BY DEF IInv, TypeOK
<1>1. CASE UNCHANGED people
  BY <1>1 DEF people, IInv, OneAdmin, NoAccounts
<1>2. ASSUME NEW c \in Calls, NEW s \in Sessions, FinishRegister(c, s)
      PROVE  OneAdmin'
  <2> DEFINE u == call[c].login
  <2>1. u \in Logins
    BY <1>2, CallerIsKnown DEF FinishRegister, InsertUser
  <2>2. /\ account[u] = "none"
        /\ account' = [account EXCEPT ![u] = "active"]
        /\ admin' = IF NoAccounts THEN admin \cup {u} ELSE admin
    BY <1>2 DEF FinishRegister, MayRegister, InsertUser
  <2> HIDE DEF u
  <2>3. CASE NoAccounts
    <3>1. admin' = {u}
      BY <2>2, <2>3 DEF IInv, Registered
    <3>2. account'[u] = "active"
      BY <1>0, <2>1, <2>2
    <3>3. QED
      BY <2>1, <3>1, <3>2 DEF OneAdmin
  <2>4. CASE ~NoAccounts
    <3>1. PICK a \in Logins : admin = {a} /\ account[a] = "active"
      BY <2>4 DEF IInv, OneAdmin
    <3>2. account'[a] = "active"
      BY <1>0, <2>1, <2>2, <3>1
    <3>3. QED
      BY <2>2, <2>4, <3>1, <3>2 DEF OneAdmin
  <2>5. QED
    BY <2>3, <2>4
<1>3. ASSUME NEW a \in Logins, NEW u \in Logins, NEW disable \in BOOLEAN, SetUserDisabled(a, u, disable)
      PROVE  OneAdmin'
  <2>1. a \in admin /\ account[a] = "active" /\ (disable => a # u)
    BY <1>3 DEF SetUserDisabled, MaySetDisabled, Active, RevokeSessionsForUser
  <2>2. admin = {a}
    BY <2>1 DEF IInv, OneAdmin, NoAccounts
  <2>3. account' = [account EXCEPT ![u] = IF disable THEN "disabled" ELSE "active"] /\ admin' = admin
    BY <1>3 DEF SetUserDisabled, RevokeSessionsForUser
  <2>4. account'[a] = "active"
    BY <1>0, <2>1, <2>3
  <2>5. QED
    BY <2>2, <2>3, <2>4 DEF OneAdmin
<1>4. QED
  BY <1>1, <1>2, <1>3, PeopleChange

-----------------------------------------------------------------------------
(* Boards and their members.                                               *)

\* An invitation that is used is one to a role below owner, on a board that
\* exists if it names one.
LEMMA SharedStep ==
  ASSUME AccountsAssumption, IInv, [Next]_vars
  PROVE  Shared'
<1>0. /\ member \in [Boards -> [Logins -> Roles]]
      /\ owner \in [Boards -> Logins \cup {Nothing}]
      /\ invitation \in [Invitations -> InvitationRows]
  BY DEF IInv, TypeOK, InvitationRows
<1>u. \A s \in Sessions : Current(s) => session[s].user \in Logins
  BY DEF IInv, TypeOK, Current, Active
<1>n. Nothing \notin Logins
  BY DEF AccountsAssumption
<1>1. \A b \in Boards : owner[b] # Nothing => owner'[b] = owner[b]
  <2>1. CASE UNCHANGED <<owner, member>>
    BY <2>1
  <2>2. CASE \E c \in Calls, s \in Sessions : FinishRegister(c, s)
    BY <2>2 DEF FinishRegister, InsertUser
  <2>3. CASE \E c \in Calls, found \in SUBSET LegacyBoards : AdoptLegacyBoards(c, found)
    BY <2>3, AdoptedRows
  <2>4. CASE \E by \in Sessions, b \in Boards : CreateBoard(by, b)
    BY <1>u, <2>4, NewBoardRows DEF CreateBoard
  <2>5. CASE \E u \in Logins, b \in Boards : AgentCreateBoard(u, b)
    BY <2>5, NewBoardRows DEF AgentCreateBoard
  <2>6. CASE \E by \in Sessions, b \in Boards, u \in Logins, role \in Roles :
               SetBoardMemberRole(by, b, u, role)
    BY <2>6 DEF SetBoardMemberRole, UpsertBoardMember
  <2>7. CASE \E by \in Sessions, i \in Invitations : ConsumeInvitation(by, i)
    BY <2>7 DEF ConsumeInvitation
  <2>8. QED
    BY <2>1, <2>2, <2>3, <2>4, <2>5, <2>6, <2>7, MemberChanges
<1>c. ASSUME NEW i \in Invitations, NEW u \in Logins, Consume(i, u), UNCHANGED owner
      PROVE  \A b \in Boards, v \in Logins : member'[b][v] # "none" => owner'[b] # Nothing
  <2>1. invitation[i].board # Nothing => owner[invitation[i].board] # Nothing
    BY DEF IInv, Shared
  <2>2. \A b \in Boards, v \in Logins :
          member'[b][v] = IF b = invitation[i].board /\ v = u
                          THEN InvitedRole(member[b][u], invitation[i].role)
                          ELSE member[b][v]
    BY <1>c, ConsumedRole
  <2>3. Nothing \notin Boards
    BY DEF AccountsAssumption
  <2>4. ASSUME NEW b \in Boards, NEW v \in Logins, member'[b][v] # "none"
        PROVE  owner[b] # Nothing
    <3>1. CASE b = invitation[i].board
      BY <2>1, <2>3, <3>1
    <3>2. CASE b # invitation[i].board
      <4>1. member'[b][v] = member[b][v]
        BY <2>2, <3>2
      <4>2. QED
        BY <2>4, <4>1 DEF IInv, Shared
    <3>3. QED
      BY <3>1, <3>2
  <2>5. QED
    BY <1>c, <2>4
<1>2. \A b \in Boards, u \in Logins : member'[b][u] # "none" => owner'[b] # Nothing
  <2>0. \A b \in Boards, u \in Logins : member[b][u] # "none" => owner[b] # Nothing
    BY DEF IInv, Shared
  <2>1. CASE UNCHANGED <<owner, member>>
    BY <2>0, <2>1
  <2>2. ASSUME NEW c \in Calls, NEW s \in Sessions, FinishRegister(c, s)
        PROVE  \A b \in Boards, u \in Logins : member'[b][u] # "none" => owner'[b] # Nothing
    <3>1. CASE call[c].invitation = Nothing
      BY <2>0, <2>2, <3>1 DEF FinishRegister, InsertUser
    <3>2. CASE call[c].invitation # Nothing
      <4>1. /\ call[c].invitation \in Invitations /\ call[c].login \in Logins
            /\ Consume(call[c].invitation, call[c].login)
            /\ UNCHANGED owner
        BY <2>2, <3>2, RegisteredInvitation, CallerIsKnown DEF FinishRegister, InsertUser
      <4>2. QED
        BY <1>c, <4>1
    <3>3. QED
      BY <3>1, <3>2
  <2>3. CASE \E c \in Calls, found \in SUBSET LegacyBoards : AdoptLegacyBoards(c, found)
    BY <1>n, <2>0, <2>3, AdoptedRows
  <2>4. CASE \E by \in Sessions, b \in Boards : CreateBoard(by, b)
    BY <1>n, <1>u, <2>0, <2>4, NewBoardRows DEF CreateBoard
  <2>5. CASE \E u \in Logins, b \in Boards : AgentCreateBoard(u, b)
    BY <1>n, <2>0, <2>5, NewBoardRows DEF AgentCreateBoard
  <2>6. ASSUME NEW by \in Sessions, NEW b \in Boards, NEW u \in Logins, NEW role \in Roles,
               SetBoardMemberRole(by, b, u, role)
        PROVE  \A d \in Boards, v \in Logins : member'[d][v] # "none" => owner'[d] # Nothing
    <3>1. owner[b] # Nothing
      <4>1. session[by].user \in Logins /\ member[b][session[by].user] = "owner"
        BY <1>u, <2>6 DEF SetBoardMemberRole, OwnsLive, UpsertBoardMember
      <4>2. QED
        BY <2>0, <4>1
    <3>2. member' = [member EXCEPT ![b][u] = role] /\ UNCHANGED owner
      BY <2>6 DEF SetBoardMemberRole, UpsertBoardMember
    <3>3. QED
      BY <1>0, <2>0, <3>1, <3>2
  <2>7. ASSUME NEW by \in Sessions, NEW i \in Invitations, ConsumeInvitation(by, i)
        PROVE  \A b \in Boards, u \in Logins : member'[b][u] # "none" => owner'[b] # Nothing
    BY <1>c, <1>u, <2>7 DEF ConsumeInvitation
  <2>8. QED
    BY <2>1, <2>2, <2>3, <2>4, <2>5, <2>6, <2>7, MemberChanges
<1>3. \A i \in Invitations :
        /\ invitation'[i].role # "owner"
        /\ invitation'[i].board # Nothing => owner[invitation'[i].board] # Nothing
  <2>0. \A i \in Invitations :
        /\ invitation[i].role # "owner"
        /\ invitation[i].board # Nothing => owner[invitation[i].board] # Nothing
    BY DEF IInv, Shared
  <2>c. ASSUME NEW i \in Invitations, NEW u \in Logins, Consume(i, u)
        PROVE  \A j \in Invitations :
                 /\ invitation'[j].role # "owner"
                 /\ invitation'[j].board # Nothing => owner[invitation'[j].board] # Nothing
    BY <2>0, <2>c, ConsumedRow
  <2>1. CASE UNCHANGED invitation
    BY <2>0, <2>1
  <2>2. ASSUME NEW c \in Calls, NEW s \in Sessions, FinishRegister(c, s)
        PROVE  \A j \in Invitations :
                 /\ invitation'[j].role # "owner"
                 /\ invitation'[j].board # Nothing => owner[invitation'[j].board] # Nothing
    <3>1. CASE call[c].invitation = Nothing
      BY <2>0, <2>2, <3>1 DEF FinishRegister, InsertUser
    <3>2. CASE call[c].invitation # Nothing
      BY <2>2, <2>c, <3>2, RegisteredInvitation, CallerIsKnown DEF FinishRegister, InsertUser
    <3>3. QED
      BY <3>1, <3>2
  <2>3. ASSUME NEW by \in Sessions, NEW i \in Invitations, NEW b \in Boards \cup {Nothing},
               NEW role \in Roles, NEW u \in Logins \cup {Nothing}, CreateInvitation(by, i, b, role, u)
        PROVE  \A j \in Invitations :
                 /\ invitation'[j].role # "owner"
                 /\ invitation'[j].board # Nothing => owner[invitation'[j].board] # Nothing
    <3>1. role # "owner"
      BY <2>3 DEF CreateInvitation, InsertInvitation
    <3>2. b # Nothing => owner[b] # Nothing
      <4>1. ASSUME b # Nothing
            PROVE  member[b][session[by].user] = "owner" /\ session[by].user \in Logins
        BY <1>u, <2>3, <4>1 DEF CreateInvitation, OwnsLive, InsertInvitation
      <4>2. QED
        BY <4>1 DEF IInv, Shared
    <3>3. \A j \in Invitations \ {i} : invitation'[j] = invitation[j]
      BY <1>0, <2>3 DEF CreateInvitation, InsertInvitation
    <3>4. invitation'[i].role = role /\ invitation'[i].board = b
      BY <1>0, <2>3 DEF CreateInvitation, InsertInvitation
    <3>5. QED
      BY <2>0, <3>1, <3>2, <3>3, <3>4
  <2>4. CASE \E by \in Sessions, i \in Invitations : ConsumeInvitation(by, i)
    BY <1>u, <2>4, <2>c DEF ConsumeInvitation
  <2>5. ASSUME NEW by \in Sessions, NEW i \in Invitations, RevokeInvitation(by, i)
        PROVE  \A j \in Invitations :
                 /\ invitation'[j].role # "owner"
                 /\ invitation'[j].board # Nothing => owner[invitation'[j].board] # Nothing
    <3>1. \A j \in Invitations :
            invitation'[j].role = invitation[j].role /\ invitation'[j].board = invitation[j].board
      BY <1>0, <2>5 DEF RevokeInvitation, InvitationRows
    <3>2. QED
      BY <2>0, <3>1
  <2>6. QED
    BY <2>1, <2>2, <2>3, <2>4, <2>5, InvitationChanges
<1>4. ASSUME NEW i \in Invitations, invitation'[i].board # Nothing
      PROVE  owner'[invitation'[i].board] # Nothing
  <2>1. invitation'[i].board \in Boards
    BY <1>4, InvitationsTyped DEF InvitationRows
  <2>2. QED
    BY <1>1, <1>3, <1>4, <2>1
<1>5. QED
  BY <1>2, <1>3, <1>4 DEF Shared

\* A board is made for somebody.
MadeFor(b, u) ==
  /\ owner[b] = Nothing
  /\ owner'[b] = u
  /\ \A v \in Logins : member'[b][v] = IF v = u THEN "owner" ELSE member[b][v]

\* The role of one user on a board changes, not of its owner nor to owner,
\* and the user is not connected to the board afterwards.
RoleSet(b, u, role) ==
  /\ owner'[b] = owner[b]
  /\ \A v \in Logins : member'[b][v] = IF v = u THEN role ELSE member[b][v]
  /\ role = "owner" => member[b][u] = "owner"
  /\ owner[b] = u => role = member[b][u]
  /\ CloseUserRoom(b, u) \/ account[u] = "none"

SameMembers(b) ==
  /\ owner'[b] = owner[b]
  /\ \A v \in Logins : member'[b][v] = member[b][v]

\* An invitation that is used sets one role on one board.
LEMMA ConsumedSets ==
  ASSUME AccountsAssumption, IInv, NEW i \in Invitations, NEW u \in Logins, Consume(i, u),
         UNCHANGED owner,
         NEW b \in Boards,
         invitation[i].board # Nothing => CloseUserRoom(invitation[i].board, u) \/ account[u] = "none"
  PROVE  SameMembers(b) \/ \E role \in Roles : RoleSet(b, u, role)
<1>1. \A d \in Boards, v \in Logins :
        member'[d][v] = IF d = invitation[i].board /\ v = u
                        THEN InvitedRole(member[d][u], invitation[i].role)
                        ELSE member[d][v]
  BY ConsumedRole
<1>2. CASE b = invitation[i].board
  <2> DEFINE role == InvitedRole(member[b][u], invitation[i].role)
  <2>1. member[b][u] \in Roles /\ invitation[i].role \in Roles /\ invitation[i].role # "owner"
    BY DEF IInv, TypeOK, Shared
  <2>2. /\ role \in {member[b][u], invitation[i].role}
        /\ role \in Roles
        /\ member[b][u] = "owner" => role = "owner"
    BY <2>1, InvitedRoleIsHigher
  <2>3. role = "owner" => member[b][u] = "owner"
    BY <2>1, <2>2
  <2>4. owner[b] = u => role = member[b][u]
    BY <2>2 DEF IInv, OwnersStay
  <2>5. CloseUserRoom(b, u) \/ account[u] = "none"
    BY <1>2 DEF AccountsAssumption
  <2>6. \A v \in Logins : member'[b][v] = IF v = u THEN role ELSE member[b][v]
    BY <1>1, <1>2
  <2> HIDE DEF role
  <2>7. RoleSet(b, u, role)
    BY <2>3, <2>4, <2>5, <2>6 DEF RoleSet
  <2>8. QED
    BY <2>2, <2>7
<1>3. CASE b # invitation[i].board
  BY <1>1, <1>3 DEF SameMembers
<1>4. QED
  BY <1>2, <1>3

\* All that happens to the members of a board.
LEMMA BoardChanges ==
  ASSUME AccountsAssumption, IInv, [Next]_vars, NEW b \in Boards
  PROVE  \/ SameMembers(b)
         \/ \E u \in Logins : MadeFor(b, u)
         \/ \E u \in Logins, role \in Roles : RoleSet(b, u, role)
<1> DEFINE Goal == \/ SameMembers(b)
                   \/ \E u \in Logins : MadeFor(b, u)
                   \/ \E u \in Logins, role \in Roles : RoleSet(b, u, role)
<1>0. /\ member \in [Boards -> [Logins -> Roles]]
      /\ owner \in [Boards -> Logins \cup {Nothing}]
  BY DEF IInv, TypeOK
<1>u. \A s \in Sessions : Current(s) => session[s].user \in Logins
  BY DEF IInv, TypeOK, Current, Active
<1>1. CASE UNCHANGED <<owner, member>>
  BY <1>1 DEF SameMembers
<1>2. ASSUME NEW c \in Calls, NEW s \in Sessions, FinishRegister(c, s)
      PROVE  Goal
  <2>1. CASE call[c].invitation = Nothing
    BY <1>2, <2>1 DEF FinishRegister, SameMembers, InsertUser
  <2>2. CASE call[c].invitation # Nothing
    <3>1. /\ call[c].invitation \in Invitations /\ call[c].login \in Logins
          /\ Consume(call[c].invitation, call[c].login)
          /\ UNCHANGED owner
          /\ account[call[c].login] = "none"
      BY <1>2, <2>2, RegisteredInvitation, CallerIsKnown DEF FinishRegister, MayRegister,
         InsertUser
    <3>2. QED
      BY <3>1, ConsumedSets
  <2>3. QED
    BY <2>1, <2>2
<1>3. ASSUME NEW c \in Calls, NEW found \in SUBSET LegacyBoards, AdoptLegacyBoards(c, found)
      PROVE  Goal
  BY <1>3, AdoptedRows DEF SameMembers, MadeFor
<1>4. ASSUME NEW u \in Logins, NEW d \in Boards, NewBoard(d, u)
      PROVE  Goal
  BY <1>4, NewBoardRows DEF SameMembers, MadeFor
<1>5. CASE \E by \in Sessions, d \in Boards : CreateBoard(by, d)
  BY <1>u, <1>4, <1>5 DEF CreateBoard
<1>6. CASE \E u \in Logins, d \in Boards : AgentCreateBoard(u, d)
  BY <1>4, <1>6 DEF AgentCreateBoard
<1>7. ASSUME NEW by \in Sessions, NEW d \in Boards, NEW u \in Logins, NEW role \in Roles,
             SetBoardMemberRole(by, d, u, role)
      PROVE  Goal
  <2>1. /\ member' = [member EXCEPT ![d][u] = role] /\ UNCHANGED owner
        /\ u # owner[d] /\ role # "owner"
        /\ CloseUserRoom(d, u)
    BY <1>7 DEF SetBoardMemberRole, MayChangeRole, UpsertBoardMember
  <2>2. CASE b = d
    <3>1. \A v \in Logins : member'[b][v] = IF v = u THEN role ELSE member[b][v]
      BY <1>0, <2>1, <2>2
    <3>2. RoleSet(b, u, role)
      BY <2>1, <2>2, <3>1 DEF RoleSet
    <3>3. QED
      BY <3>2
  <2>3. CASE b # d
    BY <1>0, <2>1, <2>3 DEF SameMembers
  <2>4. QED
    BY <2>2, <2>3
<1>8. ASSUME NEW by \in Sessions, NEW i \in Invitations, ConsumeInvitation(by, i)
      PROVE  Goal
  <2>1. /\ session[by].user \in Logins
        /\ Consume(i, session[by].user)
        /\ UNCHANGED owner
        /\ invitation[i].board # Nothing => CloseUserRoom(invitation[i].board, session[by].user)
    BY <1>u, <1>8 DEF ConsumeInvitation
  <2>2. QED
    BY <2>1, ConsumedSets
<1>9. QED
  BY <1>1, <1>2, <1>3, <1>5, <1>6, <1>7, <1>8, MemberChanges

LEMMA OwnersStayStep ==
  ASSUME AccountsAssumption, IInv, [Next]_vars
  PROVE  OwnersStay'
<1> SUFFICES ASSUME NEW b \in Boards, NEW v \in Logins
             PROVE  member'[b][v] = "owner" <=> owner'[b] = v
  BY DEF OwnersStay
<1>0. member[b][v] = "owner" <=> owner[b] = v
  BY DEF IInv, OwnersStay
<1>1. CASE SameMembers(b)
  BY <1>0, <1>1 DEF SameMembers
<1>2. ASSUME NEW u \in Logins, MadeFor(b, u)
      PROVE  member'[b][v] = "owner" <=> owner'[b] = v
  <2>1. member[b][v] # "owner"
    BY <1>0, <1>2 DEF MadeFor, AccountsAssumption
  <2>2. QED
    BY <1>2, <2>1 DEF MadeFor
<1>3. ASSUME NEW u \in Logins, NEW role \in Roles, RoleSet(b, u, role)
      PROVE  member'[b][v] = "owner" <=> owner'[b] = v
  BY <1>0, <1>3 DEF RoleSet
<1>4. QED
  BY <1>1, <1>2, <1>3, BoardChanges

-----------------------------------------------------------------------------
(* Connections.                                                            *)

\* A connection that is open after a step was open before, for the same user,
\* or has just been admitted.
LEMMA LiveAfter ==
  ASSUME AccountsAssumption, IInv, [Next]_vars, NEW k \in Sockets, connection'[k] # Nothing
  PROVE  \/ /\ connection'[k] = connection[k]
            /\ UserOf(k) \in Logins
            /\ UserOf(k)' = UserOf(k)
         \/ \E by \in Sessions, b \in Boards : Connect(k, by, b)
<1>1. \/ connection'[k] = connection[k]
      \/ \E by \in Sessions, b \in Boards : Connect(k, by, b)
  <2>0. connection \in [Sockets -> Admissions \cup {Nothing}]
    BY DEF IInv, TypeOK, Admissions
  <2>1. CASE \E j \in Sockets, by \in Sessions, b \in Boards : Connect(j, by, b)
    BY <2>0, <2>1 DEF Connect
  <2>2. CASE \E closing \in SUBSET Sockets : Close(closing)
    BY <2>2 DEF Close
  <2>3. QED
    BY <2>1, <2>2, ConnectionChanges
<1>2. ASSUME connection'[k] = connection[k]
      PROVE  UserOf(k) \in Logins /\ UserOf(k)' = UserOf(k)
  <2>1. Live(k)
    BY <1>2 DEF Live
  <2>2. UserOf(k) # Nothing
    BY <2>1 DEF IInv, Connected
  <2>3. connection[k] \in Admissions
    BY <2>1 DEF IInv, TypeOK, Admissions, Live
  <2>4. connection[k].session \in Sessions
    BY <2>3 DEF Admissions
  <2>5. UserOf(k) \in Logins
    BY <2>2, <2>4 DEF UserOf, IInv, TypeOK
  <2>6. session'[connection[k].session].user = session[connection[k].session].user
    BY <2>2, <2>4, SessionsStay DEF UserOf
  <2>7. QED
    BY <1>2, <2>5, <2>6 DEF UserOf
<1>3. QED
  BY <1>1, <1>2

\* What a connection is admitted with.
LEMMA Admitted ==
  ASSUME IInv, NEW k \in Sockets, NEW by \in Sessions, NEW b \in Boards, Connect(k, by, b)
  PROVE  /\ Current(by) /\ session[by].user \in Logins
         /\ b \notin deleted
         /\ connection'[k].board = b
         /\ connection'[k].session = by
         /\ connection'[k].role = member[b][session[by].user]
         /\ UNCHANGED <<session, member, deleted, clock>>
<1>1. Current(by) /\ session[by].user \in Logins /\ b \notin deleted
  BY DEF Connect, MayJoin, Current, Active, IInv, TypeOK
<1>2. connection'[k] = [board |-> b, session |-> by, role |-> member[b][session[by].user]]
  BY DEF Connect, IInv, TypeOK
<1>3. UNCHANGED <<session, member, deleted, clock>>
  BY DEF Connect, boards
<1>4. QED
  BY <1>1, <1>2, <1>3

LEMMA ConnectedStep ==
  ASSUME AccountsAssumption, IInv, [Next]_vars
  PROVE  Connected'
<1>n. Nothing \notin Logins
  BY DEF AccountsAssumption
<1> SUFFICES ASSUME NEW k \in Sockets, connection'[k] # Nothing
             PROVE  session'[connection'[k].session].user # Nothing
  BY DEF Connected, Live, UserOf
<1>1. CASE connection'[k] = connection[k] /\ UserOf(k) \in Logins /\ UserOf(k)' = UserOf(k)
  BY <1>n, <1>1 DEF UserOf
<1>2. CASE \E by \in Sessions, b \in Boards : Connect(k, by, b)
  BY <1>n, <1>2, Admitted
<1>3. QED
  BY <1>1, <1>2, LiveAfter

\* The role of a user on a board changes only while the user is not connected
\* to it: whatever changes it closes those connections, a user who registers
\* has none yet, and nobody is connected to a board that does not exist.
LEMMA MatchStep ==
  ASSUME AccountsAssumption, IInv, [Next]_vars
  PROVE  ConnectionsMatchRoles'
<1> SUFFICES ASSUME NEW k \in Sockets, connection'[k] # Nothing
             PROVE  connection'[k].role = member'[connection'[k].board][UserOf(k)']
  BY DEF ConnectionsMatchRoles, Live
<1>1. ASSUME connection'[k] = connection[k], UserOf(k) \in Logins, UserOf(k)' = UserOf(k)
      PROVE  connection'[k].role = member'[connection'[k].board][UserOf(k)']
  <2> DEFINE b == connection[k].board
             u == UserOf(k)
  <2>1. Live(k)
    BY <1>1 DEF Live
  <2>2. connection[k] \in Admissions
    BY <2>1 DEF IInv, TypeOK, Admissions, Live
  <2>3. b \in Boards /\ connection[k].session \in Sessions /\ connection[k].role # "none"
    BY <2>2 DEF Admissions
  <2>4. connection[k].role = member[b][u]
    BY <2>1 DEF IInv, ConnectionsMatchRoles
  <2>5. u \in Logins
    BY <1>1
  <2>6. account[u] # "none"
    <3>1. session[connection[k].session].user # Nothing
      BY <2>1 DEF IInv, Connected, UserOf
    <3>2. account[session[connection[k].session].user] # "none"
      BY <2>3, <3>1 DEF IInv, Registered
    <3>3. QED
      BY <3>2 DEF UserOf
  <2>7. k \in ConnectionsTo(b) \cap ConnectionsOf(u)
    BY <2>1 DEF ConnectionsTo, ConnectionsOf
  <2>8. ~CloseUserRoom(b, u)
    BY <2>7 DEF CloseUserRoom, Close
  <2> HIDE DEF b, u
  <2>9. SameMembers(b) => member'[b][u] = member[b][u]
    BY <2>5 DEF SameMembers
  <2>10. ASSUME NEW v \in Logins, MadeFor(b, v)
         PROVE  member'[b][u] = member[b][u]
    BY <2>3, <2>4, <2>5, <2>10 DEF MadeFor, IInv, Shared
  <2>11. ASSUME NEW v \in Logins, NEW role \in Roles, RoleSet(b, v, role)
         PROVE  member'[b][u] = member[b][u]
    BY <2>5, <2>6, <2>8, <2>11 DEF RoleSet
  <2>12. member'[b][u] = member[b][u]
    BY <2>3, <2>9, <2>10, <2>11, BoardChanges
  <2>13. QED
    BY <1>1, <2>4, <2>12 DEF b, u
<1>2. ASSUME NEW by \in Sessions, NEW b \in Boards, Connect(k, by, b)
      PROVE  connection'[k].role = member'[connection'[k].board][UserOf(k)']
  BY <1>2, Admitted DEF UserOf
<1>3. QED
  BY <1>1, <1>2, LiveAfter

\* Signing out closes every connection of the user while the session is
\* good, and a session that is not looked up in time has expired.
LEMMA SignedInStep ==
  ASSUME AccountsAssumption, IInv, [Next]_vars
  PROVE  SignedIn'
<1>0. (~Disabling => \A u \in Logins : account[u] # "disabled") /\ ConnectionsAreSignedIn
  BY DEF IInv, SignedIn
<1>1. ASSUME ~Disabling
      PROVE  \A u \in Logins : account'[u] # "disabled"
  <2>1. CASE UNCHANGED people
    BY <1>0, <1>1, <2>1 DEF people
  <2>2. ASSUME NEW c \in Calls, NEW s \in Sessions, FinishRegister(c, s)
        PROVE  \A u \in Logins : account'[u] # "disabled"
    BY <1>0, <1>1, <2>2, CallerIsKnown DEF FinishRegister, IInv, TypeOK, InsertUser
  <2>3. ~\E a, u \in Logins, disable \in BOOLEAN : SetUserDisabled(a, u, disable)
    BY <1>1 DEF SetUserDisabled, RevokeSessionsForUser
  <2>4. QED
    BY <2>1, <2>2, <2>3, PeopleChange
<1>2. clock' \in Int /\ clock \in Int /\ clock' >= clock
  <2>0. clock \in Int
    BY DEF IInv, TypeOK
  <2>1. clock' = clock \/ clock' = clock + 1
    <3>1. CASE UNCHANGED vars
      BY <3>1 DEF vars
    <3>2. CASE \E c \in Calls : Asks(c)
      BY <3>2 DEF Asks, StartLogin, StartRegister, Await
    <3>3. CASE \E c \in Calls : Answers(c)
      BY <3>3 DEF Answers, RefuseRegister, RefuseLogin, FinishLogin, FinishRegister, AdoptLegacyBoards,
         InsertUser
    <3>4. CASE \E by \in Sessions : Requests(by)
      BY <3>4 DEF Requests, CreateBoard, DeleteBoard, RestoreBoard, RevokeExpired, Logout,
         SetBoardMemberRole, Connect, CreateInvitation, ConsumeInvitation, RevokeInvitation,
         RevokeSession, UpsertBoardMember, InsertInvitation
    <3>5. CASE \E b \in Boards : Agents(b)
      BY <3>5 DEF Agents, AgentCreateBoard, AgentBoardGranted, AgentRollBack
    <3>6. CASE (\E k \in Sockets : Disconnect(k)) \/ Crash \/ Tick
      BY <3>6 DEF Disconnect, Crash, Tick
    <3>7. CASE \E a, u \in Logins, disable \in BOOLEAN : SetUserDisabled(a, u, disable)
      BY <3>7 DEF SetUserDisabled, RevokeSessionsForUser
    <3>8. QED
      BY <3>1, <3>2, <3>3, <3>4, <3>5, <3>6, <3>7 DEF Next
  <2>2. QED
    BY <2>0, <2>1
<1>3. ASSUME NEW k \in Sockets, connection'[k] # Nothing,
             Disabling => session'[connection'[k].session].user \in admin'
      PROVE  LET row == session'[connection'[k].session]
             IN  ~row.revoked \/ clock' >= row.expiresAt
  <2>1. ASSUME connection'[k] = connection[k], UserOf(k) \in Logins
        PROVE  LET row == session'[connection'[k].session]
               IN  ~row.revoked \/ clock' >= row.expiresAt
    <3> DEFINE s == connection[k].session
    <3>1. Live(k)
      BY <1>3, <2>1 DEF Live
    <3>2. s \in Sessions
      BY <3>1 DEF IInv, TypeOK, Live
    <3>a. session[s].user \in Logins
      BY <2>1 DEF UserOf
    <3>b. account[session[s].user] # "none"
      BY <3>2, <3>a DEF IInv, Registered, AccountsAssumption
    <3>c. Disabling => session[s].user \in admin
      <4>1. session'[s].user = session[s].user
        BY <3>2, <3>a, SessionsStay DEF AccountsAssumption
      <4>2. admin' = admin
        <5>1. ~NoAccounts
          BY <3>a, <3>b DEF NoAccounts
        <5>2. ASSUME NEW c \in Calls, NEW t \in Sessions, FinishRegister(c, t)
              PROVE  admin' = admin
          BY <5>1, <5>2 DEF FinishRegister, InsertUser
        <5>3. QED
          BY <5>2, PeopleChange DEF people, SetUserDisabled, RevokeSessionsForUser
      <4>3. QED
        BY <1>3, <2>1, <4>1, <4>2
    <3>d. UserOf(k) = session[s].user
      BY DEF UserOf
    <3>3. /\ session[s].user \in Logins
          /\ ~session[s].revoked \/ clock >= session[s].expiresAt
      BY <1>0, <3>1, <3>a, <3>c, <3>d DEF ConnectionsAreSignedIn
    <3>4. session[s].expiresAt \in Int
      BY <3>2 DEF IInv, TypeOK, Times, AccountsAssumption
    <3> HIDE DEF s
    <3>5. session'[s].expiresAt = session[s].expiresAt
      BY <3>2, <3>3, SessionsStay DEF AccountsAssumption
    <3>6. CASE clock >= session[s].expiresAt
      BY <1>2, <2>1, <3>4, <3>5, <3>6 DEF s
    <3>7. CASE ~(clock >= session[s].expiresAt)
      <4>0. clock < session[s].expiresAt
        BY <1>2, <3>4, <3>7
      <4>1. ~session[s].revoked
        BY <3>3, <3>7
      <4>2. account[session[s].user] = "active"
        <5>1. CASE Disabling
          <6>1. ~NoAccounts
            BY <3>a, <3>b DEF NoAccounts
          <6>2. QED
            BY <3>c, <5>1, <6>1 DEF IInv, OneAdmin
        <5>2. CASE ~Disabling
          BY <1>0, <3>a, <3>b, <5>2 DEF IInv, TypeOK
        <5>3. QED
          BY <5>1, <5>2
      <4>3. Current(s)
        BY <3>3, <4>0, <4>1, <4>2 DEF Current, Active, AccountsAssumption
      <4>4. session'[s].revoked = FALSE
        <5>0. session \in [Sessions -> SessionRows]
          BY DEF IInv, TypeOK, SessionRows
        <5>s. session[s].revoked = FALSE
          BY <3>2, <4>1, <5>0 DEF SessionRows
        <5>1. CASE UNCHANGED session
          BY <5>1, <5>s
        <5>2. ASSUME NEW c \in Calls, NEW t \in Sessions, FinishRegister(c, t) \/ FinishLogin(c, t)
              PROVE  session'[s].revoked = FALSE
          BY <3>2, <5>0, <5>2, <5>s DEF FinishRegister, FinishLogin, Grant, InsertSession,
             InsertUser
        <5>3. ASSUME NEW t \in Sessions, RevokeExpired(t)
              PROVE  session'[s].revoked = FALSE
          <6>1. t # s
            BY <3>4, <4>0, <1>2, <5>3 DEF RevokeExpired, RevokeSession
          <6>2. QED
            BY <3>2, <5>0, <5>3, <5>s, <6>1 DEF RevokeExpired, RevokeSession
        <5>4. ASSUME NEW t \in Sessions, Logout(t)
              PROVE  session'[s].revoked = FALSE
          <6>1. t # s
            <7>1. ASSUME t = s
                  PROVE  FALSE
              <8>1. k \in ClosedByLogout(s)
                BY <3>1, <3>d, <4>3 DEF ClosedByLogout, ConnectionsOf
              <8>2. connection'[k] = Nothing
                BY <5>4, <7>1, <8>1 DEF Logout, Close, RevokeSession
              <8>3. QED
                BY <1>3, <8>2
            <7>2. QED
              BY <7>1
          <6>2. QED
            BY <3>2, <5>0, <5>4, <5>s, <6>1 DEF Logout, RevokeSession
        <5>5. ASSUME NEW a \in Logins, NEW u \in Logins, NEW disable \in BOOLEAN,
                     SetUserDisabled(a, u, disable)
              PROVE  session'[s].revoked = FALSE
          <6>1. Disabling /\ a \in admin /\ (disable => a # u)
            BY <5>5 DEF SetUserDisabled, MaySetDisabled, RevokeSessionsForUser
          <6>2. ~NoAccounts
            BY <3>a, <3>b DEF NoAccounts
          <6>3. PICK x \in Logins : admin = {x}
            BY <6>2 DEF IInv, OneAdmin
          <6>4. disable => session[s].user # u
            BY <3>c, <6>1, <6>3
          <6>5. session'[s] = session[s]
            BY <3>2, <5>5, <6>4 DEF SetUserDisabled, RevokeSessionsForUser
          <6>6. QED
            BY <5>s, <6>5
        <5>6. QED
          BY <5>1, <5>2, <5>3, <5>4, <5>5, SessionChanges
      <4>5. QED
        BY <2>1, <4>4 DEF s
    <3>8. QED
      BY <3>6, <3>7
  <2>2. ASSUME NEW by \in Sessions, NEW b \in Boards, Connect(k, by, b)
        PROVE  LET row == session'[connection'[k].session]
               IN  ~row.revoked \/ clock' >= row.expiresAt
    BY <2>2, Admitted DEF Current
  <2>3. QED
    BY <1>3, <2>1, <2>2, LiveAfter
<1>4. ConnectionsAreSignedIn'
  BY <1>3 DEF ConnectionsAreSignedIn, Live, UserOf
<1>5. QED
  BY <1>1, <1>4 DEF SignedIn

\* Boards that are deleted in a step are left by everyone, or rolled back.
LEMMA DeletedChanges ==
  ASSUME [Next]_vars, NEW b \in Boards, b \in deleted'
  PROVE  b \in deleted \cup unconfirmed \/ Close(ConnectionsTo(b))
<1>1. CASE UNCHANGED vars
  BY <1>1 DEF vars, boards
<1>2. CASE \E c \in Calls : Asks(c)
  BY <1>2 DEF Asks, StartLogin, StartRegister, Await, boards
<1>3. CASE \E c \in Calls : Answers(c)
  BY <1>3 DEF Answers, RefuseRegister, RefuseLogin, FinishLogin, FinishRegister,
     AdoptLegacyBoards, boards, InsertUser
<1>4. CASE \E by \in Sessions : Requests(by)
  BY <1>4 DEF Requests, CreateBoard, DeleteBoard, RestoreBoard, RevokeExpired, Logout,
     SetBoardMemberRole, Connect, CreateInvitation, ConsumeInvitation, RevokeInvitation, boards,
     RevokeSession, UpsertBoardMember, InsertInvitation
<1>5. CASE \E d \in Boards : Agents(d)
  BY <1>5 DEF Agents, AgentCreateBoard, AgentBoardGranted, AgentRollBack, boards
<1>6. CASE (\E k \in Sockets : Disconnect(k)) \/ Crash \/ Tick
  BY <1>6 DEF Disconnect, Crash, Tick, boards
<1>7. CASE \E a, u \in Logins, disable \in BOOLEAN : SetUserDisabled(a, u, disable)
  BY <1>7 DEF SetUserDisabled, boards, RevokeSessionsForUser
<1>8. QED
  BY <1>1, <1>2, <1>3, <1>4, <1>5, <1>6, <1>7 DEF Next

LEMMA DeletedBoardsCloseStep ==
  ASSUME AccountsAssumption, IInv, [Next]_vars, NEW k \in Sockets,
         connection'[k] # Nothing, connection'[k].board \in deleted'
  PROVE  connection'[k] = connection[k] /\ connection[k].board \in deleted \cup unconfirmed
<1>1. ASSUME connection'[k] = connection[k]
      PROVE  connection[k].board \in deleted \cup unconfirmed
  <2>1. Live(k)
    BY <1>1 DEF Live
  <2>2. connection[k].board \in Boards
    BY <2>1 DEF IInv, TypeOK, Live
  <2>3. k \in ConnectionsTo(connection[k].board)
    BY <2>1 DEF ConnectionsTo
  <2>4. ~Close(ConnectionsTo(connection[k].board))
    BY <2>3 DEF Close
  <2>5. QED
    BY <1>1, <2>2, <2>4, DeletedChanges
<1>2. ~\E by \in Sessions, b \in Boards : Connect(k, by, b)
  BY Admitted
<1>3. QED
  BY <1>1, <1>2, LiveAfter

-----------------------------------------------------------------------------
(* Invitations.                                                            *)

LEMMA InvitationsEndStep ==
  ASSUME AccountsAssumption, IInv, [Next]_vars, NEW i \in Invitations,
         invitation[i].state \in {"consumed", "revoked"}
  PROVE  invitation'[i] = invitation[i]
<1>0. invitation \in [Invitations -> InvitationRows]
  BY DEF IInv, TypeOK, InvitationRows
<1>u. \A s \in Sessions : Current(s) => session[s].user \in Logins
  BY DEF IInv, TypeOK, Current, Active
<1>1. CASE UNCHANGED invitation
  BY <1>1
<1>2. ASSUME NEW j \in Invitations, NEW u \in Logins, Usable(j, u), Consume(j, u)
      PROVE  invitation'[i] = invitation[i]
  <2>1. i # j
    BY <1>2 DEF Usable
  <2>2. QED
    BY <1>2, <2>1, ConsumedRow
<1>3. ASSUME NEW c \in Calls, NEW s \in Sessions, FinishRegister(c, s)
      PROVE  invitation'[i] = invitation[i]
  <2>1. CASE call[c].invitation = Nothing
    BY <1>3, <2>1 DEF FinishRegister, InsertUser
  <2>2. CASE call[c].invitation # Nothing
    BY <1>2, <1>3, <2>2, RegisteredInvitation, CallerIsKnown DEF FinishRegister, MayRegister,
       InsertUser
  <2>3. QED
    BY <2>1, <2>2
<1>4. ASSUME NEW by \in Sessions, NEW j \in Invitations, NEW b \in Boards \cup {Nothing},
             NEW role \in Roles, NEW u \in Logins \cup {Nothing}, CreateInvitation(by, j, b, role, u)
      PROVE  invitation'[i] = invitation[i]
  <2>1. i # j
    BY <1>4 DEF CreateInvitation, NoInvitation, InsertInvitation
  <2>2. QED
    BY <1>0, <1>4, <2>1 DEF CreateInvitation, InsertInvitation
<1>5. CASE \E by \in Sessions, j \in Invitations : ConsumeInvitation(by, j)
  BY <1>u, <1>2, <1>5 DEF ConsumeInvitation
<1>6. ASSUME NEW by \in Sessions, NEW j \in Invitations, RevokeInvitation(by, j)
      PROVE  invitation'[i] = invitation[i]
  <2>1. i # j
    BY <1>6 DEF RevokeInvitation, Revocable
  <2>2. QED
    BY <1>0, <1>6, <2>1 DEF RevokeInvitation
<1>7. QED
  BY <1>1, <1>3, <1>4, <1>5, <1>6, InvitationChanges

LEMMA InvitationsOnlyRaiseStep ==
  ASSUME AccountsAssumption, IInv, [Next]_vars, invitation' # invitation,
         NEW b \in Boards, NEW v \in Logins
  PROVE  Rank(member'[b][v]) >= Rank(member[b][v])
<1>0. Rank(member[b][v]) >= Rank(member[b][v])
  <2>1. member[b][v] \in Roles
    BY DEF IInv, TypeOK
  <2>2. QED
    BY <2>1 DEF Rank, Roles
<1>u. \A s \in Sessions : Current(s) => session[s].user \in Logins
  BY DEF IInv, TypeOK, Current, Active
<1>1. CASE UNCHANGED member
  BY <1>0, <1>1
<1>2. ASSUME NEW i \in Invitations, NEW u \in Logins, Consume(i, u)
      PROVE  Rank(member'[b][v]) >= Rank(member[b][v])
  <2>1. member[b][u] \in Roles /\ invitation[i].role \in Roles
    BY DEF IInv, TypeOK
  <2>2. Rank(InvitedRole(member[b][u], invitation[i].role)) >= Rank(member[b][u])
    BY <2>1, InvitedRoleIsHigher
  <2>3. QED
    BY <1>0, <1>2, <2>2, ConsumedRole
<1>3. ASSUME NEW c \in Calls, NEW s \in Sessions, FinishRegister(c, s)
      PROVE  Rank(member'[b][v]) >= Rank(member[b][v])
  BY <1>1, <1>2, <1>3, RegisteredInvitation, CallerIsKnown DEF FinishRegister, InsertUser
<1>4. CASE \E by \in Sessions, i \in Invitations, d \in Boards \cup {Nothing},
             role \in Roles, u \in Logins \cup {Nothing} : CreateInvitation(by, i, d, role, u)
  BY <1>1, <1>4 DEF CreateInvitation, boards, InsertInvitation
<1>5. CASE \E by \in Sessions, i \in Invitations : ConsumeInvitation(by, i)
  BY <1>u, <1>2, <1>5 DEF ConsumeInvitation
<1>6. CASE \E by \in Sessions, i \in Invitations : RevokeInvitation(by, i)
  BY <1>1, <1>6 DEF RevokeInvitation, boards
<1>7. QED
  BY <1>3, <1>4, <1>5, <1>6, InvitationChanges

\* Who registers without being the first takes an invitation, and a used one
\* stays.
LEMMA InvitedOnlyStep ==
  ASSUME AccountsAssumption, IInv, [Next]_vars
  PROVE  InvitedOnly'
<1> DEFINE Invited(u) == \E i \in Invitations :
             /\ invitation[i].state = "consumed"
             /\ invitation[i].consumer = u
             /\ invitation[i].login \in {u, Nothing}
<1> SUFFICES ASSUME ~OpenRegistration, NEW u \in Logins, account'[u] # "none", u \notin admin'
             PROVE  Invited(u)'
  BY DEF InvitedOnly
<1>0. account \in [Logins -> {"none", "active", "disabled"}]
  BY DEF IInv, TypeOK
<1>1. ASSUME account[u] # "none", u \notin admin
      PROVE  Invited(u)'
  <2>1. PICK i \in Invitations :
          /\ invitation[i].state = "consumed"
          /\ invitation[i].consumer = u
          /\ invitation[i].login \in {u, Nothing}
    BY <1>1 DEF IInv, InvitedOnly
  <2>2. invitation'[i] = invitation[i]
    BY <2>1, InvitationsEndStep
  <2>3. QED
    BY <2>1, <2>2
<1>2. CASE UNCHANGED people
  BY <1>1, <1>2 DEF people
<1>3. ASSUME NEW c \in Calls, NEW s \in Sessions, FinishRegister(c, s)
      PROVE  Invited(u)'
  <2> DEFINE v == call[c].login
             i == call[c].invitation
  <2>1. v \in Logins
    BY <1>3, CallerIsKnown DEF FinishRegister, InsertUser
  <2>2. account' = [account EXCEPT ![v] = "active"] /\ admin \subseteq admin'
    BY <1>3 DEF FinishRegister, InsertUser
  <2>3. CASE u # v
    BY <1>0, <1>1, <2>2, <2>3
  <2>4. CASE u = v
    <3>1. ~NoAccounts
      BY <1>3, <2>4 DEF FinishRegister, InsertUser
    <3>2. i # Nothing /\ Usable(i, u) /\ Consume(i, u)
      BY <1>3, <2>4, <3>1 DEF FinishRegister, MayRegister, InsertUser
    <3>3. i \in Invitations
      BY <3>2, RegisteredInvitation
    <3>4. invitation[i].login \in {u, Nothing}
      BY <3>2 DEF Usable
    <3> HIDE DEF i, v
    <3>5. /\ invitation'[i].state = "consumed"
          /\ invitation'[i].consumer = u
          /\ invitation'[i].login = invitation[i].login
      BY <3>2, <3>3, ConsumedRow
    <3>6. QED
      BY <3>3, <3>4, <3>5
  <2>5. QED
    BY <2>3, <2>4
<1>4. ASSUME NEW a \in Logins, NEW v \in Logins, NEW disable \in BOOLEAN, SetUserDisabled(a, v, disable)
      PROVE  Invited(u)'
  <2>1. account[u] # "none" /\ u \notin admin
    BY <1>0, <1>4 DEF SetUserDisabled, RevokeSessionsForUser
  <2>2. QED
    BY <1>1, <2>1
<1>5. QED
  BY <1>2, <1>3, <1>4, PeopleChange

-----------------------------------------------------------------------------
(* The invariant.                                                          *)

LEMMA InvariantHoldsAtFirst ==
  ASSUME AccountsAssumption, Init
  PROVE  IInv
<1>1. TypeOK
  <2>1. clock \in 0 .. MaxTime /\ 0 \in Times
    BY DEF Init, AccountsAssumption, Times
  <2>2. invitation \in
          [Invitations ->
            [state : {"none", "open", "consumed", "revoked"}, creator : Logins \cup {Nothing},
             board : Boards \cup {Nothing}, role : Roles, login : Logins \cup {Nothing},
             expiresAt : Times, consumer : Logins \cup {Nothing}]]
    BY <2>1 DEF Init, NoInvitation, Roles
  <2>3. session \in [Sessions -> [user : Logins \cup {Nothing}, expiresAt : Times, revoked : BOOLEAN]]
    BY <2>1 DEF Init, NoSession
  <2>4. call \in
          [Calls ->
            [kind : {"none", "register", "login", "adopt"}, login : Logins \cup {Nothing},
             invitation : Invitations \cup {Nothing}, seen : {"none", "active", "disabled"}]]
    BY DEF Init, NoCall
  <2>5. QED
    BY <2>1, <2>2, <2>3, <2>4 DEF Init, TypeOK, Roles
<1>2. Registered
  BY DEF Init, Registered, NoSession, NoCall
<1>3. OneAdmin /\ InvitedOnly
  BY DEF Init, OneAdmin, NoAccounts, InvitedOnly
<1>4. Shared
  BY DEF Init, Shared, NoInvitation
<1>5. OwnersStay
  BY DEF Init, OwnersStay, AccountsAssumption
<1>6. Connected /\ ConnectionsMatchRoles /\ SignedIn
  BY DEF Init, Connected, ConnectionsMatchRoles, SignedIn, ConnectionsAreSignedIn, Live
<1>7. QED
  BY <1>1, <1>2, <1>3, <1>4, <1>5, <1>6 DEF IInv

LEMMA InvariantStays ==
  ASSUME AccountsAssumption, IInv, [Next]_vars
  PROVE  IInv'
BY TypeStep, RegisteredStep, OneAdminStep, SharedStep, OwnersStayStep, ConnectedStep, MatchStep,
   InvitedOnlyStep, SignedInStep DEF IInv

\* The invariant is inductive, whatever people and agents ask and whenever the
\* process is killed.
THEOREM Invariance == Spec => []IInv
<1>1. Init => IInv
  BY AccountsAssumption, InvariantHoldsAtFirst
<1>2. IInv /\ [Next]_vars => IInv'
  BY AccountsAssumption, InvariantStays
<1>3. QED
  BY <1>1, <1>2, PTL DEF Spec

\* The state keeps its shape.
THEOREM TypeCorrect == Spec => []TypeOK
<1>1. IInv => TypeOK
  BY DEF IInv
<1>2. QED
  BY <1>1, Invariance, PTL

\* No socket goes on with a role its user no longer has: the routes that
\* change a role close the rooms it was used in (app.ts), in the same turn of
\* the event loop as the transaction.
THEOREM RolesAreTheCurrentOnes == Spec => []ConnectionsMatchRoles
<1>1. IInv => ConnectionsMatchRoles
  BY DEF IInv
<1>2. QED
  BY <1>1, Invariance, PTL

\* A board keeps the one owner it was made for (setBoardMemberRole,
\* applyInvitedMembership, adoptLegacyBoards).
THEOREM BoardsKeepTheirOwner == Spec => []OwnersStay
<1>1. IInv => OwnersStay
  BY DEF IInv
<1>2. QED
  BY <1>1, Invariance, PTL

\* There is one administrator, who can sign in, from the first account on
\* (registerInternal, setUserDisabled).
THEOREM AdministratorStays == Spec => []OneAdmin
<1>1. IInv => OneAdmin
  BY DEF IInv
<1>2. QED
  BY <1>1, Invariance, PTL

\* With registration closed, no two registrations get in on one invitation,
\* even when both found it open before they hashed their passwords
\* (registerInternal, consumeInvitation).
THEOREM OneAccountPerInvitation == Spec => []InvitedOnly
<1>1. IInv => InvitedOnly
  BY DEF IInv
<1>2. QED
  BY <1>1, Invariance, PTL

\* Signing out leaves no room open on the session (logout, closeUserSessions);
\* where accounts are disabled, this is so of the administrator's.
THEOREM SignedOutIsDisconnected == Spec => []ConnectionsAreSignedIn
<1>1. IInv => ConnectionsAreSignedIn
  BY DEF IInv, SignedIn
<1>2. QED
  BY <1>1, Invariance, PTL

\* A used or revoked invitation is never reopened or used again
\* (the conditional UPDATE of consumeInvitation, revokeInvitation).
THEOREM UsedInvitationsEnd == Spec => InvitationsEnd
<1>1. IInv /\ [Next]_vars =>
        \A i \in Invitations :
          invitation[i].state \in {"consumed", "revoked"} => invitation'[i] = invitation[i]
  BY AccountsAssumption, InvitationsEndStep
<1>2. QED
  BY <1>1, Invariance, PTL DEF Spec, InvitationsEnd

\* An invitation never takes a right away from anyone (applyInvitedMembership).
THEOREM InvitationsRaise == Spec => InvitationsOnlyRaise
<1>1. IInv /\ [Next]_vars =>
        (invitation' # invitation =>
           \A b \in Boards, u \in Logins : Rank(member'[b][u]) >= Rank(member[b][u]))
  BY AccountsAssumption, InvitationsOnlyRaiseStep
<1>2. QED
  BY <1>1, Invariance, PTL DEF Spec, InvitationsOnlyRaise

\* Nobody works on a deleted board, but for one that was taken back from an
\* agent (deleteBoard, closeBoardSessions, getBoardRole).
THEOREM DeletedBoardsAreLeft == Spec => DeletedBoardsClose
<1>1. IInv /\ [Next]_vars =>
        \A k \in Sockets :
          connection'[k] # Nothing /\ connection'[k].board \in deleted' =>
            /\ connection'[k] = connection[k]
            /\ connection[k].board \in deleted \cup unconfirmed
  BY AccountsAssumption, DeletedBoardsCloseStep
<1>2. QED
  BY <1>1, Invariance, PTL DEF Spec, DeletedBoardsClose
=============================================================================
