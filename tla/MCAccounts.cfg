\* Three people, an invitation to a board, two sign-ins and one open tab.
SPECIFICATION Spec
CONSTANTS
  Logins = {u1, u2, u3}
  Boards = {b1}
  LegacyBoards = {b1}
  Sessions = {s1, s2}
  Invitations = {i1}
  Sockets = {k1}
  Calls = {c1, c2}
  Nothing = Nothing
  OpenRegistration = FALSE
  Disabling = TRUE
  SessionTtl = 1
  InvitationTtl = 1
  MaxTime = 1
SYMMETRY Symmetry
INVARIANTS
  ConnectionsMatchRoles
  ConnectionsAreSignedIn
  OwnersStay
  OneAdmin
  InvitedOnly
