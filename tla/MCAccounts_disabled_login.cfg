\* An account is disabled while its password is being verified.
SPECIFICATION Spec
CONSTANTS
  Logins = {u1, u2}
  Boards = {}
  LegacyBoards = {}
  Sessions = {s1, s2, s3}
  Invitations = {}
  Sockets = {}
  Calls = {c1}
  Nothing = Nothing
  OpenRegistration = TRUE
  Disabling = TRUE
  SessionTtl = 1
  InvitationTtl = 1
  MaxTime = 0
PROPERTIES
  DisabledLoginsFail
