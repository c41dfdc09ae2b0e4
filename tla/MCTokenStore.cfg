\* Two calls at a time, of two requests and a command line, on boards that agents
\* make and on ids that are no boards yet; everything may fail but reading back a
\* write.
SPECIFICATION Spec
CONSTANTS
  Callers = {h1, h2, cli}
  Server = {h1, h2}
  Names = {n1}
  Tokens = {t1, t2}
  Boards = {b1, b2}
  Users = {u1}
  FirstBoards = {}
  Nothing = Nothing
  MaxRooms = 1
  MaxClients = 1
  MaxAccountClients = 1
  Faults = {"crash", "init", "read", "write", "chmod", "release"}
  MaxCalls = 2
  MaxTime = 2
SYMMETRY Symmetry
VIEW WithoutBackups
INVARIANTS
  OneWriter
  AnswersHold
  RetiredStayDead
  GrantAnswered
PROPERTIES
  PinnedOnly
  ImplementsTokenRegistry
