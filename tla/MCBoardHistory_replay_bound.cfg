\* Is there a checkpoint every SnapshotEvery events?
SPECIFICATION Spec
CONSTANTS
  Absent = Absent
  Nobody = Nobody
  Records = {r1}
  Contents = {c1}
  Moves <- NoMoves
  Sessions = {s1}
  Agents = {}
  SnapshotEvery = 2
  WriteFailures = FALSE
  MaxClock = 3
  MaxEvents = 5
INVARIANTS
  ReplayBounded
