\* Two records on or off the board, a person and an agent, failing writes.
SPECIFICATION Spec
CONSTANTS
  Absent = Absent
  Nobody = Nobody
  Records = {r1, r2}
  Contents = {c1}
  Moves <- NoMoves
  Sessions = {s1}
  Agents = {a1}
  SnapshotEvery = 2
  WriteFailures = TRUE
  MaxClock = 3
  MaxEvents = 4
SYMMETRY Symmetry
INVARIANTS
  CanvasAccounted
  RestoreUndoable
  TimelineOrdered
PROPERTIES
  PastIsFixed
  ImplementsVersionedBoard
