\* One record that two people and an agent move between three places, with
\* fair handlers and timers.
SPECIFICATION LiveSpec
CONSTANTS
  Absent = Absent
  Nobody = Nobody
  Records = {r1}
  Contents = {c1, c2, c3}
  Moves <- AllMoves
  Sessions = {s1, s2}
  Agents = {a1}
  SnapshotEvery = 2
  WriteFailures = FALSE
  MaxClock = 3
  MaxEvents = 3
INVARIANTS
  ReplayExact
  Attribution
PROPERTIES
  PendingPublished
