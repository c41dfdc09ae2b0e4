\* A board of up to six events, passes that race with its server.
SPECIFICATION Spec
CONSTANTS
  MaxEvents = 6
  MaxTime = 3
  DetailedDays = 1
  CheckpointDays = 0
  WeekDays = 2
  Sample = 1
INVARIANTS
  KeptVersions
  PlansAreSound
  WeeklySeries
