\* Runs beside the service, stopped anywhere, with retention and restores.
SPECIFICATION Spec
CONSTANTS
  Auth = Auth
  Boards = {b1}
  Uploads = {u1}
  Kinds <- MCKinds
  PeriodOf <- MCPeriodOf
  Keep <- MCKeep
  MaxStamp = 8
  MaxWait = 2
  Budgets <- MCBudgets
INVARIANTS
  ArchivesResolve
  GenerationsKept
  RestoredIsSound
CHECK_DEADLOCK FALSE
