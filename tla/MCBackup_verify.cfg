\* A run during which the token store is replaced.
SPECIFICATION Spec
CONSTANTS
  Auth = Auth
  Boards = {b1}
  Uploads = {u1}
  Kinds <- MCKinds
  PeriodOf <- MCPeriodOf
  Keep <- MCKeep
  MaxStamp = 8
  MaxWait = 2
  Budgets <- MCBudgets
INVARIANT GoodRunsVerify
CHECK_DEADLOCK FALSE
