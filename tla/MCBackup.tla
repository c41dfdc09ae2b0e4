------------------------------ MODULE MCBackup ------------------------------
(* Two runs a day, two days a week. *)
EXTENDS Backup

Budget(changes, runs, restores, faults) ==
  [changes |-> changes, runs |-> runs, restores |-> restores, faults |-> faults]

\* A run while uploads are written; damage and repeated restores; retention.
MCBudgets ==
  {Budget(6, 1, 0, 0), Budget(4, 1, 1, 1), Budget(0, 2, 2, 1), Budget(0, 4, 0, 0)}

MCKinds == {"day", "week"}
MCPeriodOf == [day |-> [s \in Stamps |-> s \div 2], week |-> [s \in Stamps |-> s \div 4]]
MCKeep == [day |-> 2, week |-> 2]
=============================================================================
