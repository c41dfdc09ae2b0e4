----------------------------- MODULE MCAccounts -----------------------------
(* Instances of Accounts for TLC.                                          *)
EXTENDS Accounts, TLC

Symmetry ==
  Permutations(Logins) \cup Permutations(Sessions) \cup Permutations(Invitations)
    \cup Permutations(Sockets) \cup Permutations(Calls)
=============================================================================
