---------------------------- MODULE MCTokenStore ----------------------------
(* Instances of TokenStore for TLC.                                        *)
EXTENDS TokenStore, TLC

Symmetry == Permutations(Tokens) \cup Permutations(Server) \cup Permutations(Boards)

\* Everything but the backups, which no step and no checked property reads.
WithoutBackups == <<file, lock, accounts, now, calls, issued, ghosts>>
=============================================================================
