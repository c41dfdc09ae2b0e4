--------------------------- MODULE MCBoardHistory ---------------------------
(* Instances of BoardHistory for TLC, with the abstract specification.     *)
EXTENDS BoardHistoryRefinement, TLC

\* Every content is the same shape in another place.
AllMoves == {m \in Contents \X Contents : m[1] # m[2]}
NoMoves == {}

Symmetry == Permutations(Records) \cup Permutations(Contents) \cup Permutations(Sessions)
=============================================================================
