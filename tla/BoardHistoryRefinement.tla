----------------------- MODULE BoardHistoryRefinement -----------------------
(* BoardHistory implements VersionedBoard.                                 *)
EXTENDS BoardHistory

\* What a reader sees when opening each event of the timeline.
Timeline == [target \in DOMAIN events |-> Reconstruct(target)]

StagedBoards == [i \in DOMAIN staged |-> staged[i].board]

Abstract == INSTANCE VersionedBoard WITH
  Boards <- Board, board <- docs, log <- Timeline, unpublished <- StagedBoards

\* The timeline read back from checkpoints and events behaves as a log of true
\* versions of the board, through merges, crashes, failed writes and restores.
ImplementsVersionedBoard == Abstract!Spec
=============================================================================
