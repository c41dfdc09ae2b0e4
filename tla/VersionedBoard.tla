--------------------------- MODULE VersionedBoard ---------------------------
(***************************************************************************)
(* What the history promises a reader of the timeline: one board, and a    *)
(* list of its published versions that only grows.  Every version is the   *)
(* board as it really was, in order; whenever something is published the   *)
(* newest version is the live board; a restore brings back an old version  *)
(* and first publishes the board it replaces.                              *)
(***************************************************************************)
EXTENDS Naturals, Sequences

CONSTANT Boards

VARIABLES
  board,        \* the live board
  log,          \* its published versions
  unpublished   \* what the board has been since the last publication

vars == <<board, log, unpublished>>

Init == board \in Boards /\ log = <<>> /\ unpublished = <<>>

\* The first version of a board is the board.
Import ==
  /\ log = <<>>
  /\ log' = <<board>>
  /\ UNCHANGED <<board, unpublished>>

\* An edit that waits to be published.
Edit ==
  /\ board' \in Boards
  /\ unpublished' = Append(unpublished, board')
  /\ UNCHANGED log

\* The log grown by some of the boards that were waiting, in their order and the
\* last of them included, and then by the given ones.
Extended(newest) ==
  \E n \in 0 .. Len(unpublished) :
    \E pick \in [1 .. n -> DOMAIN unpublished] :
      /\ \A i, j \in 1 .. n : i < j => pick[i] < pick[j]
      /\ unpublished # <<>> => n > 0 /\ pick[n] = Len(unpublished)
      /\ log' = log \o [i \in 1 .. n |-> unpublished[pick[i]]] \o newest

Publish ==
  /\ Extended(<<>>)
  /\ unpublished' = <<>>
  /\ UNCHANGED board

\* A change that is published at once; it may leave the board alone.
Write ==
  /\ board' \in Boards
  /\ Extended(<<board'>>)
  /\ unpublished' = <<>>

Restore ==
  \E i \in DOMAIN log :
    /\ board' = log[i]
    /\ Extended(<<board, board'>>)
    /\ unpublished' = <<>>

Next == Import \/ Edit \/ Publish \/ Write \/ Restore

Spec == Init /\ [][Next]_vars
=============================================================================
