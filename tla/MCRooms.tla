------------------------------ MODULE MCRooms ------------------------------
(* Rooms for TLC: the sets and bounds are in the configuration. *)
EXTENDS Rooms, TLC
=============================================================================
