------------------------------ MODULE MCRooms ------------------------------
(* Two processes on the lobby and two more records. *)
EXTENDS Rooms, TLC

Symmetry == Permutations(Procs)

\* With and without the flag that keeps a room from being deleted.
Kept == {Flags, Flags \ {"RM_PERMROOM"}}

\* room-test6 takes all but RM_INUSE away.
Dropped == {{"RM_INUSE"}}
=============================================================================
