------------------------------ MODULE MCRooms ------------------------------
(* Instances of Rooms for TLC.                                             *)
EXTENDS RoomsLifecycle, TLC

\* Connections are interchangeable, and so are room codes.
Symmetry == Permutations(Sockets) \cup Permutations(Codes)

=============================================================================
