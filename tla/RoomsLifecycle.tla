--------------------------- MODULE RoomsLifecycle ---------------------------
(* The room table implements the life of a match that MatchLifecycle states. *)
EXTENDS Rooms

\* The phase of a room, as RoomView and the client's scenes tell it.
PhaseOf(r) ==
    CASE ~r.open -> "absent"
      [] r.open /\ r.concluded -> "over"
      [] r.open /\ ~r.concluded /\ r.started -> "live"
      [] r.open /\ ~r.concluded /\ ~r.started -> "waiting"

Abstract == [c \in Codes |-> [phase |-> PhaseOf(rooms[c]), winner |-> rooms[c].winner]]

Lifecycle == INSTANCE MatchLifecycle WITH serving <- up, match <- Abstract

\* Whatever the order of joins, departures, ticks, reaping and closing, a live
\* match goes to "over" before its code is free, ends once, and keeps its winner.
ImplementsLifecycle == Lifecycle!Spec

=============================================================================
