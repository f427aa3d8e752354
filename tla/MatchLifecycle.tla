--------------------------- MODULE MatchLifecycle ---------------------------
(***************************************************************************)
(* What the server promises about matches, with no sockets, seats, queues  *)
(* or timers: each room code goes through one life after another, a match  *)
(* that is live ends once, with one result that nothing changes, and only  *)
(* then is the code free again.  Rooms implements it (RoomsLifecycle).     *)
(***************************************************************************)
CONSTANTS Codes, Null, Seats

VARIABLES
    serving,   \* the server is running
    match      \* for each code, the phase of its match and the winner

Phases == {"absent", "waiting", "live", "over"}
Match == [phase : Phases, winner : Seats \cup {Null}]
Absent == [phase |-> "absent", winner |-> Null]

Undecided(m) == m.phase \in {"absent", "waiting"} /\ m.winner = Null

\* The host waits, or gives up: a code with no match in progress may be taken
\* again at once, by the player who has just released it too.
Prepare(old, new) == old.phase # "live" /\ Undecided(new)

\* Two players meet.
Begin(old, new) == old.phase # "live" /\ new = [phase |-> "live", winner |-> Null]

\* A live match ends; an operator may also end one that is still waiting.
End(old, new) == old.phase \in {"waiting", "live"} /\ new.phase = "over"

Move(old, new) == new = old \/ Prepare(old, new) \/ Begin(old, new) \/ End(old, new)

Init == serving = TRUE /\ match = [c \in Codes |-> Absent]

\* One step may end several matches: a tick steps every room.
Serve == /\ serving
         /\ match' \in [Codes -> Match]
         /\ \A c \in Codes : Move(match[c], match'[c])
         /\ UNCHANGED serving

\* The process ends and takes every room with it.
Stop == /\ serving
        /\ serving' = FALSE
        /\ match' = [c \in Codes |-> Absent]

Next == Serve \/ Stop

Spec == Init /\ [][Next]_<<serving, match>>

=============================================================================
