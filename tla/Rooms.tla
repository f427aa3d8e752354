------------------------------- MODULE Rooms -------------------------------
(***************************************************************************)
(* The lobby of the authoritative server, packages/server/src/server.ts:  *)
(* matchmaking, private rooms, seats, the tick that steps every live       *)
(* match, the one place a match is concluded and handed to the store, the  *)
(* janitor, and the operator's closeRoom and maintenance switch.           *)
(*                                                                         *)
(* The process is one Node event loop, so each socket handler, timer       *)
(* callback and console request runs to completion: one action each.  The  *)
(* order in which they run is not fixed by anything, and that is what is   *)
(* explored.  The game itself is the outcome of one step of a match        *)
(* (StepOutcomes); the rules are modelled in the modules about the core.   *)
(***************************************************************************)
EXTENDS Integers, FiniteSets, Sequences

CONSTANTS
    Sockets,         \* identifiers of client connections
    Codes,           \* room codes createRoomCode may draw
    Null,            \* JavaScript's null / undefined
    MaxRooms,        \* MAX_ROOMS
    MaxReplayTicks,  \* MAX_REPLAY_TICKS
    MaxFrame,        \* frames past this one are not told apart (a bound)
    FinishedTtl,     \* FINISHED_ROOM_TTL_MS, in units of Elapse
    IdleTtl          \* ROOM_IDLE_MS, in units of Elapse

Seats == {0, 1}
Other(p) == 1 - p

ASSUME RoomsAssumption ==
    /\ Null \notin Sockets \cup Codes \cup Seats
    /\ Sockets \cap Codes = {}
    /\ MaxRooms \in Nat
    /\ MaxReplayTicks \in Nat
    /\ MaxFrame \in Nat /\ MaxFrame > MaxReplayTicks
    /\ FinishedTtl \in Nat
    /\ IdleTtl \in Nat /\ IdleTtl > FinishedTtl

VARIABLES
    up,           \* FALSE once SIGINT or SIGTERM has been handled
    connected,    \* io.sockets.sockets
    queue,        \* matchmaking.tickets: everyone uses the one pool
    at,           \* socket.data: the roomCode and playerId a socket believes in
    rooms,        \* the room table; a code with open = FALSE is not a key of it
    maintenance,  \* the operator's switch
    lost          \* history: codes whose result was handed to a closed store

vars == <<up, connected, queue, at, rooms, maintenance, lost>>

Statuses == {"countdown", "playing", "finished"}
Reasons == {"topout", "forfeit"}
Replays == {"none", "whole", "partial"}
MaxIdle == IdleTtl + 1

\* What store.recordMatch is given, as far as the properties look.
Results == [names : [Seats -> Sockets \cup {Null}], winner : Seats \cup {Null},
            reason : Reasons, replay : Replays]

Room == [open : BOOLEAN,
         seats : [Seats -> Sockets \cup {Null}],   \* room.sockets
         names : [Seats -> Sockets \cup {Null}],   \* room.identities, Null a guest side
         status : Statuses,                        \* room.state.status
         winner : Seats \cup {Null},               \* room.state.winner
         started : BOOLEAN,
         concluded : BOOLEAN,
         frame : 0..MaxFrame,                      \* room.state.frame, saturating
         ticks : 0..MaxReplayTicks,                \* room.recorder.ticks
         idle : 0..MaxIdle,                        \* time since room.touchedAt
         saved : Seq(Results)]                     \* history: what persist pushed

Nowhere == [room |-> Null, seat |-> 0]
Empty == [p \in Seats |-> Null]

NewRoom(s0, s1) ==
    [open |-> TRUE, seats |-> [p \in Seats |-> IF p = 0 THEN s0 ELSE s1],
     names |-> Empty, status |-> "countdown", winner |-> Null,
     started |-> s1 # Null, concluded |-> FALSE, frame |-> 0, ticks |-> 0,
     idle |-> 0, saved |-> <<>>]

\* The value of a code that names no room.
NoRoom == [NewRoom(Null, Null) EXCEPT !.open = FALSE]

OpenRooms(table) == {c \in Codes : table[c].open}
AtCapacity(table) == Cardinality(OpenRooms(table)) >= MaxRooms
BothSeated(r) == r.seats[0] # Null /\ r.seats[1] # Null
Live(r) == r.open /\ BothSeated(r) /\ r.status # "finished"

-----------------------------------------------------------------------------
(* Seating, concluding and leaving: helpers the handlers share.            *)

SeatRoom(r, s, p) ==
    LET seated == [r EXCEPT !.seats[p] = s, !.names[p] = s, !.idle = 0]
    IN  [seated EXCEPT !.started = @ \/ BothSeated(seated)]

\* The replay persist attaches: the recorder stops at MaxReplayTicks, the match
\* does not.
ReplayOf(r) ==
    IF r.ticks > 0 /\ r.ticks <= MaxReplayTicks
    THEN IF r.ticks = r.frame THEN "whole" ELSE "partial"
    ELSE "none"

Persist(r, winner, reason) ==
    [r EXCEPT !.saved = Append(@, [names |-> r.names, winner |-> winner,
                                   reason |-> reason, replay |-> ReplayOf(r)]),
              !.ticks = 0]

\* Mutant: no memory of having concluded.
ConcludeAgain(r, winner, reason) ==
    Persist([r EXCEPT !.concluded = TRUE, !.idle = 0, !.status = "finished",
                      !.winner = IF r.status = "finished" THEN @ ELSE winner], winner, reason)

Conclude(r, winner, reason) ==
    IF r.concluded THEN r
    ELSE LET ended == [r EXCEPT !.concluded = TRUE, !.idle = 0,
                                !.winner = IF r.status = "finished" THEN @ ELSE winner,
                                !.status = "finished"]
         IN  Persist(ended, winner, reason)

\* Mutants: the leaver wins; the leaver's name goes with the seat; the room is
\* deleted with a match in it; the empty room stays.
VacateSeatLeaverWins(r, p) ==
    LET vacant == [r EXCEPT !.seats[p] = Null, !.idle = 0]
        left == IF r.started /\ ~r.concluded THEN Conclude(vacant, p, "forfeit") ELSE vacant
    IN  IF left.seats = Empty THEN NoRoom ELSE left
VacateSeatNameless(r, p) ==
    LET vacant == [r EXCEPT !.seats[p] = Null, !.names[p] = Null, !.idle = 0]
        left == IF r.started /\ ~r.concluded THEN Conclude(vacant, Other(p), "forfeit") ELSE vacant
    IN  IF left.seats = Empty THEN NoRoom ELSE left
VacateSeatDroppingRoom(r, p) == NoRoom
VacateSeatKeepingRoom(r, p) ==
    LET vacant == [r EXCEPT !.seats[p] = Null, !.idle = 0]
    IN  IF r.started /\ ~r.concluded THEN Conclude(vacant, Other(p), "forfeit") ELSE vacant

VacateSeat(r, p) ==
    LET vacant == [r EXCEPT !.seats[p] = Null, !.idle = 0]
        left == IF r.started /\ ~r.concluded
                THEN Conclude(vacant, Other(p), "forfeit")
                ELSE vacant
    IN  IF left.seats = Empty THEN NoRoom ELSE left

\* The room table once leaveCurrentRoom(s) has run; at[s] becomes Nowhere.  A
\* socket can believe in a room that is gone, or that is not its own any more.
AfterLeave(s) ==
    LET c == at[s].room
        p == at[s].seat
    IN  IF c # Null /\ rooms[c].open /\ rooms[c].seats[p] = s
        THEN [rooms EXCEPT ![c] = VacateSeat(@, p)]
        ELSE rooms

\* MatchmakingQueue.remove: find the ticket and splice it out.
Dequeue(q, s) ==
    IF \E i \in 1..Len(q) : q[i] = s
    THEN LET i == CHOOSE i \in 1..Len(q) : q[i] = s
         IN  SubSeq(q, 1, i - 1) \o SubSeq(q, i + 1, Len(q))
    ELSE q

\* MatchmakingQueue.enqueue: the new queue, and the opponent taken from it.
Enqueue(q, s) ==
    IF \E i \in 1..Len(q) : q[i] = s THEN [queue |-> q, opponent |-> Null]
    ELSE IF q = <<>> THEN [queue |-> <<s>>, opponent |-> Null]
    ELSE [queue |-> Tail(q), opponent |-> Head(q)]

-----------------------------------------------------------------------------
(* Socket handlers.                                                        *)

Connect(s) ==
    /\ up /\ s \notin connected
    /\ connected' = connected \cup {s}
    /\ UNCHANGED <<up, queue, at, rooms, maintenance, lost>>

Disconnect(s) ==
    /\ up /\ s \in connected
    /\ connected' = connected \ {s}
    /\ queue' = Dequeue(queue, s)
    /\ rooms' = AfterLeave(s)
    /\ at' = [at EXCEPT ![s] = Nowhere]
    /\ UNCHANGED <<up, maintenance, lost>>

\* matchmaking:join while the operator or the room limit refuses new matches.
MatchmakingRefused(s) ==
    /\ up /\ s \in connected
    /\ rooms' = AfterLeave(s)
    /\ maintenance \/ AtCapacity(rooms')
    /\ at' = [at EXCEPT ![s] = Nowhere]
    /\ UNCHANGED <<up, connected, queue, maintenance, lost>>

\* matchmaking:join with nobody to play: the socket waits (or goes on waiting).
MatchmakingWait(s) ==
    LET pairing == Enqueue(queue, s)
    IN  /\ up /\ s \in connected
        /\ rooms' = AfterLeave(s)
        /\ ~maintenance /\ ~AtCapacity(rooms')
        /\ pairing.opponent = Null
        /\ queue' = pairing.queue
        /\ at' = [at EXCEPT ![s] = Nowhere]
        /\ UNCHANGED <<up, connected, maintenance, lost>>

\* matchmaking:join with an opponent waiting.  Were the opponent gone, the
\* caller would be put back in the queue.
MatchmakingPair(s) ==
    LET pairing == Enqueue(queue, s)
        o == pairing.opponent
        left == AfterLeave(s)
    IN  /\ up /\ s \in connected
        /\ ~maintenance /\ ~AtCapacity(left)
        /\ o # Null
        /\ IF o \in connected
           THEN \E c \in Codes \ OpenRooms(left) :
                  /\ rooms' = [left EXCEPT ![c] =
                                 SeatRoom(SeatRoom(NewRoom(o, s), o, 0), s, 1)]
                  /\ at' = [at EXCEPT ![o] = [room |-> c, seat |-> 0],
                                      ![s] = [room |-> c, seat |-> 1]]
                  /\ queue' = pairing.queue
           ELSE /\ rooms' = left
                /\ at' = [at EXCEPT ![s] = Nowhere]
                /\ queue' = Enqueue(pairing.queue, s).queue
        /\ UNCHANGED <<up, connected, maintenance, lost>>

MatchmakingCancel(s) ==
    /\ up /\ s \in connected
    /\ queue' = Dequeue(queue, s)
    /\ UNCHANGED <<up, connected, at, rooms, maintenance, lost>>

RoomCreateRefused(s) ==
    /\ up /\ s \in connected
    /\ queue' = Dequeue(queue, s)
    /\ rooms' = AfterLeave(s)
    /\ maintenance \/ AtCapacity(rooms')
    /\ at' = [at EXCEPT ![s] = Nowhere]
    /\ UNCHANGED <<up, connected, maintenance, lost>>

\* Mutant: the creator goes on searching.
RoomCreateStillQueued(s) ==
    LET left == AfterLeave(s)
    IN  /\ up /\ s \in connected
        /\ ~maintenance /\ ~AtCapacity(left)
        /\ \E c \in Codes \ OpenRooms(left) :
             /\ rooms' = [left EXCEPT ![c] = SeatRoom(NewRoom(s, Null), s, 0)]
             /\ at' = [at EXCEPT ![s] = [room |-> c, seat |-> 0]]
        /\ UNCHANGED <<up, connected, queue, maintenance, lost>>

RoomCreate(s) ==
    LET left == AfterLeave(s)
    IN  /\ up /\ s \in connected
        /\ queue' = Dequeue(queue, s)
        /\ ~maintenance /\ ~AtCapacity(left)
        /\ \E c \in Codes \ OpenRooms(left) :
             /\ rooms' = [left EXCEPT ![c] = SeatRoom(NewRoom(s, Null), s, 0)]
             /\ at' = [at EXCEPT ![s] = [room |-> c, seat |-> 0]]
        /\ UNCHANGED <<up, connected, maintenance, lost>>

\* Mutant: the switch does not cover private rooms.
JoinableInMaintenance(r) == r.open /\ r.seats[1] = Null /\ r.status # "finished"

\* Whether room:join lets a second player into room r.
Joinable(r) == r.open /\ r.seats[1] = Null /\ r.status # "finished" /\ ~maintenance

\* Mutant: the caller keeps the seat it had.
RoomJoinWithoutLeaving(s, c) ==
    /\ up /\ s \in connected
    /\ queue' = Dequeue(queue, s)
    /\ Joinable(rooms[c])
    /\ rooms' = [rooms EXCEPT ![c] = SeatRoom(@, s, 1)]
    /\ at' = [at EXCEPT ![s] = [room |-> c, seat |-> 1]]
    /\ UNCHANGED <<up, connected, maintenance, lost>>

RoomJoin(s, c) ==
    LET left == AfterLeave(s)
    IN  /\ up /\ s \in connected
        /\ queue' = Dequeue(queue, s)
        /\ Joinable(left[c])
        /\ rooms' = [left EXCEPT ![c] = SeatRoom(@, s, 1)]
        /\ at' = [at EXCEPT ![s] = [room |-> c, seat |-> 1]]
        /\ UNCHANGED <<up, connected, maintenance, lost>>

\* The early returns of room:join come after the caller has left its own room.
RoomJoinRefused(s, c) ==
    /\ up /\ s \in connected
    /\ queue' = Dequeue(queue, s)
    /\ rooms' = AfterLeave(s)
    /\ ~Joinable(rooms'[c])
    /\ at' = [at EXCEPT ![s] = Nowhere]
    /\ UNCHANGED <<up, connected, maintenance, lost>>

\* match:input within its budget: whichever room has the code the socket
\* remembers is kept from idling out, finished or not, its seat or not.
MatchInput(s) ==
    LET c == at[s].room
    IN  /\ up /\ s \in connected
        /\ c # Null /\ rooms[c].open
        /\ rooms' = [rooms EXCEPT ![c].idle = 0]
        /\ UNCHANGED <<up, connected, queue, at, maintenance, lost>>

-----------------------------------------------------------------------------
(* Timers, the operator and the signal handler.                            *)

\* The statuses and winners one step of the core can lead to.
StepOutcomes(status) ==
    IF status = "countdown"
    THEN {[status |-> t, winner |-> Null] : t \in {"countdown", "playing"}}
    ELSE {[status |-> "playing", winner |-> Null]}
         \cup [status : {"finished"}, winner : Seats \cup {Null}]

\* Mutant: the recorder never stops.
Uncapped(n, cap) == n

Capped(n, cap) == IF n > cap THEN cap ELSE n

TickRoom(r, out) ==
    LET stepped == [r EXCEPT !.status = out.status, !.winner = out.winner,
                             !.frame = Capped(@ + 1, MaxFrame),
                             !.ticks = Capped(@ + 1, MaxReplayTicks), !.idle = 0]
    IN  IF out.status = "finished" THEN Conclude(stepped, out.winner, "topout") ELSE stepped

\* tickRooms: one simulation step of every live room.
Tick ==
    LET live == {c \in Codes : Live(rooms[c])}
    IN  /\ up /\ live # {}
        /\ \E out \in [live -> UNION {StepOutcomes(rooms[c].status) : c \in live}] :
             /\ \A c \in live : out[c] \in StepOutcomes(rooms[c].status)
             /\ rooms' = [c \in Codes |-> IF c \in live THEN TickRoom(rooms[c], out[c])
                                          ELSE rooms[c]]
        /\ UNCHANGED <<up, connected, queue, at, maintenance, lost>>

\* A unit of room-lifetime time.  The pump fires every 5 ms and a unit stands
\* for many seconds, so no unit passes in which a live room was not stepped.
Elapse ==
    /\ up
    /\ \A c \in Codes : Live(rooms[c]) => rooms[c].idle = 0
    /\ \E c \in Codes : rooms[c].open /\ rooms[c].idle < MaxIdle
    /\ rooms' = [c \in Codes |-> IF rooms[c].open
                                 THEN [rooms[c] EXCEPT !.idle = Capped(@ + 1, MaxIdle)]
                                 ELSE rooms[c]]
    /\ UNCHANGED <<up, connected, queue, at, maintenance, lost>>

\* Mutant: only abandoned rooms are reaped.
ShouldReapEmptyOnly(r) == r.seats = Empty

ShouldReap(r) ==
    \/ r.seats = Empty
    \/ r.status = "finished" /\ r.idle > FinishedTtl
    \/ r.idle > IdleTtl

\* The sockets still seated in a reaped room are not told.
Janitor ==
    LET reaped == {c \in Codes : rooms[c].open /\ ShouldReap(rooms[c])}
    IN  /\ up /\ reaped # {}
        /\ rooms' = [c \in Codes |-> IF c \in reaped THEN NoRoom ELSE rooms[c]]
        /\ UNCHANGED <<up, connected, queue, at, maintenance, lost>>

\* The operator ends a room: whoever is alone in it wins.
CloseRoom(c) ==
    LET r == rooms[c]
        winner == IF r.seats[0] # Null /\ r.seats[1] = Null THEN 0
                  ELSE IF r.seats[0] = Null /\ r.seats[1] # Null THEN 1
                  ELSE Null
    IN  /\ up /\ r.open
        /\ rooms' = [rooms EXCEPT ![c] = Conclude(@, winner, "forfeit")]
        /\ UNCHANGED <<up, connected, queue, at, maintenance, lost>>

SetMaintenance(on) ==
    /\ up
    /\ maintenance' = on
    /\ UNCHANGED <<up, connected, queue, at, rooms, lost>>

\* SIGINT or SIGTERM: the timers stop, the store closes, and only then does
\* io.close() drop every socket, whose disconnect handlers forfeit what runs.
Shutdown ==
    /\ up
    /\ up' = FALSE
    /\ connected' = {}
    /\ queue' = <<>>
    /\ at' = [s \in Sockets |-> Nowhere]
    /\ rooms' = [c \in Codes |-> NoRoom]
    /\ lost' = {c \in Codes : rooms[c].open /\ rooms[c].started /\ ~rooms[c].concluded}
    /\ UNCHANGED maintenance

-----------------------------------------------------------------------------

Init ==
    /\ up = TRUE
    /\ connected = {}
    /\ queue = <<>>
    /\ at = [s \in Sockets |-> Nowhere]
    /\ rooms = [c \in Codes |-> NoRoom]
    /\ maintenance = FALSE
    /\ lost = {}

Client(s) ==
    \/ Connect(s)
    \/ Disconnect(s)
    \/ MatchmakingRefused(s)
    \/ MatchmakingWait(s)
    \/ MatchmakingPair(s)
    \/ MatchmakingCancel(s)
    \/ RoomCreateRefused(s)
    \/ RoomCreate(s)
    \/ \E c \in Codes : RoomJoin(s, c)
    \/ \E c \in Codes : RoomJoinRefused(s, c)
    \/ MatchInput(s)

Operator ==
    \/ \E c \in Codes : CloseRoom(c)
    \/ \E on \in BOOLEAN : SetMaintenance(on)
    \/ Shutdown

Next ==
    \/ \E s \in Sockets : Client(s)
    \/ Operator
    \/ Tick
    \/ Elapse
    \/ Janitor

Spec == Init /\ [][Next]_vars

\* The timers keep firing; clients and the operator owe the server nothing.
FairSpec == Spec /\ WF_vars(Tick) /\ WF_vars(Elapse) /\ WF_vars(Janitor)

-----------------------------------------------------------------------------
(* Properties.                                                             *)

\* The state has the shape the code gives it.
TypeOK ==
    /\ up \in BOOLEAN
    /\ connected \in SUBSET Sockets
    /\ queue \in Seq(Sockets)
    /\ at \in [Sockets -> [room : Codes \cup {Null}, seat : Seats]]
    /\ rooms \in [Codes -> Room]
    /\ maintenance \in BOOLEAN
    /\ lost \in SUBSET Codes

\* A seat belongs to a connected socket that knows it sits there.  Hence a
\* socket holds at most one seat of one room, whatever order it joins, creates,
\* searches and drops in, and no seat outlives its socket.
SeatsMatchSockets ==
    \A c \in Codes, p \in Seats :
        LET s == rooms[c].seats[p]
        IN  s # Null => s \in connected /\ at[s] = [room |-> c, seat |-> p]

\* Whoever is in the matchmaking queue is connected and sits nowhere, so the
\* pairing can never pull a player out of another match, and two players never
\* wait beside each other.
WaiterIsFreeAndAlone ==
    /\ Len(queue) <= 1
    /\ \A i \in 1..Len(queue) : queue[i] \in connected /\ at[queue[i]] = Nowhere

\* Outside a running handler, a room is waiting (host only), live (two
\* players) or concluded; only a match that is over can have lost a player.
RoomPhases ==
    \A c \in Codes : LET r == rooms[c] IN r.open =>
        /\ r.seats # Empty
        /\ r.concluded <=> r.status = "finished"
        /\ ~r.started => r.seats[0] # Null /\ r.seats[1] = Null /\ r.status # "playing"
        /\ r.started /\ ~r.concluded => BothSeated(r)

\* persist runs once for a room that is concluded, however many ways it ended
\* (top-out, departure, operator), and never for one that is not; what it
\* pushed agrees with the result the room shows.
SavedExactlyOnce ==
    \A c \in Codes : LET r == rooms[c] IN
        /\ Len(r.saved) = IF r.concluded THEN 1 ELSE 0
        /\ r.concluded => r.saved[1].winner = r.winner

\* A forfeit is credited to the player who stayed: while the room exists, its
\* winner still sits there and the other seat is empty.
ForfeitGoesToTheStayer ==
    \A c \in Codes : LET r == rooms[c] IN
        r.concluded /\ r.saved[1].reason = "forfeit" /\ r.winner # Null =>
            r.seats[r.winner] # Null /\ r.seats[Other(r.winner)] = Null

\* The saved result names both players of the match, also the one who left
\* before it was saved, and nobody who came later.
ResultNamesThePlayers ==
    \A c \in Codes : LET r == rooms[c] IN
        /\ \A p \in Seats : r.seats[p] # Null => r.names[p] = r.seats[p]
        /\ r.started => r.names[0] # Null /\ r.names[1] # Null
        /\ r.concluded => r.saved[1].names = r.names

\* Under maintenance no room is opened and no match starts; running ones go on.
NothingStartsInMaintenance ==
    [][maintenance => \A c \in Codes :
          /\ rooms'[c].open => rooms[c].open
          /\ rooms'[c].started => rooms[c].started]_vars

\* A room without a running match (nobody joined it, or its match is over) is
\* reclaimed in the end although its players stay connected and never leave it,
\* once no input touches it and nobody opens rooms anew under its code.
IdleRoomReclaimed ==
    <>[][\A s \in Sockets : ~MatchInput(s) /\ ~RoomCreate(s)]_vars =>
        \A c \in Codes : (rooms[c].open /\ ~Live(rooms[c])) ~>
                          (~rooms[c].open \/ Live(rooms[c]))

\* server.ts, on shutdown: "Flush queued results before the process goes away."
\* A result that is queued for a match running at that moment reaches the store.
NoResultLost == lost = {}

=============================================================================
