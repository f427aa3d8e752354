---------------------------- MODULE RoomsProofs ----------------------------
(***************************************************************************)
(* The safety of the room table for every number of sockets, codes and     *)
(* every value of the limits.  The inductive invariant says of each room   *)
(* by itself what phase it can be in (GoodRoom), and of the whole state    *)
(* that seats, socket.data and the queue agree.                            *)
(*                                                                         *)
(* The second part shows that the room table implements MatchLifecycle.    *)
(* To the invariant it adds that a match that is not over has no winner,   *)
(* and that a live room is never idle long enough for the janitor: each    *)
(* step of the server is then a move of every code.                        *)
(***************************************************************************)
EXTENDS RoomsLifecycle, SequenceTheorems, TLAPS

\* What holds of one entry of the table between two handlers.
GoodRoom(r) ==
    /\ r \in Room
    /\ ~r.open => r = NoRoom
    /\ r.open => /\ r.seats[0] # Null \/ r.seats[1] # Null
                 /\ r.concluded <=> r.status = "finished"
                 /\ ~r.started => r.seats[0] # Null /\ r.seats[1] = Null /\ r.status # "playing"
                 /\ r.started /\ ~r.concluded => BothSeated(r)
    /\ ~r.concluded => r.saved = <<>>
    /\ r.concluded => /\ Len(r.saved) = 1
                      /\ r.saved[1].winner = r.winner
                      /\ r.saved[1].names = r.names
                      /\ r.saved[1].reason = "forfeit" /\ r.winner # Null =>
                            r.seats[r.winner] # Null /\ r.seats[Other(r.winner)] = Null
    /\ \A p \in Seats : r.seats[p] # Null => r.names[p] = r.seats[p]
    /\ r.started => r.names[0] # Null /\ r.names[1] # Null

IInv ==
    /\ up \in BOOLEAN
    /\ connected \in SUBSET Sockets
    /\ queue \in Seq(Sockets)
    /\ at \in [Sockets -> [room : Codes \cup {Null}, seat : Seats]]
    /\ rooms \in [Codes -> Room]
    /\ maintenance \in BOOLEAN
    /\ lost \in SUBSET Codes
    /\ \A c \in Codes : GoodRoom(rooms[c])
    /\ SeatsMatchSockets
    /\ WaiterIsFreeAndAlone

-----------------------------------------------------------------------------
(* One room.                                                               *)

LEMMA NullApart == Null \notin Sockets /\ Null \notin Codes /\ Null # 0 /\ Null # 1
  BY RoomsAssumption DEF Seats

LEMMA Bounds == /\ 0 \in 0..MaxIdle /\ 0 \in 0..MaxReplayTicks /\ 0 \in 0..MaxFrame
                /\ MaxIdle \in Nat /\ MaxReplayTicks \in Nat /\ MaxFrame \in Nat
  BY RoomsAssumption DEF MaxIdle

LEMMA SeatNumbers == 0 \in Seats /\ 1 \in Seats
  BY DEF Seats

LEMMA NewRoomType ==
  ASSUME NEW s \in Sockets \cup {Null}, NEW t \in Sockets \cup {Null}
  PROVE  NewRoom(s, t) \in Room
  BY RoomsAssumption DEF NewRoom, Room, Seats, Empty, Statuses, MaxIdle, Results

\* The fields of a room that has just been created.
LEMMA NewRoomFields ==
  ASSUME NEW s, NEW t
  PROVE  /\ NewRoom(s, t).open
         /\ ~NewRoom(s, t).concluded
         /\ NewRoom(s, t).saved = <<>>
         /\ NewRoom(s, t).status = "countdown"
         /\ NewRoom(s, t).started = (t # Null)
         /\ NewRoom(s, t).seats = [p \in Seats |-> IF p = 0 THEN s ELSE t]
         /\ NewRoom(s, t).names = Empty
  BY DEF NewRoom

LEMMA NoRoomFields ==
  /\ ~NoRoom.open /\ ~NoRoom.concluded /\ NoRoom.saved = <<>> /\ ~NoRoom.started
  /\ NoRoom.status = "countdown"
  /\ \A p \in Seats : NoRoom.seats[p] = Null /\ NoRoom.names[p] = Null
  BY DEF NoRoom, NewRoom, Empty, Seats

LEMMA NoRoomGood == GoodRoom(NoRoom)
<1>1. NewRoom(Null, Null) \in Room
  BY NewRoomType
<1>2. NoRoom \in Room
  BY <1>1 DEF NoRoom, Room
<1>3. QED
  BY <1>2, NoRoomFields DEF GoodRoom, Seats

\* Seating a player: the fields it sets and those it leaves alone.
LEMMA SeatRoomFields ==
  ASSUME NEW r \in Room, NEW s \in Sockets, NEW p \in Seats
  PROVE  /\ SeatRoom(r, s, p) \in Room
         /\ SeatRoom(r, s, p).open = r.open
         /\ SeatRoom(r, s, p).concluded = r.concluded
         /\ SeatRoom(r, s, p).saved = r.saved
         /\ SeatRoom(r, s, p).status = r.status
         /\ SeatRoom(r, s, p).winner = r.winner
         /\ SeatRoom(r, s, p).seats = [r.seats EXCEPT ![p] = s]
         /\ SeatRoom(r, s, p).names = [r.names EXCEPT ![p] = s]
         /\ SeatRoom(r, s, p).started = (r.started \/ BothSeated(SeatRoom(r, s, p)))
<1> DEFINE seated == [r EXCEPT !.seats[p] = s, !.names[p] = s, !.idle = 0]
<1>1. /\ seated \in Room
      /\ seated.open = r.open /\ seated.concluded = r.concluded
      /\ seated.saved = r.saved /\ seated.status = r.status /\ seated.winner = r.winner
      /\ seated.started = r.started
      /\ seated.seats = [r.seats EXCEPT ![p] = s]
      /\ seated.names = [r.names EXCEPT ![p] = s]
  BY Bounds DEF Room
<1>2. SeatRoom(r, s, p) = [seated EXCEPT !.started = @ \/ BothSeated(seated)]
  BY DEF SeatRoom
<1>3. BothSeated(seated) \in BOOLEAN
  BY DEF BothSeated
<1> HIDE DEF seated
<1>4. /\ SeatRoom(r, s, p) \in Room
      /\ SeatRoom(r, s, p).open = seated.open
      /\ SeatRoom(r, s, p).concluded = seated.concluded
      /\ SeatRoom(r, s, p).saved = seated.saved
      /\ SeatRoom(r, s, p).status = seated.status
      /\ SeatRoom(r, s, p).winner = seated.winner
      /\ SeatRoom(r, s, p).seats = seated.seats
      /\ SeatRoom(r, s, p).names = seated.names
      /\ SeatRoom(r, s, p).started = (seated.started \/ BothSeated(seated))
  BY <1>1, <1>2, <1>3 DEF Room
<1>5. BothSeated(seated) = BothSeated(SeatRoom(r, s, p))
  BY <1>4 DEF BothSeated
<1>6. QED
  BY <1>1, <1>4, <1>5

\* A room the host has just opened.
LEMMA HostedRoomGood ==
  ASSUME NEW s \in Sockets
  PROVE  LET r == SeatRoom(NewRoom(s, Null), s, 0)
         IN  /\ GoodRoom(r) /\ r.open
             /\ r.seats[0] = s /\ r.seats[1] = Null
<1> DEFINE n == NewRoom(s, Null)
           r == SeatRoom(n, s, 0)
<1>1. /\ n \in Room /\ n.open /\ ~n.concluded /\ n.saved = <<>>
      /\ n.status = "countdown" /\ n.started = FALSE
      /\ n.seats[0] = s /\ n.seats[1] = Null /\ n.names[0] = Null /\ n.names[1] = Null
      /\ n.seats \in [Seats -> Sockets \cup {Null}]
      /\ n.names \in [Seats -> Sockets \cup {Null}]
  <2>1. n \in Room
    BY NewRoomType
  <2>2. /\ n.open /\ ~n.concluded /\ n.saved = <<>> /\ n.status = "countdown"
        /\ n.started = (Null # Null)
        /\ n.seats = [p \in Seats |-> IF p = 0 THEN s ELSE Null] /\ n.names = Empty
    BY NewRoomFields
  <2> HIDE DEF n
  <2>3. n.seats[0] = s /\ n.seats[1] = Null /\ n.names[0] = Null /\ n.names[1] = Null
    BY <2>2, SeatNumbers DEF Empty
  <2>4. n.seats \in [Seats -> Sockets \cup {Null}] /\ n.names \in [Seats -> Sockets \cup {Null}]
    BY <2>1 DEF Room
  <2>5. QED
    BY <2>1, <2>2, <2>3, <2>4
<1> HIDE DEF n
<1>2. /\ r \in Room /\ r.open /\ ~r.concluded /\ r.saved = <<>>
      /\ r.status = "countdown" /\ r.started = (n.started \/ BothSeated(r))
      /\ r.seats = [n.seats EXCEPT ![0] = s] /\ r.names = [n.names EXCEPT ![0] = s]
  BY <1>1, SeatRoomFields, SeatNumbers
<1>3. /\ r.seats[0] = s /\ r.seats[1] = Null /\ r.names[0] = s
  BY <1>1, <1>2 DEF Seats
<1> HIDE DEF r
<1>4. r.started = FALSE
  BY <1>1, <1>2, <1>3 DEF BothSeated
<1>5. GoodRoom(r)
  BY <1>2, <1>3, <1>4, NullApart DEF GoodRoom, Seats
<1>6. QED
  BY <1>2, <1>3, <1>5 DEF r, n

\* The second seat of a room that is not over is taken.
LEMMA SecondSeatGood ==
  ASSUME NEW r \in Room, r.open, ~r.concluded, r.saved = <<>>, r.status # "finished",
         r.seats[0] # Null, r.names[0] = r.seats[0], NEW s \in Sockets
  PROVE  LET j == SeatRoom(r, s, 1)
         IN  /\ GoodRoom(j) /\ j.open
             /\ j.seats[0] = r.seats[0] /\ j.seats[1] = s
<1> DEFINE j == SeatRoom(r, s, 1)
<1>1. /\ j \in Room /\ j.open /\ ~j.concluded /\ j.saved = <<>>
      /\ j.status = r.status /\ j.started = (r.started \/ BothSeated(j))
      /\ j.seats = [r.seats EXCEPT ![1] = s] /\ j.names = [r.names EXCEPT ![1] = s]
  BY SeatRoomFields, SeatNumbers
<1>2. /\ j.seats[0] = r.seats[0] /\ j.seats[1] = s
      /\ j.names[0] = r.names[0] /\ j.names[1] = s
  BY <1>1 DEF Seats, Room
<1> HIDE DEF j
<1>3. BothSeated(j) /\ j.started = TRUE
  BY <1>1, <1>2, NullApart DEF BothSeated
<1>4. GoodRoom(j)
  BY <1>1, <1>2, <1>3, NullApart DEF GoodRoom, Seats
<1>5. QED
  BY <1>1, <1>2, <1>4 DEF j

\* A room a second player joins: Joinable has checked its seat and its status.
LEMMA JoinedRoomGood ==
  ASSUME NEW r, GoodRoom(r), r.open, r.seats[1] = Null, r.status # "finished",
         NEW s \in Sockets
  PROVE  LET j == SeatRoom(r, s, 1)
         IN  /\ GoodRoom(j) /\ j.open
             /\ j.seats[0] = r.seats[0] /\ j.seats[1] = s
<1>1. /\ r \in Room /\ ~r.concluded /\ r.saved = <<>>
      /\ r.seats[0] # Null /\ r.names[0] = r.seats[0]
  BY DEF GoodRoom, Seats
<1>2. QED
  BY <1>1, SecondSeatGood

\* A room two players from the queue are put in.
LEMMA PairedRoomGood ==
  ASSUME NEW o \in Sockets, NEW s \in Sockets
  PROVE  LET r == SeatRoom(SeatRoom(NewRoom(o, s), o, 0), s, 1)
         IN  /\ GoodRoom(r) /\ r.open
             /\ r.seats[0] = o /\ r.seats[1] = s
<1> DEFINE n == NewRoom(o, s)
           m == SeatRoom(n, o, 0)
<1>1. /\ n \in Room /\ n.open /\ ~n.concluded /\ n.saved = <<>>
      /\ n.status = "countdown"
  BY NewRoomType, NewRoomFields, ZenonT(60)
<1> HIDE DEF n
<1>2. /\ m \in Room /\ m.open /\ ~m.concluded /\ m.saved = <<>>
      /\ m.status = "countdown"
      /\ m.seats = [n.seats EXCEPT ![0] = o] /\ m.names = [n.names EXCEPT ![0] = o]
  BY <1>1, SeatRoomFields, SeatNumbers
<1>3. m.seats[0] = o /\ m.names[0] = o
  BY <1>1, <1>2 DEF Seats, Room
<1> HIDE DEF m
<1>4. m \in Room /\ m.open /\ ~m.concluded /\ m.saved = <<>> /\ m.status # "finished"
  BY <1>2
<1>5. LET r == SeatRoom(m, s, 1)
      IN  GoodRoom(r) /\ r.open /\ r.seats[0] = m.seats[0] /\ r.seats[1] = s
  BY <1>3, <1>4, NullApart, SecondSeatGood
<1>6. QED
  BY <1>3, <1>5 DEF m, n

\* Concluding a room keeps its seats, and saves one result.
LEMMA ConcludeSaves ==
  ASSUME NEW r \in Room, NEW w \in Seats \cup {Null}, NEW why \in Reasons,
         ~r.concluded, r.saved = <<>>
  PROVE  LET e == Conclude(r, w, why)
         IN  /\ e \in Room
             /\ e.open = r.open /\ e.seats = r.seats /\ e.names = r.names
             /\ e.started = r.started /\ e.concluded /\ e.status = "finished"
             /\ e.winner = IF r.status = "finished" THEN r.winner ELSE w
             /\ Len(e.saved) = 1
             /\ e.saved[1].names = r.names
             /\ e.saved[1].winner = w
             /\ e.saved[1].reason = why
<1> DEFINE d == [r EXCEPT !.concluded = TRUE, !.idle = 0,
                          !.winner = IF r.status = "finished" THEN @ ELSE w,
                          !.status = "finished"]
           out == [names |-> d.names, winner |-> w, reason |-> why, replay |-> ReplayOf(d)]
           e == Persist(d, w, why)
<1>1. Conclude(r, w, why) = e
  BY DEF Conclude
<1>2. d \in Room
  BY Bounds DEF Room, Statuses
<1>3. /\ d.open = r.open /\ d.seats = r.seats /\ d.names = r.names
      /\ d.started = r.started /\ d.concluded = TRUE /\ d.status = "finished"
      /\ d.winner = (IF r.status = "finished" THEN r.winner ELSE w)
      /\ d.saved = <<>>
  BY DEF Room
<1> HIDE DEF d
<1>4. out \in Results
  BY <1>2 DEF Results, Room, ReplayOf, Replays
<1>5. e = [d EXCEPT !.saved = Append(@, out), !.ticks = 0]
  BY DEF Persist
<1> HIDE DEF out
<1>6. Append(d.saved, out) \in Seq(Results) /\ Append(d.saved, out) = <<out>>
  BY <1>3, <1>4
<1>7. /\ e \in Room
      /\ e.open = d.open /\ e.seats = d.seats /\ e.names = d.names
      /\ e.started = d.started /\ e.concluded = d.concluded /\ e.status = d.status
      /\ e.winner = d.winner /\ e.saved = <<out>>
  BY <1>2, <1>5, <1>6, Bounds DEF Room
<1>8. out.names = r.names /\ out.winner = w /\ out.reason = why
  BY <1>3 DEF out
<1> HIDE DEF e
<1>9. QED
  BY <1>1, <1>3, <1>7, <1>8

\* A player leaves: the room is gone with its last player, and otherwise is a
\* room that is waiting, or one that is over with the other player its winner.
LEMMA VacateGood ==
  ASSUME NEW r, GoodRoom(r), r.open, NEW p \in Seats, r.seats[p] # Null
  PROVE  LET v == VacateSeat(r, p)
         IN  /\ GoodRoom(v)
             /\ v.seats[p] = Null
             /\ v.seats[Other(p)] # Null => v.seats[Other(p)] = r.seats[Other(p)]
<1> DEFINE q == Other(p)
           vacant == [r EXCEPT !.seats[p] = Null, !.idle = 0]
           gone == r.started /\ ~r.concluded
           e == Conclude(vacant, q, "forfeit")
           left == IF gone THEN e ELSE vacant
<1>1. r \in Room /\ q \in Seats /\ p \in Seats /\ q # p
  BY DEF GoodRoom, Seats, Other
<1>2. /\ vacant \in Room /\ vacant.open = r.open /\ vacant.names = r.names
      /\ vacant.status = r.status /\ vacant.winner = r.winner
      /\ vacant.started = r.started /\ vacant.concluded = r.concluded
      /\ vacant.saved = r.saved
      /\ vacant.seats = [r.seats EXCEPT ![p] = Null]
  BY <1>1, Bounds DEF Room
<1>3. vacant.seats[p] = Null /\ vacant.seats[q] = r.seats[q]
  BY <1>1, <1>2 DEF Room
<1>4. VacateSeat(r, p) = IF left.seats = Empty THEN NoRoom ELSE left
  BY DEF VacateSeat
<1> HIDE DEF vacant
<1>5. CASE gone
  <2>1. /\ BothSeated(r) /\ r.saved = <<>> /\ r.status # "finished"
        /\ \A i \in Seats : r.seats[i] # Null => r.names[i] = r.seats[i]
        /\ r.names[0] # Null /\ r.names[1] # Null
    BY <1>5 DEF GoodRoom
  <2>2. /\ e \in Room /\ e.open = vacant.open /\ e.seats = vacant.seats
        /\ e.names = vacant.names /\ e.started = vacant.started /\ e.concluded
        /\ e.status = "finished" /\ e.winner = q
        /\ Len(e.saved) = 1 /\ e.saved[1].names = vacant.names
        /\ e.saved[1].winner = q /\ e.saved[1].reason = "forfeit"
    <3>1. /\ vacant \in Room /\ ~vacant.concluded /\ vacant.saved = <<>>
          /\ q \in Seats \cup {Null} /\ "forfeit" \in Reasons
          /\ vacant.status # "finished"
      BY <1>1, <1>2, <1>5, <2>1 DEF Reasons
    <3> HIDE DEF q
    <3>2. QED
      BY <3>1, ConcludeSaves
  <2>3. r.seats[q] # Null
    BY <1>1, <2>1 DEF BothSeated, Seats
  <2>4. left = e
    BY <1>5
  <2> HIDE DEF e, left
  <2>5. left.seats # Empty
    BY <1>1, <1>3, <2>2, <2>3, <2>4 DEF Empty
  <2>6. Other(q) = p /\ e.seats[p] = Null /\ e.seats[q] = r.seats[q]
    BY <1>3, <2>2 DEF Other, Seats
  <2>7. GoodRoom(e)
    <3>1. \A i \in Seats : e.seats[i] # Null => i = q
      BY <1>1, <2>6 DEF Seats
    <3>2. e.seats[0] # Null \/ e.seats[1] # Null
      BY <1>1, <2>3, <2>6 DEF Seats
    <3>3. e.names[q] = e.seats[q]
      BY <1>1, <1>2, <2>1, <2>2, <2>3, <2>6
    <3>4. e.open /\ e.started /\ e.names[0] # Null /\ e.names[1] # Null
      BY <1>2, <1>5, <2>1, <2>2
    <3>5. QED
      BY <1>2, <2>2, <2>3, <2>6, <3>1, <3>2, <3>3, <3>4 DEF GoodRoom
  <2>8. QED
    BY <1>4, <2>4, <2>5, <2>6, <2>7
<1>6. CASE ~gone
  <2>1. left = vacant
    BY <1>6
  <2>2. CASE left.seats = Empty
    BY <1>1, <1>4, <2>2, NoRoomGood, NoRoomFields
  <2>3. CASE left.seats # Empty
    <3>1. r.seats[q] # Null
      BY <1>1, <1>2, <1>3, <2>1, <2>3 DEF Empty, Room, Seats
    <3>2. r.concluded
      BY <1>1, <1>6, <3>1 DEF GoodRoom, Seats
    <3>3. GoodRoom(vacant)
      <4>1. vacant.seats[0] # Null \/ vacant.seats[1] # Null
        BY <1>1, <1>3, <3>1 DEF Seats
      <4>2. \A i \in Seats : vacant.seats[i] # Null => vacant.names[i] = vacant.seats[i]
        BY <1>1, <1>2, <1>3, <3>1 DEF GoodRoom, Seats
      <4>3. ~(r.saved[1].reason = "forfeit" /\ r.winner # Null)
        BY <1>1, <3>1, <3>2 DEF GoodRoom, Seats, Other, Room
      <4>4. vacant.started => vacant.names[0] # Null /\ vacant.names[1] # Null
        BY <1>2 DEF GoodRoom
      <4>5. r.status = "finished" /\ r.started
        BY <1>1, <3>1, <3>2 DEF GoodRoom, Seats
      <4>6. QED
        BY <1>2, <3>2, <4>1, <4>2, <4>3, <4>4, <4>5 DEF GoodRoom
    <3>4. QED
      BY <1>3, <1>4, <2>1, <2>3, <3>3
  <2>4. QED
    BY <2>2, <2>3
<1>7. QED
  BY <1>5, <1>6

\* A tick of a live room ends its match, with one saved result, or leaves it live.
LEMMA TickGood ==
  ASSUME NEW r, GoodRoom(r), Live(r), NEW out \in StepOutcomes(r.status)
  PROVE  GoodRoom(TickRoom(r, out)) /\ TickRoom(r, out).seats = r.seats
<1> DEFINE stepped == [r EXCEPT !.status = out.status, !.winner = out.winner,
                                !.frame = Capped(@ + 1, MaxFrame),
                                !.ticks = Capped(@ + 1, MaxReplayTicks), !.idle = 0]
           e == Conclude(stepped, out.winner, "topout")
<1>1. /\ r \in Room /\ r.open /\ BothSeated(r) /\ ~r.concluded /\ r.saved = <<>>
      /\ r.started
      /\ \A p \in Seats : r.seats[p] # Null => r.names[p] = r.seats[p]
      /\ r.names[0] # Null /\ r.names[1] # Null
  BY DEF GoodRoom, Live, BothSeated
<1>2. /\ out.status \in Statuses /\ out.winner \in Seats \cup {Null}
      /\ out.status \in {"countdown", "playing", "finished"}
  BY DEF StepOutcomes, Statuses
<1>3. /\ Capped(r.frame + 1, MaxFrame) \in 0..MaxFrame
      /\ Capped(r.ticks + 1, MaxReplayTicks) \in 0..MaxReplayTicks
  <2>1. r.frame \in 0..MaxFrame /\ r.ticks \in 0..MaxReplayTicks
    BY <1>1 DEF Room
  <2>2. QED
    BY <2>1, Bounds DEF Capped
<1>4. /\ stepped \in Room /\ stepped.open = r.open /\ stepped.seats = r.seats
      /\ stepped.names = r.names /\ stepped.started = r.started
      /\ stepped.concluded = r.concluded /\ stepped.saved = r.saved
      /\ stepped.status = out.status /\ stepped.winner = out.winner
  BY <1>1, <1>2, <1>3, Bounds DEF Room
<1>5. TickRoom(r, out) = IF out.status = "finished" THEN e ELSE stepped
  BY DEF TickRoom
<1> HIDE DEF stepped
<1>6. CASE out.status = "finished"
  <2>1. /\ stepped \in Room /\ ~stepped.concluded /\ stepped.saved = <<>>
        /\ out.winner \in Seats \cup {Null} /\ "topout" \in Reasons
    BY <1>1, <1>2, <1>4 DEF Reasons
  <2>2. /\ e \in Room /\ e.open = stepped.open /\ e.seats = stepped.seats
        /\ e.names = stepped.names /\ e.started = stepped.started /\ e.concluded
        /\ e.status = "finished"
        /\ e.winner = IF stepped.status = "finished" THEN stepped.winner ELSE out.winner
        /\ Len(e.saved) = 1 /\ e.saved[1].names = stepped.names
        /\ e.saved[1].winner = out.winner /\ e.saved[1].reason = "topout"
    BY <2>1, ConcludeSaves
  <2> HIDE DEF e
  <2>3. GoodRoom(e)
    BY <1>1, <1>4, <2>2 DEF GoodRoom, BothSeated
  <2>4. QED
    BY <1>4, <1>5, <1>6, <2>2, <2>3
<1>7. CASE out.status # "finished"
  <2>1. GoodRoom(stepped)
    BY <1>1, <1>4, <1>7 DEF GoodRoom, BothSeated
  <2>2. QED
    BY <1>4, <1>5, <1>7, <2>1
<1>8. QED
  BY <1>6, <1>7

\* The operator's verdict on a room: a winner only if one player is alone there.
LEMMA CloseGood ==
  ASSUME NEW r, GoodRoom(r), r.open, NEW w \in Seats \cup {Null},
         w # Null => r.seats[w] # Null /\ r.seats[Other(w)] = Null
  PROVE  LET e == Conclude(r, w, "forfeit")
         IN  GoodRoom(e) /\ e.seats = r.seats
<1> DEFINE e == Conclude(r, w, "forfeit")
<1>1. CASE r.concluded
  BY <1>1 DEF Conclude
<1>2. CASE ~r.concluded
  <2>1. /\ r \in Room /\ ~r.concluded /\ r.saved = <<>> /\ "forfeit" \in Reasons
        /\ r.status # "finished"
    BY <1>2 DEF GoodRoom, Reasons
  <2>2. /\ e \in Room /\ e.open = r.open /\ e.seats = r.seats
        /\ e.names = r.names /\ e.started = r.started /\ e.concluded
        /\ e.status = "finished"
        /\ e.winner = w
        /\ Len(e.saved) = 1 /\ e.saved[1].names = r.names
        /\ e.saved[1].winner = w /\ e.saved[1].reason = "forfeit"
    <3>1. \A x \in Room : ~x.concluded /\ x.saved = <<>> /\ x.status # "finished" =>
            LET y == Conclude(x, w, "forfeit")
            IN  /\ y \in Room /\ y.open = x.open /\ y.seats = x.seats
                /\ y.names = x.names /\ y.started = x.started /\ y.concluded
                /\ y.status = "finished" /\ y.winner = w
                /\ Len(y.saved) = 1 /\ y.saved[1].names = x.names
                /\ y.saved[1].winner = w /\ y.saved[1].reason = "forfeit"
      BY <2>1, ConcludeSaves
    <3>2. QED
      BY <2>1, <3>1
  <2> HIDE DEF e
  <2>3. GoodRoom(e)
    BY <1>2, <2>1, <2>2 DEF GoodRoom
  <2>4. QED
    BY <2>2, <2>3 DEF e
<1>3. QED
  BY <1>1, <1>2

\* Only the idle clock of the room changes.
LEMMA IdleGood ==
  ASSUME NEW r, GoodRoom(r), r.open, NEW i \in 0..MaxIdle
  PROVE  LET t == [r EXCEPT !.idle = i] IN GoodRoom(t) /\ t.seats = r.seats
<1> DEFINE t == [r EXCEPT !.idle = i]
<1>1. r \in Room
  BY DEF GoodRoom
<1>2. /\ t \in Room /\ t.open = r.open /\ t.seats = r.seats /\ t.names = r.names
      /\ t.status = r.status /\ t.winner = r.winner /\ t.started = r.started
      /\ t.concluded = r.concluded /\ t.saved = r.saved
  BY <1>1 DEF Room
<1> HIDE DEF t
<1>3. GoodRoom(t)
  BY <1>2 DEF GoodRoom, BothSeated
<1>4. QED
  BY <1>2, <1>3 DEF t

-----------------------------------------------------------------------------
(* The table and the queue.                                                *)

\* What leaving does to the table: every entry stays good, the leaver holds no
\* seat any more, and nobody else's seat changes hands.
LEMMA LeaveGood ==
  ASSUME IInv, NEW s \in Sockets
  PROVE  /\ AfterLeave(s) \in [Codes -> Room]
         /\ \A c \in Codes : GoodRoom(AfterLeave(s)[c])
         /\ \A c \in Codes, p \in Seats : AfterLeave(s)[c].seats[p] # Null =>
               /\ AfterLeave(s)[c].seats[p] = rooms[c].seats[p]
               /\ AfterLeave(s)[c].seats[p] # s
<1> DEFINE c0 == at[s].room
           p0 == at[s].seat
<1>1. /\ c0 \in Codes \cup {Null} /\ p0 \in Seats /\ rooms \in [Codes -> Room]
      /\ \A c \in Codes : GoodRoom(rooms[c])
  BY DEF IInv
<1>2. \A c \in Codes, p \in Seats : rooms[c].seats[p] = s => c = c0 /\ p = p0
  <2>1. SUFFICES ASSUME NEW c \in Codes, NEW p \in Seats, rooms[c].seats[p] = s
                 PROVE  c = c0 /\ p = p0
    OBVIOUS
  <2>2. at[s] = [room |-> c, seat |-> p]
    BY <2>1, NullApart DEF IInv, SeatsMatchSockets
  <2>3. QED
    BY <2>2
<1>3. CASE c0 # Null /\ rooms[c0].open /\ rooms[c0].seats[p0] = s
  <2> DEFINE v == VacateSeat(rooms[c0], p0)
  <2>1. c0 \in Codes /\ AfterLeave(s) = [rooms EXCEPT ![c0] = v]
    BY <1>1, <1>3 DEF AfterLeave
  <2>2. /\ GoodRoom(v) /\ v.seats[p0] = Null
        /\ v.seats[Other(p0)] # Null => v.seats[Other(p0)] = rooms[c0].seats[Other(p0)]
    <3>1. GoodRoom(rooms[c0]) /\ rooms[c0].open /\ rooms[c0].seats[p0] # Null
      BY <1>1, <1>3, <2>1, NullApart
    <3>2. QED
      BY <1>1, <3>1, VacateGood
  <2> HIDE DEF v, c0, p0
  <2>3. v \in Room
    BY <2>2 DEF GoodRoom
  <2>4. \A p \in Seats : p = p0 \/ p = Other(p0)
    BY <1>1 DEF Seats, Other
  <2>5. \A c \in Codes : AfterLeave(s)[c] = IF c = c0 THEN v ELSE rooms[c]
    BY <1>1, <2>1
  <2>6. AfterLeave(s) \in [Codes -> Room]
    BY <1>1, <2>1, <2>3
  <2>7. \A c \in Codes : GoodRoom(AfterLeave(s)[c])
    BY <1>1, <2>2, <2>5
  <2>8. ASSUME NEW c \in Codes, NEW p \in Seats, AfterLeave(s)[c].seats[p] # Null
        PROVE  AfterLeave(s)[c].seats[p] = rooms[c].seats[p] /\ AfterLeave(s)[c].seats[p] # s
    <3>1. CASE c = c0
      <4>1. AfterLeave(s)[c] = v
        BY <2>5, <3>1
      <4>2. p = Other(p0) /\ p # p0
        BY <2>2, <2>4, <2>8, <4>1
      <4>3. v.seats[p] = rooms[c].seats[p]
        BY <2>2, <2>8, <3>1, <4>1, <4>2
      <4>4. QED
        BY <1>2, <4>1, <4>2, <4>3
    <3>2. CASE c # c0
      BY <1>2, <2>5, <3>2
    <3>3. QED
      BY <3>1, <3>2
  <2>9. QED
    BY <2>6, <2>7, <2>8
<1>4. CASE ~(c0 # Null /\ rooms[c0].open /\ rooms[c0].seats[p0] = s)
  <2>1. AfterLeave(s) = rooms
    BY <1>4 DEF AfterLeave
  <2>2. ASSUME NEW c \in Codes, NEW p \in Seats, rooms[c].seats[p] = s
        PROVE  FALSE
    <3>1. c = c0 /\ p = p0 /\ c # Null
      BY <1>2, <2>2, NullApart
    <3>2. ~rooms[c].open
      BY <1>4, <2>2, <3>1
    <3>3. rooms[c] = NoRoom
      BY <1>1, <3>2 DEF GoodRoom
    <3>4. QED
      BY <2>2, <3>3, NoRoomFields, NullApart
  <2>3. QED
    BY <1>1, <2>1, <2>2
<1>5. QED
  BY <1>3, <1>4

LEMMA SmallNat == ASSUME NEW n \in Nat, n <= 1 PROVE n = 0 \/ n = 1
  OBVIOUS

LEMMA ShortQueue ==
  ASSUME NEW q \in Seq(Sockets), Len(q) <= 1
  PROVE  Len(q) = 0 \/ Len(q) = 1
<1>1. Len(q) \in Nat
  OBVIOUS
<1>2. QED
  BY <1>1, SmallNat

\* Taking a socket out of the queue.
LEMMA DequeueShort ==
  ASSUME NEW q \in Seq(Sockets), Len(q) <= 1, NEW s
  PROVE  /\ Dequeue(q, s) \in Seq(Sockets)
         /\ Len(Dequeue(q, s)) <= 1
         /\ \A i \in 1..Len(Dequeue(q, s)) : Dequeue(q, s)[i] = q[i] /\ q[i] # s /\ i \in 1..Len(q)
<1>1. CASE \E i \in 1..Len(q) : q[i] = s
  <2>1. Len(q) = 1 /\ q[1] = s
    <3>1. PICK i \in 1..Len(q) : q[i] = s
      BY <1>1
    <3>2. Len(q) = 0 \/ Len(q) = 1
      BY ShortQueue
    <3>3. Len(q) = 1 /\ i = 1
      <4>1. CASE Len(q) = 0
        BY <3>1, <4>1
      <4>2. CASE Len(q) = 1
        BY <3>1, <4>2
      <4>3. QED
        BY <3>2, <4>1, <4>2
    <3>4. QED
      BY <3>1, <3>3
  <2>2. Dequeue(q, s) = SubSeq(q, 1, 0) \o SubSeq(q, 2, 1)
    <3>1. (CHOOSE i \in 1..Len(q) : q[i] = s) = 1
      BY <2>1
    <3>2. QED
      BY <1>1, <2>1, <3>1 DEF Dequeue
  <2>3. SubSeq(q, 1, 0) = <<>> /\ SubSeq(q, 2, 1) = <<>>
    BY <2>1
  <2>4. Dequeue(q, s) = <<>>
    BY <2>2, <2>3
  <2>5. QED
    BY <2>4
<1>2. CASE ~\E i \in 1..Len(q) : q[i] = s
  BY <1>2 DEF Dequeue
<1>3. QED
  BY <1>1, <1>2

\* The part of the invariant about the table and the seats.
TableInv == /\ at \in [Sockets -> [room : Codes \cup {Null}, seat : Seats]]
            /\ rooms \in [Codes -> Room]
            /\ \A c \in Codes : GoodRoom(rooms[c])
            /\ SeatsMatchSockets

\* The part about the queue.
QueueInv == queue \in Seq(Sockets) /\ WaiterIsFreeAndAlone

LEMMA NowhereIsAPlace == Nowhere \in [room : Codes \cup {Null}, seat : Seats] /\ Nowhere.room = Null
  BY DEF Nowhere, Seats

\* A socket leaves and goes nowhere.
LEMMA LeaveStep ==
  ASSUME IInv, NEW s \in Sockets,
         rooms' = AfterLeave(s), at' = [at EXCEPT ![s] = Nowhere],
         connected \ {s} \subseteq connected'
  PROVE  TableInv'
<1>1. at' \in [Sockets -> [room : Codes \cup {Null}, seat : Seats]]
  BY NowhereIsAPlace DEF IInv
<1>2. rooms' \in [Codes -> Room] /\ \A c \in Codes : GoodRoom(rooms'[c])
  BY LeaveGood
<1>3. SUFFICES ASSUME NEW c \in Codes, NEW p \in Seats, rooms'[c].seats[p] # Null
               PROVE  /\ rooms'[c].seats[p] \in connected'
                      /\ at'[rooms'[c].seats[p]] = [room |-> c, seat |-> p]
  BY <1>1, <1>2 DEF TableInv, SeatsMatchSockets
<1>4. rooms'[c].seats[p] = rooms[c].seats[p] /\ rooms'[c].seats[p] # s
  BY <1>3, LeaveGood
<1>5. /\ rooms[c].seats[p] \in connected /\ rooms[c].seats[p] \in Sockets
      /\ at[rooms[c].seats[p]] = [room |-> c, seat |-> p]
  BY <1>3, <1>4 DEF IInv, SeatsMatchSockets
<1>6. at \in [Sockets -> [room : Codes \cup {Null}, seat : Seats]]
  BY DEF IInv
<1>7. QED
  BY <1>4, <1>5, <1>6

\* A socket leaves and sits down in room c, whose other seat, if it is taken,
\* is taken by somebody who sat there before or by o, who sat nowhere.
LEMMA SitStep ==
  ASSUME IInv, NEW s \in connected, NEW c \in Codes, NEW r, GoodRoom(r), NEW p \in Seats,
         r.seats[p] = s,
         NEW o \in Sockets, o = s \/ (at[o] = Nowhere /\ o \in connected),
         \/ o = s /\ r.seats[Other(p)] \in {Null, AfterLeave(s)[c].seats[Other(p)]}
         \/ o # s /\ r.seats[Other(p)] = o,
         rooms' = [AfterLeave(s) EXCEPT ![c] = r],
         at' = [at EXCEPT ![o] = [room |-> c, seat |-> Other(p)],
                          ![s] = [room |-> c, seat |-> p]],
         connected' = connected
  PROVE  TableInv'
<1>1. s \in Sockets /\ connected \in SUBSET Sockets
      /\ at \in [Sockets -> [room : Codes \cup {Null}, seat : Seats]]
  BY DEF IInv
<1>2. Other(p) \in Seats /\ Other(p) # p /\ \A q \in Seats : q = p \/ q = Other(p)
  BY DEF Seats, Other
<1>3. at' \in [Sockets -> [room : Codes \cup {Null}, seat : Seats]]
  BY <1>1, <1>2
<1>4. /\ AfterLeave(s) \in [Codes -> Room]
      /\ \A d \in Codes : GoodRoom(AfterLeave(s)[d])
      /\ \A d \in Codes, q \in Seats : AfterLeave(s)[d].seats[q] # Null =>
            /\ AfterLeave(s)[d].seats[q] = rooms[d].seats[q]
            /\ AfterLeave(s)[d].seats[q] # s
  BY <1>1, LeaveGood
<1>5. r \in Room
  BY DEF GoodRoom
<1>6. rooms' \in [Codes -> Room] /\ \A d \in Codes : GoodRoom(rooms'[d])
  BY <1>4, <1>5
<1>7. ASSUME NEW d \in Codes, NEW q \in Seats, AfterLeave(s)[d].seats[q] # Null
      PROVE  LET t == AfterLeave(s)[d].seats[q]
             IN  t \in connected /\ t # s /\ (o # s => t # o) /\ at[t] = [room |-> d, seat |-> q]
  <2>1. /\ AfterLeave(s)[d].seats[q] = rooms[d].seats[q]
        /\ AfterLeave(s)[d].seats[q] # s
    BY <1>4, <1>7
  <2>2. /\ rooms[d].seats[q] \in connected
        /\ at[rooms[d].seats[q]] = [room |-> d, seat |-> q]
    BY <1>7, <2>1 DEF IInv, SeatsMatchSockets
  <2>3. [room |-> d, seat |-> q] # Nowhere
    BY NullApart DEF Nowhere
  <2>4. QED
    BY <2>1, <2>2, <2>3
<1>8. SUFFICES ASSUME NEW d \in Codes, NEW q \in Seats, rooms'[d].seats[q] # Null
               PROVE  /\ rooms'[d].seats[q] \in connected'
                      /\ at'[rooms'[d].seats[q]] = [room |-> d, seat |-> q]
  BY <1>3, <1>6 DEF TableInv, SeatsMatchSockets
<1>9. CASE d # c
  <2>1. rooms'[d] = AfterLeave(s)[d]
    BY <1>4, <1>9
  <2>2. QED
    BY <1>1, <1>7, <1>8, <2>1
<1>10. CASE d = c /\ q = p
  BY <1>1, <1>4, <1>10
<1>11. CASE d = c /\ q # p
  <2>1. rooms'[d] = r /\ q = Other(p)
    BY <1>2, <1>4, <1>11
  <2>2. CASE o = s
    <3>1. r.seats[q] = AfterLeave(s)[c].seats[q]
      BY <1>8, <2>1, <2>2
    <3>2. QED
      BY <1>1, <1>7, <1>8, <1>11, <2>1, <2>2, <3>1
  <2>3. CASE o # s
    BY <1>1, <1>11, <2>1, <2>3
  <2>4. QED
    BY <2>2, <2>3
<1>12. QED
  BY <1>9, <1>10, <1>11

\* A socket is taken out of the queue, and only its own place changes.
LEMMA DequeueStep ==
  ASSUME IInv, NEW s \in Sockets, NEW place, queue' = Dequeue(queue, s),
         at' = [at EXCEPT ![s] = place], connected \ {s} \subseteq connected'
  PROVE  QueueInv'
<1>1. /\ queue \in Seq(Sockets) /\ Len(queue) <= 1
      /\ \A i \in 1..Len(queue) : queue[i] \in connected /\ at[queue[i]] = Nowhere
      /\ at \in [Sockets -> [room : Codes \cup {Null}, seat : Seats]]
      /\ connected \in SUBSET Sockets
  BY DEF IInv, WaiterIsFreeAndAlone
<1>2. /\ queue' \in Seq(Sockets) /\ Len(queue') <= 1
      /\ \A i \in 1..Len(queue') : queue'[i] = queue[i] /\ queue[i] # s /\ i \in 1..Len(queue)
  BY <1>1, DequeueShort
<1>3. ASSUME NEW i \in 1..Len(queue')
      PROVE  queue'[i] \in connected' /\ at'[queue'[i]] = Nowhere
  <2>1. queue'[i] = queue[i] /\ queue[i] # s /\ i \in 1..Len(queue)
    BY <1>2
  <2>2. queue[i] \in connected /\ at[queue[i]] = Nowhere /\ queue[i] \in Sockets
    BY <1>1, <2>1
  <2>3. QED
    BY <1>1, <2>1, <2>2
<1>4. QED
  BY <1>2, <1>3 DEF QueueInv, WaiterIsFreeAndAlone

-----------------------------------------------------------------------------
(* The invariant.                                                          *)

LEMMA SplitInv ==
  IInv <=> /\ up \in BOOLEAN /\ connected \in SUBSET Sockets
           /\ maintenance \in BOOLEAN /\ lost \in SUBSET Codes
           /\ TableInv /\ QueueInv
  BY DEF IInv, TableInv, QueueInv

LEMMA InitInv == Init => IInv
<1> SUFFICES ASSUME Init PROVE IInv
  OBVIOUS
<1>1. \A c \in Codes : rooms[c] = NoRoom
  BY DEF Init
<1>2. \A c \in Codes : GoodRoom(rooms[c])
  BY <1>1, NoRoomGood
<1>3. NoRoom \in Room
  BY NoRoomGood DEF GoodRoom
<1>4. rooms \in [Codes -> Room]
  BY <1>3 DEF Init
<1>5. SeatsMatchSockets
  BY <1>1, NoRoomFields DEF SeatsMatchSockets
<1>6. at \in [Sockets -> [room : Codes \cup {Null}, seat : Seats]]
  BY NowhereIsAPlace DEF Init
<1>7. queue \in Seq(Sockets) /\ WaiterIsFreeAndAlone
  BY DEF Init, WaiterIsFreeAndAlone
<1>8. QED
  BY <1>2, <1>4, <1>5, <1>6, <1>7 DEF Init, IInv

\* The table keeps its seats when only good entries with the same seats replace
\* the old ones: ticking, closing, touching and ageing rooms.
LEMMA SameSeatsStep ==
  ASSUME IInv, rooms' \in [Codes -> Room],
         \A c \in Codes : GoodRoom(rooms'[c]) /\ rooms'[c].seats = rooms[c].seats,
         UNCHANGED <<up, connected, queue, at, maintenance, lost>>
  PROVE  IInv'
  BY DEF IInv, SeatsMatchSockets, WaiterIsFreeAndAlone

LEMMA ClientInv ==
  ASSUME IInv, NEW s \in Sockets, Client(s)
  PROVE  IInv'
<1>1. /\ up \in BOOLEAN /\ connected \in SUBSET Sockets /\ maintenance \in BOOLEAN
      /\ lost \in SUBSET Codes /\ TableInv /\ QueueInv
      /\ at \in [Sockets -> [room : Codes \cup {Null}, seat : Seats]]
      /\ rooms \in [Codes -> Room]
      /\ \A c \in Codes : GoodRoom(rooms[c])
  BY SplitInv DEF TableInv
<1>2. CASE Connect(s)
  BY <1>2 DEF Connect, IInv, SeatsMatchSockets, WaiterIsFreeAndAlone
<1>3. CASE Disconnect(s)
  <2>1. TableInv'
    BY <1>3, LeaveStep DEF Disconnect
  <2>2. QueueInv'
    BY <1>3, DequeueStep DEF Disconnect
  <2>3. QED
    BY <1>1, <1>3, <2>1, <2>2, SplitInv DEF Disconnect, IInv, TableInv, QueueInv
<1>4. CASE MatchmakingRefused(s)
  <2>1. TableInv'
    BY <1>4, LeaveStep DEF MatchmakingRefused
  <2>2. QueueInv'
    BY <1>1, <1>4 DEF MatchmakingRefused, QueueInv, WaiterIsFreeAndAlone
  <2>3. QED
    BY <1>1, <1>4, <2>1, <2>2 DEF MatchmakingRefused, IInv, TableInv, QueueInv
<1>5. CASE MatchmakingWait(s)
  <2>1. TableInv'
    BY <1>5, LeaveStep DEF MatchmakingWait
  <2>2. QueueInv'
    <3>1. queue' = queue \/ queue' = <<s>>
      <4>1. CASE \E i \in 1..Len(queue) : queue[i] = s
        BY <1>5, <4>1 DEF MatchmakingWait, Enqueue
      <4>2. CASE ~(\E i \in 1..Len(queue) : queue[i] = s) /\ queue = <<>>
        BY <1>5, <4>2 DEF MatchmakingWait, Enqueue
      <4>3. CASE ~(\E i \in 1..Len(queue) : queue[i] = s) /\ queue # <<>>
        <5>1. Head(queue) \in Sockets
          BY <1>1, <4>3 DEF QueueInv
        <5>2. Enqueue(queue, s).opponent = Head(queue)
          BY <4>3 DEF Enqueue
        <5>3. QED
          BY <1>5, <5>1, <5>2, NullApart DEF MatchmakingWait
      <4>4. QED
        BY <4>1, <4>2, <4>3
    <3>2. at' = [at EXCEPT ![s] = Nowhere] /\ connected' = connected /\ s \in connected
      BY <1>5 DEF MatchmakingWait
    <3>3. CASE queue' = queue
      BY <1>1, <3>2, <3>3 DEF QueueInv, WaiterIsFreeAndAlone
    <3>4. CASE queue' = <<s>>
      BY <1>1, <3>2, <3>4 DEF QueueInv, WaiterIsFreeAndAlone
    <3>5. QED
      BY <3>1, <3>3, <3>4
  <2>3. QED
    BY <1>1, <1>5, <2>1, <2>2 DEF MatchmakingWait, IInv, TableInv, QueueInv
<1>6. CASE MatchmakingPair(s)
  <2> DEFINE o == Enqueue(queue, s).opponent
             left == AfterLeave(s)
  <2>1. /\ ~\E i \in 1..Len(queue) : queue[i] = s
        /\ queue # <<>>
    BY <1>6 DEF MatchmakingPair, Enqueue
  <2>2. o = Head(queue) /\ Enqueue(queue, s).queue = Tail(queue)
    BY <2>1 DEF Enqueue
  <2>3. Len(queue) = 1 /\ Head(queue) = queue[1] /\ Tail(queue) = <<>>
    <3>1. queue \in Seq(Sockets) /\ Len(queue) <= 1
      BY <1>1 DEF QueueInv, WaiterIsFreeAndAlone
    <3>2. Len(queue) = 1
      BY <2>1, <3>1, ShortQueue
    <3>3. Head(queue) = queue[1]
      BY <3>1, <3>2
    <3>4. Tail(queue) = <<>>
      <4>1. queue # <<>>
        BY <2>1
      <4>2. Tail(queue) \in Seq(Sockets) /\ Len(Tail(queue)) = 0
        BY <3>1, <3>2, <4>1
      <4>3. QED
        BY <4>2, EmptySeq
    <3>5. QED
      BY <3>2, <3>3, <3>4
  <2>4. o \in connected /\ at[o] = Nowhere /\ o # s /\ o \in Sockets
    BY <1>1, <2>1, <2>2, <2>3 DEF QueueInv, WaiterIsFreeAndAlone
  <2> HIDE DEF o
  <2>5. PICK c \in Codes \ OpenRooms(left) :
          /\ rooms' = [left EXCEPT ![c] = SeatRoom(SeatRoom(NewRoom(o, s), o, 0), s, 1)]
          /\ at' = [at EXCEPT ![o] = [room |-> c, seat |-> 0], ![s] = [room |-> c, seat |-> 1]]
          /\ queue' = Tail(queue)
    BY <1>6, <2>2, <2>4 DEF MatchmakingPair, o
  <2>6. s \in connected /\ connected' = connected /\ UNCHANGED <<up, maintenance, lost>>
    BY <1>6 DEF MatchmakingPair
  <2>7. TableInv'
    <3> DEFINE r == SeatRoom(SeatRoom(NewRoom(o, s), o, 0), s, 1)
    <3>1. GoodRoom(r) /\ r.seats[0] = o /\ r.seats[1] = s
      BY <2>4, PairedRoomGood
    <3> HIDE DEF r
    <3>2. Other(1) = 0 /\ 1 \in Seats
      BY DEF Other, Seats
    <3>3. rooms' = [AfterLeave(s) EXCEPT ![c] = r]
      BY <2>5 DEF r
    <3>4. QED
      BY <2>4, <2>5, <2>6, <3>1, <3>2, <3>3, SitStep
  <2>8. QueueInv'
    <3>1. queue' = <<>>
      BY <2>3, <2>5
    <3>2. QED
      BY <3>1 DEF QueueInv, WaiterIsFreeAndAlone
  <2>9. QED
    BY <1>1, <2>6, <2>7, <2>8 DEF IInv, TableInv, QueueInv
<1>7. CASE MatchmakingCancel(s)
  <2>1. at' = [at EXCEPT ![s] = at[s]]
    BY <1>1, <1>7 DEF MatchmakingCancel
  <2>2. QueueInv'
    BY <1>7, <2>1, DequeueStep DEF MatchmakingCancel
  <2>3. QED
    BY <1>7, <2>2 DEF MatchmakingCancel, IInv, QueueInv, SeatsMatchSockets
<1>8. CASE RoomCreateRefused(s)
  <2>1. TableInv'
    BY <1>8, LeaveStep DEF RoomCreateRefused
  <2>2. QueueInv'
    BY <1>8, DequeueStep DEF RoomCreateRefused
  <2>3. QED
    BY <1>1, <1>8, <2>1, <2>2 DEF RoomCreateRefused, IInv, TableInv, QueueInv
<1>9. CASE RoomCreate(s)
  <2>1. PICK c \in Codes :
          /\ rooms' = [AfterLeave(s) EXCEPT ![c] = SeatRoom(NewRoom(s, Null), s, 0)]
          /\ at' = [at EXCEPT ![s] = [room |-> c, seat |-> 0]]
    BY <1>9 DEF RoomCreate
  <2>2. /\ s \in connected /\ connected' = connected /\ UNCHANGED <<up, maintenance, lost>>
        /\ queue' = Dequeue(queue, s)
    BY <1>9 DEF RoomCreate
  <2>3. TableInv'
    <3> DEFINE r == SeatRoom(NewRoom(s, Null), s, 0)
    <3>1. GoodRoom(r) /\ r.seats[0] = s /\ r.seats[1] = Null
      BY HostedRoomGood
    <3> HIDE DEF r
    <3>2. Other(0) = 1 /\ 0 \in Seats
      BY DEF Other, Seats
    <3>3. at' = [at EXCEPT ![s] = [room |-> c, seat |-> Other(0)],
                           ![s] = [room |-> c, seat |-> 0]]
      BY <1>1, <2>1
    <3>4. rooms' = [AfterLeave(s) EXCEPT ![c] = r]
      BY <2>1 DEF r
    <3>5. QED
      BY <2>2, <3>1, <3>2, <3>3, <3>4, SitStep
  <2>4. QueueInv'
    BY <2>1, <2>2, DequeueStep
  <2>5. QED
    BY <1>1, <2>2, <2>3, <2>4 DEF IInv, TableInv, QueueInv
<1>10. CASE \E c \in Codes : RoomJoin(s, c)
  <2>1. PICK c \in Codes : RoomJoin(s, c)
    BY <1>10
  <2> DEFINE old == AfterLeave(s)[c]
             r == SeatRoom(old, s, 1)
  <2>2. /\ s \in connected /\ connected' = connected /\ UNCHANGED <<up, maintenance, lost>>
        /\ queue' = Dequeue(queue, s)
        /\ at' = [at EXCEPT ![s] = [room |-> c, seat |-> 1]]
        /\ old.open /\ old.seats[1] = Null /\ old.status # "finished"
    BY <2>1 DEF RoomJoin, Joinable
  <2>3. rooms' = [AfterLeave(s) EXCEPT ![c] = r]
    BY <2>1 DEF RoomJoin
  <2>4. GoodRoom(old)
    BY LeaveGood
  <2> HIDE DEF old
  <2>5. GoodRoom(r) /\ r.seats[0] = old.seats[0] /\ r.seats[1] = s
    BY <2>2, <2>4, JoinedRoomGood
  <2> HIDE DEF r
  <2>6. TableInv'
    <3>1. Other(1) = 0 /\ 1 \in Seats
      BY DEF Other, Seats
    <3>2. at' = [at EXCEPT ![s] = [room |-> c, seat |-> Other(1)],
                           ![s] = [room |-> c, seat |-> 1]]
      BY <1>1, <2>2
    <3>3. r.seats[Other(1)] = AfterLeave(s)[c].seats[Other(1)]
      BY <2>5, <3>1 DEF old
    <3>4. QED
      BY <2>2, <2>3, <2>5, <3>1, <3>2, <3>3, SitStep
  <2>7. QueueInv'
    BY <2>2, DequeueStep
  <2>8. QED
    BY <1>1, <2>2, <2>6, <2>7 DEF IInv, TableInv, QueueInv
<1>11. CASE \E c \in Codes : RoomJoinRefused(s, c)
  <2>1. TableInv'
    BY <1>11, LeaveStep DEF RoomJoinRefused
  <2>2. QueueInv'
    BY <1>11, DequeueStep DEF RoomJoinRefused
  <2>3. QED
    BY <1>1, <1>11, <2>1, <2>2 DEF RoomJoinRefused, IInv, TableInv, QueueInv
<1>12. CASE MatchInput(s)
  <2> DEFINE c == at[s].room
             t == [rooms[c] EXCEPT !.idle = 0]
  <2>1. c \in Codes /\ rooms[c].open /\ rooms' = [rooms EXCEPT ![c] = t]
    BY <1>1, <1>12 DEF MatchInput
  <2>2. GoodRoom(t) /\ t.seats = rooms[c].seats
    BY <1>1, <2>1, Bounds, IdleGood
  <2> HIDE DEF t, c
  <2>3. t \in Room
    BY <2>2 DEF GoodRoom
  <2>4. rooms' \in [Codes -> Room]
        /\ \A d \in Codes : GoodRoom(rooms'[d]) /\ rooms'[d].seats = rooms[d].seats
    BY <1>1, <2>1, <2>2, <2>3
  <2>5. QED
    BY <1>12, <2>4, SameSeatsStep DEF MatchInput
<1>13. QED
  BY <1>2, <1>3, <1>4, <1>5, <1>6, <1>7, <1>8, <1>9, <1>10, <1>11, <1>12 DEF Client

LEMMA ServerInv ==
  ASSUME IInv, Operator \/ Tick \/ Elapse \/ Janitor
  PROVE  IInv'
<1>1. /\ rooms \in [Codes -> Room] /\ \A c \in Codes : GoodRoom(rooms[c])
      /\ at \in [Sockets -> [room : Codes \cup {Null}, seat : Seats]]
  BY DEF IInv
<1>2. CASE \E c \in Codes : CloseRoom(c)
  <2>1. PICK c \in Codes : CloseRoom(c)
    BY <1>2
  <2> DEFINE r == rooms[c]
             w == IF r.seats[0] # Null /\ r.seats[1] = Null THEN 0
                  ELSE IF r.seats[0] = Null /\ r.seats[1] # Null THEN 1
                  ELSE Null
             e == Conclude(r, w, "forfeit")
  <2>2. r.open /\ rooms' = [rooms EXCEPT ![c] = e] /\ GoodRoom(r)
    BY <1>1, <2>1 DEF CloseRoom
  <2>3. /\ w \in Seats \cup {Null}
        /\ w # Null => r.seats[w] # Null /\ r.seats[Other(w)] = Null
    BY NullApart DEF Seats, Other
  <2> HIDE DEF w, r
  <2>4. GoodRoom(e) /\ e.seats = r.seats
    BY <2>2, <2>3, CloseGood
  <2> HIDE DEF e
  <2>5. e \in Room
    BY <2>4 DEF GoodRoom
  <2>6. rooms' \in [Codes -> Room]
        /\ \A d \in Codes : GoodRoom(rooms'[d]) /\ rooms'[d].seats = rooms[d].seats
    BY <1>1, <2>2, <2>4, <2>5 DEF r
  <2>7. QED
    BY <2>1, <2>6, SameSeatsStep DEF CloseRoom
<1>3. CASE \E on \in BOOLEAN : SetMaintenance(on)
  BY <1>3 DEF SetMaintenance, IInv, SeatsMatchSockets, WaiterIsFreeAndAlone
<1>4. CASE Shutdown
  <2>1. \A c \in Codes : rooms'[c] = NoRoom
    BY <1>4 DEF Shutdown
  <2>2. NoRoom \in Room
    BY NoRoomGood DEF GoodRoom
  <2>3. rooms' \in [Codes -> Room] /\ \A c \in Codes : GoodRoom(rooms'[c])
    BY <1>4, <2>1, <2>2, NoRoomGood DEF Shutdown
  <2>4. SeatsMatchSockets'
    BY <2>1, NoRoomFields DEF SeatsMatchSockets
  <2>5. at' \in [Sockets -> [room : Codes \cup {Null}, seat : Seats]]
    BY <1>4, NowhereIsAPlace DEF Shutdown
  <2>6. queue' \in Seq(Sockets) /\ WaiterIsFreeAndAlone'
    BY <1>4 DEF Shutdown, WaiterIsFreeAndAlone
  <2>7. QED
    BY <1>4, <2>3, <2>4, <2>5, <2>6 DEF Shutdown, IInv
<1>5. CASE Tick
  <2> DEFINE live == {c \in Codes : Live(rooms[c])}
  <2>1. PICK out : /\ \A c \in live : out[c] \in StepOutcomes(rooms[c].status)
                   /\ rooms' = [c \in Codes |-> IF c \in live THEN TickRoom(rooms[c], out[c])
                                                ELSE rooms[c]]
    BY <1>5 DEF Tick
  <2>2. ASSUME NEW c \in Codes
        PROVE  GoodRoom(rooms'[c]) /\ rooms'[c].seats = rooms[c].seats
    <3>1. CASE c \in live
      <4>1. GoodRoom(rooms[c]) /\ Live(rooms[c]) /\ out[c] \in StepOutcomes(rooms[c].status)
        BY <1>1, <2>1, <3>1
      <4>2. rooms'[c] = TickRoom(rooms[c], out[c])
        BY <2>1, <3>1
      <4>3. QED
        BY <4>1, <4>2, TickGood
    <3>2. CASE c \notin live
      BY <1>1, <2>1, <3>2
    <3>3. QED
      BY <3>1, <3>2
  <2>3. rooms' \in [Codes -> Room]
    BY <2>1, <2>2 DEF GoodRoom
  <2>4. QED
    BY <1>5, <2>2, <2>3, SameSeatsStep DEF Tick
<1>6. CASE Elapse
  <2>1. ASSUME NEW c \in Codes
        PROVE  GoodRoom(rooms'[c]) /\ rooms'[c].seats = rooms[c].seats
    <3>1. CASE rooms[c].open
      <4>1. rooms'[c] = [rooms[c] EXCEPT !.idle = Capped(rooms[c].idle + 1, MaxIdle)]
        BY <1>6, <3>1 DEF Elapse
      <4>2. Capped(rooms[c].idle + 1, MaxIdle) \in 0..MaxIdle
        <5>1. rooms[c].idle \in 0..MaxIdle
          BY <1>1 DEF Room
        <5>2. QED
          BY <5>1, Bounds DEF Capped
      <4>3. GoodRoom(rooms[c])
        BY <1>1
      <4>4. QED
        BY <3>1, <4>1, <4>2, <4>3, IdleGood
    <3>2. CASE ~rooms[c].open
      BY <1>1, <1>6, <3>2 DEF Elapse
    <3>3. QED
      BY <3>1, <3>2
  <2>2. rooms' \in [Codes -> Room]
    BY <1>6, <2>1 DEF Elapse, GoodRoom
  <2>3. QED
    BY <1>6, <2>1, <2>2, SameSeatsStep DEF Elapse
<1>7. CASE Janitor
  <2>1. \A c \in Codes : rooms'[c] = rooms[c] \/ rooms'[c] = NoRoom
    BY <1>7 DEF Janitor
  <2>2. \A c \in Codes : GoodRoom(rooms'[c])
    BY <1>1, <2>1, NoRoomGood
  <2>3. rooms' \in [Codes -> Room]
    BY <1>7, <2>2 DEF Janitor, GoodRoom
  <2>4. SeatsMatchSockets'
    BY <1>7, <2>1, NoRoomFields DEF Janitor, IInv, SeatsMatchSockets
  <2>5. QED
    BY <1>7, <2>2, <2>3, <2>4 DEF Janitor, IInv, WaiterIsFreeAndAlone
<1>8. QED
  BY <1>2, <1>3, <1>4, <1>5, <1>6, <1>7 DEF Operator

LEMMA NextInv == IInv /\ [Next]_vars => IInv'
<1> SUFFICES ASSUME IInv, [Next]_vars PROVE IInv'
  OBVIOUS
<1>1. CASE \E s \in Sockets : Client(s)
  BY <1>1, ClientInv
<1>2. CASE Operator \/ Tick \/ Elapse \/ Janitor
  BY <1>2, ServerInv
<1>3. CASE UNCHANGED vars
  BY <1>3 DEF vars, IInv, SeatsMatchSockets, WaiterIsFreeAndAlone
<1>4. QED
  BY <1>1, <1>2, <1>3 DEF Next

LEMMA InvariantHolds == Spec => []IInv
  BY InitInv, NextInv, PTL DEF Spec

-----------------------------------------------------------------------------
(* The theorems.                                                           *)

\* The state keeps its shape, whatever the clients, the timers and the operator
\* do and in whatever order.
THEOREM RoomsTypeOK == Spec => []TypeOK
<1>1. IInv => TypeOK
  BY DEF IInv, TypeOK
<1>2. QED
  BY <1>1, InvariantHolds, PTL

\* server.ts, seatRoom and leaveCurrentRoom: no socket holds two seats, and no
\* seat is held by a socket that is gone.
THEOREM SeatsAlwaysMatch == Spec => []SeatsMatchSockets
<1>1. IInv => SeatsMatchSockets
  BY DEF IInv
<1>2. QED
  BY <1>1, InvariantHolds, PTL

\* matchmaker.ts: nobody is pulled out of a match by the queue, and two players
\* never wait beside each other.
THEOREM WaiterAlwaysFree == Spec => []WaiterIsFreeAndAlone
<1>1. IInv => WaiterIsFreeAndAlone
  BY DEF IInv
<1>2. QED
  BY <1>1, InvariantHolds, PTL

\* Every room is waiting, live with both players, or over.
THEOREM RoomsKeepTheirPhases == Spec => []RoomPhases
<1>1. IInv => RoomPhases
  <2> SUFFICES ASSUME IInv, NEW c \in Codes, rooms[c].open
               PROVE  LET r == rooms[c] IN
                      /\ r.seats # Empty
                      /\ r.concluded <=> r.status = "finished"
                      /\ ~r.started => r.seats[0] # Null /\ r.seats[1] = Null /\ r.status # "playing"
                      /\ r.started /\ ~r.concluded => BothSeated(r)
    BY DEF RoomPhases
  <2>1. GoodRoom(rooms[c])
    BY DEF IInv
  <2>2. rooms[c].seats # Empty
    BY <2>1, SeatNumbers DEF GoodRoom, Empty
  <2>3. QED
    BY <2>1, <2>2 DEF GoodRoom
<1>2. QED
  BY <1>1, InvariantHolds, PTL

\* server.ts, conclude and persist: one result for a match that is over, however
\* it ended, none for one that is not.
THEOREM ResultsSavedExactlyOnce == Spec => []SavedExactlyOnce
<1>1. IInv => SavedExactlyOnce
  <2> SUFFICES ASSUME IInv, NEW c \in Codes
               PROVE  /\ Len(rooms[c].saved) = IF rooms[c].concluded THEN 1 ELSE 0
                      /\ rooms[c].concluded => rooms[c].saved[1].winner = rooms[c].winner
    BY DEF SavedExactlyOnce
  <2>1. GoodRoom(rooms[c])
    BY DEF IInv
  <2>2. CASE rooms[c].concluded
    BY <2>1, <2>2 DEF GoodRoom
  <2>3. CASE ~rooms[c].concluded
    <3>1. rooms[c].saved = <<>>
      BY <2>1, <2>3 DEF GoodRoom
    <3>2. Len(rooms[c].saved) = 0
      BY <3>1
    <3>3. QED
      BY <2>3, <3>2
  <2>4. QED
    BY <2>2, <2>3
<1>2. QED
  BY <1>1, InvariantHolds, PTL

\* server.ts, leaveCurrentRoom: a forfeit is won by the player who is still there.
THEOREM ForfeitsGoToTheStayer == Spec => []ForfeitGoesToTheStayer
<1>1. IInv => ForfeitGoesToTheStayer
  BY DEF IInv, GoodRoom, ForfeitGoesToTheStayer
<1>2. QED
  BY <1>1, InvariantHolds, PTL

\* server.ts, seatRoom: a saved result names the two who played.
THEOREM ResultsNameThePlayers == Spec => []ResultNamesThePlayers
<1>1. IInv => ResultNamesThePlayers
  BY DEF IInv, GoodRoom, ResultNamesThePlayers
<1>2. QED
  BY <1>1, InvariantHolds, PTL

-----------------------------------------------------------------------------
(* The life of a match.                                                    *)

FitRoom(r) ==
    /\ ~r.concluded => r.winner = Null
    /\ r.open /\ r.started /\ ~r.concluded => r.idle <= 1

FitRooms == \A c \in Codes : FitRoom(rooms[c])

View(r) == [phase |-> PhaseOf(r), winner |-> r.winner]

Underway(r) == r.open /\ r.started /\ ~r.concluded

-----------------------------------------------------------------------------
(* One room.                                                               *)

LEMMA PhaseFacts ==
  ASSUME NEW r \in Room
  PROVE  /\ ~r.open <=> PhaseOf(r) = "absent"
         /\ (r.open /\ r.concluded) <=> PhaseOf(r) = "over"
         /\ Underway(r) <=> PhaseOf(r) = "live"
         /\ (r.open /\ ~r.concluded /\ ~r.started) <=> PhaseOf(r) = "waiting"
         /\ PhaseOf(r) \in {"absent", "waiting", "live", "over"}
         /\ View(r) \in Lifecycle!Match
<1>1. r.open \in BOOLEAN /\ r.concluded \in BOOLEAN /\ r.started \in BOOLEAN
      /\ r.winner \in Seats \cup {Null}
  BY DEF Room
<1>2. CASE ~r.open
  BY <1>1, <1>2 DEF PhaseOf, View, Lifecycle!Match, Lifecycle!Phases, Underway
<1>3. CASE r.open /\ r.concluded
  BY <1>1, <1>3 DEF PhaseOf, View, Lifecycle!Match, Lifecycle!Phases, Underway
<1>4. CASE r.open /\ ~r.concluded /\ r.started
  BY <1>1, <1>4 DEF PhaseOf, View, Lifecycle!Match, Lifecycle!Phases, Underway
<1>5. CASE r.open /\ ~r.concluded /\ ~r.started
  BY <1>1, <1>5 DEF PhaseOf, View, Lifecycle!Match, Lifecycle!Phases, Underway
<1>6. QED
  BY <1>1, <1>2, <1>3, <1>4, <1>5

\* The four ways in which the phases of a room may follow each other.
LEMMA MoveBy ==
  ASSUME NEW r \in Room, NEW q \in Room, FitRoom(q),
         \/ PhaseOf(q) = PhaseOf(r) /\ q.winner = r.winner
         \/ ~Underway(r) /\ (q.open => ~q.concluded)
         \/ r.open /\ ~r.concluded /\ q.open /\ q.concluded,
         q.open \/ ~q.concluded
  PROVE  Lifecycle!Move(View(r), View(q))
<1>1. CASE PhaseOf(q) = PhaseOf(r) /\ q.winner = r.winner
  BY <1>1 DEF View, Lifecycle!Move
<1>2. CASE ~Underway(r) /\ (q.open => ~q.concluded)
  <2>1. q.winner = Null /\ PhaseOf(r) # "live" /\ PhaseOf(q) \in {"absent", "waiting", "live"}
    BY <1>2, PhaseFacts DEF FitRoom
  <2>2. QED
    BY <2>1 DEF View, Lifecycle!Move, Lifecycle!Prepare, Lifecycle!Begin, Lifecycle!Undecided
<1>3. CASE r.open /\ ~r.concluded /\ q.open /\ q.concluded
  <2>1. PhaseOf(r) \in {"waiting", "live"} /\ PhaseOf(q) = "over"
    BY <1>3, PhaseFacts DEF Underway
  <2>2. QED
    BY <2>1 DEF View, Lifecycle!Move, Lifecycle!End
<1>4. QED
  BY <1>1, <1>2, <1>3

LEMMA NoRoomFits == NoRoom \in Room /\ FitRoom(NoRoom) /\ NoRoom.winner = Null
<1>1. NoRoom.winner = Null
  BY DEF NoRoom, NewRoom
<1>2. QED
  BY <1>1, NoRoomGood, NoRoomFields DEF FitRoom, GoodRoom

\* Whoever leaves a room leaves it over, or gone if nothing was under way.
LEMMA VacateMoves ==
  ASSUME NEW r, GoodRoom(r), FitRoom(r), r.open, NEW p \in Seats, r.seats[p] # Null
  PROVE  LET v == VacateSeat(r, p)
         IN  /\ FitRoom(v) /\ Lifecycle!Move(View(r), View(v))
             /\ v.open => v.concluded
             /\ Underway(r) => v.open
             /\ v.started => r.started
<1> DEFINE q == Other(p)
           vacant == [r EXCEPT !.seats[p] = Null, !.idle = 0]
           gone == r.started /\ ~r.concluded
           e == Conclude(vacant, q, "forfeit")
           left == IF gone THEN e ELSE vacant
           v == VacateSeat(r, p)
<1>1. r \in Room /\ q \in Seats /\ p \in Seats /\ q # p
  BY DEF GoodRoom, Seats, Other
<1>2. /\ vacant \in Room /\ vacant.open = r.open
      /\ vacant.winner = r.winner /\ vacant.started = r.started
      /\ vacant.concluded = r.concluded /\ vacant.saved = r.saved
      /\ vacant.seats = [r.seats EXCEPT ![p] = Null]
  BY <1>1, Bounds DEF Room
<1>3. vacant.seats[p] = Null /\ vacant.seats[q] = r.seats[q]
  BY <1>1, <1>2 DEF Room
<1>4. v = IF left.seats = Empty THEN NoRoom ELSE left
  BY DEF VacateSeat
<1> HIDE DEF vacant, v
<1>5. CASE gone
  <2>1. BothSeated(r) /\ r.saved = <<>> /\ ~r.concluded
    BY <1>5 DEF GoodRoom
  <2>2. /\ e \in Room /\ e.open = vacant.open /\ e.concluded /\ e.seats = vacant.seats
    <3>1. vacant \in Room /\ ~vacant.concluded /\ vacant.saved = <<>>
          /\ q \in Seats \cup {Null} /\ "forfeit" \in Reasons
      BY <1>1, <1>2, <2>1 DEF Reasons
    <3>2. QED
      BY <3>1, ConcludeSaves
  <2>3. v = e
    <3>1. e.seats[q] # Null
      BY <1>1, <1>3, <2>1, <2>2 DEF BothSeated, Seats
    <3>2. e.seats # Empty
      BY <1>1, <3>1 DEF Empty
    <3>3. QED
      BY <1>4, <1>5, <3>2
  <2> HIDE DEF e
  <2>4. FitRoom(v) /\ v \in Room /\ v.open /\ v.concluded
    BY <1>2, <2>2, <2>3 DEF FitRoom
  <2>5. Lifecycle!Move(View(r), View(v))
    BY <1>1, <2>1, <2>4, MoveBy
  <2>6. QED
    BY <1>5, <2>4, <2>5 DEF v
<1>6. CASE r.concluded
  <2>1. v = NoRoom \/ v = vacant
    BY <1>4, <1>6
  <2>2. CASE v = NoRoom
    <3>1. Lifecycle!Move(View(r), View(v))
      BY <1>1, <1>6, <2>2, NoRoomFits, NoRoomFields, MoveBy DEF Underway
    <3>2. QED
      BY <1>6, <2>2, <3>1, NoRoomFits, NoRoomFields DEF v, Underway
  <2>3. CASE v = vacant
    <3>1. FitRoom(v) /\ v \in Room /\ v.open /\ v.concluded /\ v.winner = r.winner
      BY <1>2, <1>6, <2>3 DEF FitRoom
    <3>2. PhaseOf(v) = PhaseOf(r)
      BY <1>1, <1>6, <3>1, PhaseFacts
    <3>3. Lifecycle!Move(View(r), View(v))
      BY <1>1, <3>1, <3>2, MoveBy
    <3>4. QED
      BY <1>2, <2>3, <3>1, <3>3 DEF v
  <2>4. QED
    BY <2>1, <2>2, <2>3
<1>7. CASE ~r.started /\ ~r.concluded
  <2>1. p = 0 /\ q = 1 /\ r.seats[1] = Null
    BY <1>7 DEF GoodRoom, Seats, Other
  <2>2. vacant.seats = Empty
    BY <1>1, <1>2, <2>1 DEF Room, Empty, Seats
  <2>3. v = NoRoom
    BY <1>4, <1>7, <2>2
  <2>4. Lifecycle!Move(View(r), View(v))
    BY <1>1, <1>7, <2>3, NoRoomFits, NoRoomFields, MoveBy DEF Underway
  <2>5. QED
    BY <1>7, <2>3, <2>4, NoRoomFits, NoRoomFields DEF v, Underway
<1>8. QED
  BY <1>5, <1>6, <1>7

\* A tick leaves a match live, or ends it.
LEMMA TickMoves ==
  ASSUME NEW r, GoodRoom(r), FitRoom(r), Live(r), NEW out \in StepOutcomes(r.status)
  PROVE  FitRoom(TickRoom(r, out)) /\ Lifecycle!Move(View(r), View(TickRoom(r, out)))
<1> DEFINE stepped == [r EXCEPT !.status = out.status, !.winner = out.winner,
                                !.frame = Capped(@ + 1, MaxFrame),
                                !.ticks = Capped(@ + 1, MaxReplayTicks), !.idle = 0]
           e == Conclude(stepped, out.winner, "topout")
           t == TickRoom(r, out)
<1>1. r \in Room /\ r.open /\ ~r.concluded /\ r.saved = <<>> /\ r.started
  BY DEF GoodRoom, Live, BothSeated
<1>2. /\ out.status \in Statuses /\ out.winner \in Seats \cup {Null}
      /\ out.status # "finished" => out.winner = Null
  BY DEF StepOutcomes, Statuses
<1>3. GoodRoom(t)
  BY TickGood
<1>counts. /\ Capped(r.frame + 1, MaxFrame) \in 0..MaxFrame
           /\ Capped(r.ticks + 1, MaxReplayTicks) \in 0..MaxReplayTicks
  <2>1. r.frame \in 0..MaxFrame /\ r.ticks \in 0..MaxReplayTicks
    BY <1>1 DEF Room
  <2>2. QED
    BY <2>1, Bounds DEF Capped
<1>4. /\ stepped \in Room /\ stepped.open = r.open /\ stepped.started = r.started
      /\ stepped.concluded = r.concluded /\ stepped.winner = out.winner /\ stepped.idle = 0
      /\ stepped.saved = r.saved
  BY <1>1, <1>2, <1>counts, Bounds DEF Room
<1>5. t = IF out.status = "finished" THEN e ELSE stepped
  BY DEF TickRoom
<1> HIDE DEF stepped, t
<1>6. CASE out.status = "finished"
  <2>1. e.open = stepped.open /\ e.concluded
    <3>1. stepped \in Room /\ ~stepped.concluded /\ stepped.saved = <<>>
          /\ out.winner \in Seats \cup {Null} /\ "topout" \in Reasons
      BY <1>1, <1>2, <1>4 DEF Reasons
    <3>2. QED
      BY <3>1, ConcludeSaves
  <2>2. t.open /\ t.concluded /\ t \in Room
    BY <1>1, <1>3, <1>4, <1>5, <1>6, <2>1 DEF GoodRoom
  <2>3. FitRoom(t)
    BY <2>2 DEF FitRoom
  <2>4. Lifecycle!Move(View(r), View(t))
    BY <1>1, <2>2, <2>3, MoveBy
  <2>5. QED
    BY <2>3, <2>4 DEF t
<1>7. CASE out.status # "finished"
  <2>1. t = stepped /\ t \in Room
    BY <1>3, <1>5, <1>7 DEF GoodRoom
  <2>2. FitRoom(t) /\ t.winner = r.winner
    BY <1>1, <1>2, <1>4, <1>7, <2>1 DEF FitRoom
  <2>3. PhaseOf(t) = PhaseOf(r)
    BY <1>1, <1>4, <2>1, PhaseFacts DEF Underway
  <2>4. t.open \/ ~t.concluded
    BY <1>1, <1>4, <2>1
  <2>5. Lifecycle!Move(View(r), View(t))
    BY <1>1, <2>1, <2>2, <2>3, <2>4, MoveBy
  <2>6. QED
    BY <2>2, <2>5 DEF t
<1>8. QED
  BY <1>6, <1>7

\* The operator's verdict ends a match, unless it is over.
LEMMA CloseMoves ==
  ASSUME NEW r, GoodRoom(r), FitRoom(r), r.open, NEW w \in Seats \cup {Null}
  PROVE  FitRoom(Conclude(r, w, "forfeit")) /\ Lifecycle!Move(View(r), View(Conclude(r, w, "forfeit")))
<1> DEFINE e == Conclude(r, w, "forfeit")
<1>1. CASE r.concluded
  BY <1>1 DEF Conclude, Lifecycle!Move
<1>2. CASE ~r.concluded
  <2>1. r \in Room /\ r.saved = <<>>
    BY <1>2 DEF GoodRoom
  <2>2. e \in Room /\ e.open = r.open /\ e.concluded
    BY <1>2, <2>1, ConcludeSaves DEF Reasons
  <2> HIDE DEF e
  <2>3. FitRoom(e) /\ Lifecycle!Move(View(r), View(e))
    BY <1>2, <2>1, <2>2, MoveBy DEF FitRoom
  <2>4. QED
    BY <2>3 DEF e
<1>3. QED
  BY <1>1, <1>2

-----------------------------------------------------------------------------
(* The table.                                                              *)

MovesOf(table) == \A c \in Codes : Lifecycle!Move(View(rooms[c]), View(table[c]))

LEMMA StayMoves == \A r : Lifecycle!Move(View(r), View(r))
  BY DEF Lifecycle!Move

\* leaveCurrentRoom, which nearly every handler begins with: a room it changes
\* is over or gone.
LEMMA LeaveMoves ==
  ASSUME IInv, FitRooms, NEW s \in Sockets, NEW c \in Codes
  PROVE  LET q == AfterLeave(s)[c]
         IN  /\ FitRoom(q) /\ Lifecycle!Move(View(rooms[c]), View(q))
             /\ q = rooms[c] \/ (q.open => q.concluded)
             /\ Underway(rooms[c]) => q.open
             /\ q.open => rooms[c].open
             /\ q.started => rooms[c].started
<1> DEFINE c0 == at[s].room
           p0 == at[s].seat
           there == c0 # Null /\ rooms[c0].open /\ rooms[c0].seats[p0] = s
<1>1. /\ c0 \in Codes \cup {Null} /\ p0 \in Seats /\ rooms \in [Codes -> Room]
      /\ GoodRoom(rooms[c]) /\ FitRoom(rooms[c]) /\ s # Null
  BY NullApart DEF IInv, FitRooms
<1>2. CASE there /\ c = c0
  <2>1. AfterLeave(s)[c] = VacateSeat(rooms[c], p0)
    BY <1>1, <1>2 DEF AfterLeave
  <2>2. QED
    BY <1>1, <1>2, <2>1, VacateMoves
<1>3. CASE ~(there /\ c = c0)
  <2>1. AfterLeave(s)[c] = rooms[c]
    BY <1>1, <1>3 DEF AfterLeave
  <2>2. QED
    BY <1>1, <2>1, StayMoves DEF Underway
<1>4. QED
  BY <1>2, <1>3

LEMMA SeatRoomTouches ==
  ASSUME NEW r \in Room, NEW s \in Sockets, NEW p \in Seats
  PROVE  LET q == SeatRoom(r, s, p)
         IN  /\ q \in Room /\ q.open = r.open /\ q.concluded = r.concluded
             /\ q.winner = r.winner /\ q.idle = 0
<1> DEFINE seated == [r EXCEPT !.seats[p] = s, !.names[p] = s, !.idle = 0]
           q == SeatRoom(r, s, p)
<1>1. /\ seated \in Room /\ seated.idle = 0 /\ seated.open = r.open
      /\ seated.concluded = r.concluded /\ seated.winner = r.winner
  BY Bounds DEF Room
<1>2. q = [seated EXCEPT !.started = @ \/ BothSeated(seated)]
  BY DEF SeatRoom
<1>3. BothSeated(seated) \in BOOLEAN
  BY DEF BothSeated
<1> HIDE DEF seated, q
<1>4. /\ q \in Room /\ q.idle = 0 /\ q.open = r.open
      /\ q.concluded = r.concluded /\ q.winner = r.winner
  BY <1>1, <1>2, <1>3 DEF Room
<1>5. QED
  BY <1>4 DEF q

\* A room that is opened by its host, or for two players who met in the queue.
LEMMA OpenedRooms ==
  ASSUME NEW o \in Sockets, NEW s \in Sockets
  PROVE  /\ LET h == SeatRoom(NewRoom(s, Null), s, 0)
            IN  GoodRoom(h) /\ FitRoom(h) /\ h.open /\ ~h.concluded
         /\ LET m == SeatRoom(SeatRoom(NewRoom(o, s), o, 0), s, 1)
            IN  GoodRoom(m) /\ FitRoom(m) /\ m.open /\ ~m.concluded
<1>1. ASSUME NEW n \in Room, NEW t \in Sockets, NEW p \in Seats
      PROVE  /\ SeatRoom(n, t, p).open = n.open /\ SeatRoom(n, t, p).concluded = n.concluded
             /\ SeatRoom(n, t, p).winner = n.winner /\ SeatRoom(n, t, p) \in Room
  BY SeatRoomTouches
<1>2. \A n \in Room, t \in Sockets, p \in Seats : SeatRoom(n, t, p).idle = 0
  BY SeatRoomTouches
<1>3. \A t \in Sockets \cup {Null} :
         /\ NewRoom(o, t) \in Room /\ NewRoom(o, t).winner = Null
         /\ NewRoom(s, t) \in Room /\ NewRoom(s, t).winner = Null
         /\ NewRoom(o, t).open /\ ~NewRoom(o, t).concluded
         /\ NewRoom(s, t).open /\ ~NewRoom(s, t).concluded
  BY NewRoomType, NewRoomFields, ZenonT(60) DEF NewRoom
<1> DEFINE h == SeatRoom(NewRoom(s, Null), s, 0)
           m == SeatRoom(SeatRoom(NewRoom(o, s), o, 0), s, 1)
<1>4. h.open /\ ~h.concluded /\ h.winner = Null /\ h.idle = 0
  BY <1>1, <1>2, <1>3, SeatNumbers, SMTT(30)
<1>5. m.open /\ ~m.concluded /\ m.winner = Null /\ m.idle = 0
  BY <1>1, <1>2, <1>3, SeatNumbers
<1>6. GoodRoom(h) /\ GoodRoom(m)
  BY HostedRoomGood, PairedRoomGood
<1> HIDE DEF h, m
<1>7. FitRoom(h) /\ FitRoom(m)
  BY <1>4, <1>5 DEF FitRoom
<1>8. QED
  BY <1>4, <1>5, <1>6, <1>7 DEF h, m

\* Somebody leaves, and a room is opened under a code that is free then.
LEMMA OpenMoves ==
  ASSUME IInv, FitRooms, NEW s \in Sockets, NEW c \in Codes \ OpenRooms(AfterLeave(s)), NEW r,
         GoodRoom(r), FitRoom(r), ~r.concluded, rooms' = [AfterLeave(s) EXCEPT ![c] = r]
  PROVE  FitRooms' /\ MovesOf(rooms')
<1>1. AfterLeave(s) \in [Codes -> Room] /\ rooms \in [Codes -> Room]
  BY LeaveGood DEF IInv
<1>2. ~AfterLeave(s)[c].open
  BY DEF OpenRooms
<1>3. ~Underway(rooms[c])
  BY <1>2, LeaveMoves
<1>4. Lifecycle!Move(View(rooms[c]), View(r))
  BY <1>1, <1>3, MoveBy DEF GoodRoom
<1>5. \A d \in Codes : rooms'[d] = IF d = c THEN r ELSE AfterLeave(s)[d]
  BY <1>1
<1>6. QED
  BY <1>4, <1>5, LeaveMoves DEF FitRooms, MovesOf

\* The second player of a private room.
LEMMA JoinMoves ==
  ASSUME IInv, FitRooms, NEW s \in Sockets, NEW c \in Codes, Joinable(AfterLeave(s)[c]),
         rooms' = [AfterLeave(s) EXCEPT ![c] = SeatRoom(@, s, 1)]
  PROVE  FitRooms' /\ MovesOf(rooms')
<1> DEFINE j == SeatRoom(AfterLeave(s)[c], s, 1)
<1>1. /\ AfterLeave(s) \in [Codes -> Room] /\ rooms \in [Codes -> Room]
      /\ GoodRoom(AfterLeave(s)[c]) /\ GoodRoom(rooms[c])
  BY LeaveGood DEF IInv
<1>2. /\ AfterLeave(s)[c].open /\ AfterLeave(s)[c].seats[1] = Null
      /\ ~AfterLeave(s)[c].concluded
  BY <1>1 DEF Joinable, GoodRoom
<1>3. AfterLeave(s)[c] = rooms[c]
  BY <1>2, LeaveMoves
<1>4. ~Underway(rooms[c]) /\ rooms[c].winner = Null
  BY <1>1, <1>2, <1>3 DEF Underway, GoodRoom, BothSeated, FitRooms, FitRoom
<1>5. /\ j \in Room /\ j.open = rooms[c].open /\ j.concluded = rooms[c].concluded
      /\ j.winner = rooms[c].winner
  <2>1. rooms[c] \in Room /\ j = SeatRoom(rooms[c], s, 1)
    BY <1>1, <1>3 DEF GoodRoom
  <2> HIDE DEF j
  <2>2. QED
    BY <2>1, SeatRoomTouches, SeatNumbers
<1>6. AfterLeave(s)[c] \in Room /\ j.idle = 0
  BY <1>1, SeatRoomTouches, SeatNumbers DEF GoodRoom
<1>7. \A d \in Codes : rooms'[d] = IF d = c THEN j ELSE AfterLeave(s)[d]
  BY <1>1
<1> HIDE DEF j
<1>8. FitRoom(j) /\ ~j.concluded
  BY <1>2, <1>3, <1>4, <1>5, <1>6 DEF FitRoom
<1>9. Lifecycle!Move(View(rooms[c]), View(j))
  BY <1>1, <1>4, <1>5, <1>8, MoveBy
<1>10. QED
  BY <1>7, <1>8, <1>9, LeaveMoves DEF FitRooms, MovesOf

LEMMA ClientMoves ==
  ASSUME IInv, FitRooms, NEW s \in Sockets, Client(s)
  PROVE  FitRooms' /\ MovesOf(rooms')
<1>1. CASE UNCHANGED rooms
  BY <1>1, StayMoves DEF FitRooms, MovesOf
<1>2. CASE rooms' = AfterLeave(s)
  BY <1>2, LeaveMoves DEF FitRooms, MovesOf
<1>3. CASE RoomCreate(s)
  <2>1. PICK c \in Codes \ OpenRooms(AfterLeave(s)) :
           rooms' = [AfterLeave(s) EXCEPT ![c] = SeatRoom(NewRoom(s, Null), s, 0)]
    BY <1>3 DEF RoomCreate
  <2>2. QED
    BY <2>1, OpenedRooms, OpenMoves
<1>4. CASE MatchmakingPair(s)
  <2> DEFINE o == Enqueue(queue, s).opponent
  <2>1. CASE o \in connected
    <3>1. PICK c \in Codes \ OpenRooms(AfterLeave(s)) :
             rooms' = [AfterLeave(s) EXCEPT ![c] = SeatRoom(SeatRoom(NewRoom(o, s), o, 0), s, 1)]
      BY <1>4, <2>1 DEF MatchmakingPair
    <3>2. o \in Sockets
      BY <2>1 DEF IInv
    <3> HIDE DEF o
    <3>3. QED
      BY <3>1, <3>2, OpenedRooms, OpenMoves
  <2>2. CASE o \notin connected
    BY <1>2, <1>4, <2>2 DEF MatchmakingPair
  <2>3. QED
    BY <2>1, <2>2
<1>5. CASE \E c \in Codes : RoomJoin(s, c)
  BY <1>5, JoinMoves DEF RoomJoin
<1>6. CASE MatchInput(s)
  <2>1. PICK c \in Codes : rooms[c].open /\ rooms' = [rooms EXCEPT ![c].idle = 0]
    BY <1>6 DEF MatchInput, IInv
  <2> DEFINE t == [rooms[c] EXCEPT !.idle = 0]
  <2>2. /\ rooms \in [Codes -> Room] /\ t \in Room /\ t.open = rooms[c].open
        /\ t.started = rooms[c].started /\ t.concluded = rooms[c].concluded
        /\ t.winner = rooms[c].winner /\ t.idle = 0
    BY Bounds DEF Room, IInv
  <2>3. \A d \in Codes : rooms'[d] = IF d = c THEN t ELSE rooms[d]
    BY <2>1, <2>2
  <2> HIDE DEF t
  <2>4. FitRoom(t) /\ View(t) = View(rooms[c])
    BY <2>2 DEF FitRoom, FitRooms, View, PhaseOf
  <2>5. QED
    BY <2>3, <2>4, StayMoves DEF FitRooms, MovesOf
<1>7. QED
  BY <1>1, <1>2, <1>3, <1>4, <1>5, <1>6
     DEF Client, Connect, Disconnect, MatchmakingRefused, MatchmakingWait, MatchmakingCancel,
         RoomCreateRefused, RoomJoinRefused

LEMMA TickRoomsMove ==
  ASSUME IInv, FitRooms, Tick
  PROVE  FitRooms' /\ MovesOf(rooms')
<1> DEFINE live == {c \in Codes : Live(rooms[c])}
<1>1. PICK out : /\ \A c \in live : out[c] \in StepOutcomes(rooms[c].status)
                 /\ rooms' = [c \in Codes |-> IF c \in live THEN TickRoom(rooms[c], out[c])
                                              ELSE rooms[c]]
  BY DEF Tick
<1>2. ASSUME NEW c \in Codes
      PROVE  FitRoom(rooms'[c]) /\ Lifecycle!Move(View(rooms[c]), View(rooms'[c]))
  <2>1. GoodRoom(rooms[c]) /\ FitRoom(rooms[c])
    BY DEF IInv, FitRooms
  <2>2. CASE c \in live
    BY <1>1, <2>1, <2>2, TickMoves
  <2>3. CASE c \notin live
    BY <1>1, <2>1, <2>3, StayMoves
  <2>4. QED
    BY <2>2, <2>3
<1>3. QED
  BY <1>2 DEF FitRooms, MovesOf

\* Time passes for rooms, and the pump keeps up with it.
LEMMA ElapseMoves ==
  ASSUME IInv, FitRooms, Elapse
  PROVE  FitRooms' /\ MovesOf(rooms')
<1>1. ASSUME NEW c \in Codes
      PROVE  FitRoom(rooms'[c]) /\ Lifecycle!Move(View(rooms[c]), View(rooms'[c]))
  <2>1. GoodRoom(rooms[c]) /\ FitRoom(rooms[c]) /\ rooms[c] \in Room
    BY DEF IInv, FitRooms
  <2>2. CASE ~rooms[c].open
    BY <2>1, <2>2, StayMoves DEF Elapse
  <2>3. CASE rooms[c].open
    <3> DEFINE t == [rooms[c] EXCEPT !.idle = Capped(@ + 1, MaxIdle)]
    <3>1. rooms'[c] = t
      BY <2>3 DEF Elapse
    <3>2. /\ t.open = rooms[c].open /\ t.started = rooms[c].started
          /\ t.concluded = rooms[c].concluded /\ t.winner = rooms[c].winner
          /\ t.idle = Capped(rooms[c].idle + 1, MaxIdle)
      BY <2>1 DEF Room
    <3> HIDE DEF t
    <3>3. Underway(rooms[c]) => rooms[c].idle = 0
      BY <2>1 DEF Elapse, Live, GoodRoom, Underway
    <3>4. Underway(rooms[c]) => t.idle <= 1
      BY <3>2, <3>3, Bounds DEF Capped
    <3>5. FitRoom(t) /\ View(t) = View(rooms[c])
      BY <2>1, <3>2, <3>4 DEF FitRoom, View, PhaseOf, Underway
    <3>6. QED
      BY <3>1, <3>5, StayMoves
  <2>4. QED
    BY <2>2, <2>3
<1>2. QED
  BY <1>1 DEF FitRooms, MovesOf

\* The janitor takes no room with a match under way.
LEMMA JanitorMoves ==
  ASSUME IInv, FitRooms, Janitor
  PROVE  FitRooms' /\ MovesOf(rooms')
<1>1. ASSUME NEW c \in Codes
      PROVE  FitRoom(rooms'[c]) /\ Lifecycle!Move(View(rooms[c]), View(rooms'[c]))
  <2>1. GoodRoom(rooms[c]) /\ FitRoom(rooms[c]) /\ rooms[c] \in Room
    BY DEF IInv, FitRooms
  <2>2. CASE rooms[c].open /\ ShouldReap(rooms[c])
    <3>1. rooms'[c] = NoRoom
      BY <2>2 DEF Janitor
    <3>2. rooms[c].idle \in 0..MaxIdle
      BY <2>1 DEF Room
    <3>3. ~Underway(rooms[c])
      BY <2>1, <2>2, <3>2, RoomsAssumption, NullApart, SeatNumbers
         DEF ShouldReap, Underway, FitRoom, GoodRoom, BothSeated, Empty
    <3>4. QED
      BY <2>1, <3>1, <3>3, NoRoomFits, NoRoomFields, MoveBy
  <2>3. CASE ~(rooms[c].open /\ ShouldReap(rooms[c]))
    BY <2>1, <2>3, StayMoves DEF Janitor
  <2>4. QED
    BY <2>2, <2>3
<1>2. QED
  BY <1>1 DEF FitRooms, MovesOf

LEMMA CloseRoomMoves ==
  ASSUME IInv, FitRooms, NEW c \in Codes, CloseRoom(c)
  PROVE  FitRooms' /\ MovesOf(rooms')
<1>1. PICK w \in Seats \cup {Null} :
         rooms[c].open /\ rooms' = [rooms EXCEPT ![c] = Conclude(@, w, "forfeit")]
  BY SeatNumbers DEF CloseRoom
<1>2. \A d \in Codes : rooms'[d] = IF d = c THEN Conclude(rooms[c], w, "forfeit") ELSE rooms[d]
  BY <1>1 DEF IInv
<1>3. GoodRoom(rooms[c]) /\ \A d \in Codes : FitRoom(rooms[d])
  BY DEF IInv, FitRooms
<1>4. QED
  BY <1>1, <1>2, <1>3, CloseMoves, StayMoves DEF FitRooms, MovesOf

-----------------------------------------------------------------------------
(* The refinement.                                                         *)

LEMMA AbsentIs == View(NoRoom) = Lifecycle!Absent
  BY NoRoomFits, NoRoomFields DEF View, PhaseOf, Lifecycle!Absent

LEMMA FitInit == Init => FitRooms
  BY NoRoomFits DEF Init, FitRooms

\* Every step of the server but its end is a move of every code.
LEMMA ServeStep ==
  ASSUME IInv, FitRooms, [Next]_vars, ~Shutdown
  PROVE  FitRooms' /\ (UNCHANGED <<up, rooms>> \/ (up /\ UNCHANGED up /\ MovesOf(rooms')))
<1>1. CASE UNCHANGED vars \/ \E on \in BOOLEAN : SetMaintenance(on)
  BY <1>1 DEF vars, SetMaintenance, FitRooms
<1>2. CASE \E s \in Sockets : Client(s)
  <2>1. up /\ UNCHANGED up
    BY <1>2 DEF Client, Connect, Disconnect, MatchmakingRefused, MatchmakingWait, MatchmakingPair,
         MatchmakingCancel, RoomCreateRefused, RoomCreate, RoomJoin, RoomJoinRefused, MatchInput
  <2>2. QED
    BY <1>2, <2>1, ClientMoves
<1>3. CASE Tick \/ Elapse \/ Janitor \/ \E c \in Codes : CloseRoom(c)
  <2>1. up /\ UNCHANGED up
    BY <1>3 DEF Tick, Elapse, Janitor, CloseRoom
  <2>2. QED
    BY <1>3, <2>1, TickRoomsMove, ElapseMoves, JanitorMoves, CloseRoomMoves
<1>4. QED
  BY <1>1, <1>2, <1>3 DEF Next, Operator

LEMMA ShutdownStep ==
  ASSUME Shutdown
  PROVE  FitRooms' /\ Lifecycle!Stop
<1>1. \A c \in Codes : rooms'[c] = NoRoom
  BY DEF Shutdown
<1>2. FitRooms'
  BY <1>1, NoRoomFits DEF FitRooms
<1>3. Abstract' = [c \in Codes |-> Lifecycle!Absent]
  BY <1>1, AbsentIs DEF Abstract, View
<1>4. QED
  BY <1>2, <1>3 DEF Lifecycle!Stop, Shutdown

LEMMA StepRefines ==
  ASSUME IInv, IInv', FitRooms, [Next]_vars
  PROVE  FitRooms' /\ [Lifecycle!Next]_<<up, Abstract>>
<1>1. CASE Shutdown
  BY <1>1, ShutdownStep DEF Lifecycle!Next
<1>2. CASE ~Shutdown
  <2>1. CASE UNCHANGED <<up, rooms>>
    BY <1>2, <2>1, ServeStep DEF Abstract
  <2>2. CASE up /\ UNCHANGED up /\ MovesOf(rooms')
    <3>1. Abstract' \in [Codes -> Lifecycle!Match]
      <4>1. \A c \in Codes : View(rooms'[c]) \in Lifecycle!Match
        BY PhaseFacts DEF IInv
      <4>2. QED
        BY <4>1 DEF Abstract, View
    <3>2. \A c \in Codes : Abstract[c] = View(rooms[c]) /\ Abstract'[c] = View(rooms'[c])
      BY DEF Abstract, View
    <3>3. Lifecycle!Serve
      BY <2>2, <3>1, <3>2 DEF Lifecycle!Serve, MovesOf
    <3>4. QED
      BY <1>2, <3>3, ServeStep DEF Lifecycle!Next
  <2>3. QED
    BY <1>2, <2>1, <2>2, ServeStep
<1>3. QED
  BY <1>1, <1>2

\* Whatever the order of joins, departures, ticks, reaping and closing, a live
\* match goes to "over" before its code is free, ends once, and keeps its winner.
THEOREM RoomsImplementLifecycle == Spec => ImplementsLifecycle
<1>1. Init => IInv /\ FitRooms /\ Lifecycle!Init
  <2>1. Init => Abstract = [c \in Codes |-> Lifecycle!Absent]
    BY AbsentIs DEF Init, Abstract, View
  <2>2. QED
    BY <2>1, InitInv, FitInit DEF Init, Lifecycle!Init
<1>2. IInv /\ FitRooms /\ [Next]_vars =>
         IInv' /\ FitRooms' /\ [Lifecycle!Next]_<<up, Abstract>>
  BY NextInv, StepRefines
<1>3. QED
  BY <1>1, <1>2, PTL DEF Spec, ImplementsLifecycle, Lifecycle!Spec

-----------------------------------------------------------------------------
(* Maintenance.                                                            *)

\* No room is opened and no match begins in it.
StartsNothing(table) ==
    \A c \in Codes : (table[c].open => rooms[c].open) /\ (table[c].started => rooms[c].started)

\* room:join tests the switch after the caller has left; the other handlers that
\* open rooms refuse at once.
LEMMA ClientsStartNothing ==
  ASSUME IInv, FitRooms, maintenance, NEW s \in Sockets, Client(s)
  PROVE  StartsNothing(rooms')
<1>1. CASE UNCHANGED rooms
  BY <1>1 DEF StartsNothing
<1>2. CASE rooms' = AfterLeave(s)
  BY <1>2, LeaveMoves DEF StartsNothing
<1>3. CASE MatchInput(s)
  <2>1. PICK c \in Codes : rooms' = [rooms EXCEPT ![c].idle = 0]
    BY <1>3 DEF MatchInput, IInv
  <2>2. rooms \in [Codes -> Room]
    BY DEF IInv
  <2>3. \A d \in Codes : rooms'[d].open = rooms[d].open /\ rooms'[d].started = rooms[d].started
    BY <2>1, <2>2 DEF Room
  <2>4. QED
    BY <2>3 DEF StartsNothing
<1>4. QED
  BY <1>1, <1>2, <1>3
     DEF Client, Connect, Disconnect, MatchmakingRefused, MatchmakingWait, MatchmakingCancel,
         MatchmakingPair, RoomCreate, RoomCreateRefused, RoomJoin, RoomJoinRefused, Joinable

LEMMA TimersStartNothing ==
  ASSUME IInv, Tick \/ Elapse \/ Janitor
  PROVE  StartsNothing(rooms')
<1>1. \A c \in Codes : GoodRoom(rooms[c]) /\ rooms[c] \in Room
  BY DEF IInv
<1>2. CASE Tick
  <2>1. \A c \in Codes : Live(rooms[c]) => rooms[c].open /\ rooms[c].started
    BY <1>1 DEF Live, GoodRoom, BothSeated
  <2>2. \A c \in Codes : ~Live(rooms[c]) => rooms'[c] = rooms[c]
    BY <1>2 DEF Tick
  <2>3. QED
    BY <2>1, <2>2 DEF StartsNothing
<1>3. CASE Elapse
  <2>1. \A c \in Codes : rooms'[c].open = rooms[c].open /\ rooms'[c].started = rooms[c].started
    BY <1>1, <1>3 DEF Elapse, Room
  <2>2. QED
    BY <2>1 DEF StartsNothing
<1>4. CASE Janitor
  BY <1>4, NoRoomFields DEF Janitor, StartsNothing
<1>5. QED
  BY <1>2, <1>3, <1>4

LEMMA OperatorStartsNothing ==
  ASSUME IInv, Operator
  PROVE  StartsNothing(rooms')
<1>1. ASSUME NEW c \in Codes, CloseRoom(c)
      PROVE  StartsNothing(rooms')
  <2>1. PICK w \in Seats \cup {Null} :
           rooms[c].open /\ rooms' = [rooms EXCEPT ![c] = Conclude(@, w, "forfeit")]
    BY <1>1, SeatNumbers DEF CloseRoom
  <2> DEFINE e == Conclude(rooms[c], w, "forfeit")
  <2>2. e.started = rooms[c].started
    <3>1. CASE rooms[c].concluded
      BY <3>1 DEF Conclude
    <3>2. CASE ~rooms[c].concluded
      <4>1. rooms[c] \in Room /\ rooms[c].saved = <<>> /\ "forfeit" \in Reasons
        BY <3>2 DEF IInv, GoodRoom, Reasons
      <4>2. QED
        BY <3>2, <4>1, ConcludeSaves
    <3>3. QED
      BY <3>1, <3>2
  <2>3. \A d \in Codes : rooms'[d] = IF d = c THEN e ELSE rooms[d]
    BY <2>1 DEF IInv
  <2> HIDE DEF e
  <2>4. QED
    BY <2>1, <2>2, <2>3 DEF StartsNothing
<1>2. ASSUME Shutdown PROVE StartsNothing(rooms')
  BY <1>2, NoRoomFields DEF Shutdown, StartsNothing
<1>3. QED
  BY <1>1, <1>2 DEF Operator, SetMaintenance, StartsNothing

\* server.ts refuses matchmaking, room:create and room:join while the operator's
\* switch is on: no path of a handler opens a room or starts a match behind it.
THEOREM MaintenanceHolds == Spec => NothingStartsInMaintenance
<1>1. Init => IInv /\ FitRooms
  BY InitInv, FitInit
<1>2. IInv /\ FitRooms /\ [Next]_vars => IInv' /\ FitRooms'
  BY NextInv, StepRefines
<1>3. IInv /\ FitRooms /\ [Next]_vars =>
         [maintenance => \A c \in Codes : /\ rooms'[c].open => rooms[c].open
                                          /\ rooms'[c].started => rooms[c].started]_vars
  BY ClientsStartNothing, TimersStartNothing, OperatorStartsNothing DEF Next, StartsNothing
<1>4. QED
  BY <1>1, <1>2, <1>3, PTL DEF Spec, NothingStartsInMaintenance

=============================================================================
