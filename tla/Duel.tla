-------------------------------- MODULE Duel --------------------------------
(***************************************************************************)
(* A match between two players, packages/core/src/match.ts, seen from the  *)
(* exchange of garbage: the countdown, the fixed order in which one tick   *)
(* steps both players and then delivers what they sent, cancelling, the    *)
(* telegraph, top-outs and the winner.                                     *)
(*                                                                         *)
(* What happens on a board is a choice (a Play): nothing that matters      *)
(* here, a lock that cleared so many lines, or a spawn that was blocked.   *)
(* The module Playfield has the board.  step is a pure function there and  *)
(* here: After(m, plays) is the match one tick later.                      *)
(***************************************************************************)
EXTENDS Attack, Garbage

CONSTANTS
    CountdownTicks,   \* config.countdownTicks
    SpawnDelay,       \* config.spawnDelayTicks
    GarbageDelay,     \* config.garbageDelayTicks
    Clears,           \* the line clears a lock may make
    MaxFrame          \* the frame at which the exploration stops (a bound)

PlayerIds == {0, 1}
Foe(p) == 1 - p
NoWinner == 2   \* null

LineClears == [lines : 0..4, tspin : BOOLEAN, mini : BOOLEAN, perfect : BOOLEAN]

ASSUME DuelAssumption ==
    /\ CountdownTicks \in Nat
    /\ SpawnDelay \in Nat
    /\ GarbageDelay \in Nat
    /\ Clears \subseteq LineClears
    /\ \A c \in Clears : c.lines > 0
    /\ MaxFrame \in Nat

VARIABLE match

vars == <<match>>

NoClear == [lines |-> 0, tspin |-> FALSE, mini |-> FALSE, perfect |-> FALSE]

\* What the field does with one tick of input.
Plays == [end : {"none", "topout"}, clear : {NoClear}]
         \cup [end : {"lock"}, clear : Clears \cup {NoClear}]

Batch == [amount : Nat \ {0}, readyAtFrame : Nat]   \* GarbageLine, without its hole

Player == [alive : BOOLEAN,
           active : BOOLEAN,         \* whether a piece is in play
           spawnTicks : Nat,
           combo : Int,
           backToBack : BOOLEAN,
           attackSent : Nat,
           garbageQueue : Seq(Batch),
           landed : Nat,             \* history: rows pushed into this board
           cancelled : Nat,          \* history: rows its own clears removed from its queue
           absorbed : Nat]           \* history: rows an arriving attack removed from it

Match == [solo : BOOLEAN,           \* config.solo: nobody sits in seat 1
          status : {"countdown", "playing", "finished"},
          winner : PlayerIds \cup {NoWinner},
          frame : Nat,
          players : [PlayerIds -> Player]]

NewPlayer ==
    [alive |-> TRUE, active |-> FALSE, spawnTicks |-> SpawnDelay, combo |-> -1,
     backToBack |-> FALSE, attackSent |-> 0, garbageQueue |-> <<>>,
     landed |-> 0, cancelled |-> 0, absorbed |-> 0]

-----------------------------------------------------------------------------
(* One player's tick: the player afterwards and the attack it sends.       *)

ApplyReadyGarbage(p, frame) ==
    LET due == DueCount(p.garbageQueue, frame)
    IN  [p EXCEPT !.garbageQueue = SubSeq(@, due + 1, Len(@)),
                  !.landed = @ + Pending(SubSeq(p.garbageQueue, 1, due))]

\* Mutant: what was cancelled counts as sent.
ScoreClearGross(p, clear) ==
    LET kind == ClassifyClear(clear.lines, clear.tspin, clear.mini)
        amount == AttackFor(kind, p.backToBack, p.combo + 1, clear.perfect)
        cancel == CancelIncoming(p.garbageQueue, amount)
    IN  [player |-> [p EXCEPT !.combo = @ + 1,
                              !.backToBack = IsB2BClear(kind) \/ (@ /\ ~BreaksB2B(kind)),
                              !.garbageQueue = cancel.queue,
                              !.attackSent = @ + amount,
                              !.cancelled = @ + amount - cancel.left],
         sent |-> cancel.left]

ScoreClear(p, clear) ==
    LET kind == ClassifyClear(clear.lines, clear.tspin, clear.mini)
        amount == AttackFor(kind, p.backToBack, p.combo + 1, clear.perfect)
        cancel == CancelIncoming(p.garbageQueue, amount)
    IN  [player |-> [p EXCEPT !.combo = @ + 1,
                              !.backToBack = IsB2BClear(kind) \/ (@ /\ ~BreaksB2B(kind)),
                              !.garbageQueue = cancel.queue,
                              !.attackSent = @ + cancel.left,
                              !.cancelled = @ + amount - cancel.left],
         sent |-> cancel.left]

ResolveLock(p, clear, frame) ==
    LET locked == [p EXCEPT !.active = FALSE, !.spawnTicks = SpawnDelay]
    IN  IF clear.lines > 0 THEN ScoreClear(locked, clear)
        ELSE [player |-> ApplyReadyGarbage([locked EXCEPT !.combo = -1], frame), sent |-> 0]

StepPlayer(p, play, frame) ==
    IF ~p.alive THEN [player |-> p, sent |-> 0]
    ELSE IF ~p.active /\ p.spawnTicks > 0
    THEN [player |-> [p EXCEPT !.spawnTicks = @ - 1], sent |-> 0]
    ELSE CASE play.end = "topout" ->
                  [player |-> [p EXCEPT !.alive = FALSE, !.active = FALSE], sent |-> 0]
           [] play.end = "none" -> [player |-> [p EXCEPT !.active = TRUE], sent |-> 0]
           [] play.end = "lock" -> ResolveLock(p, play.clear, frame)

-----------------------------------------------------------------------------
(* One tick of the match.                                                  *)

\* Delivery of an attack, once both players have been stepped.
Deliver(victim, amount, frame) ==
    IF amount = 0 \/ ~victim.alive THEN victim
    ELSE [victim EXCEPT
             !.garbageQueue = Receive(@, [amount |-> amount,
                                          readyAtFrame |-> frame + GarbageDelay]),
             !.absorbed = @ + amount - CancelIncoming(victim.garbageQueue, amount).left]

\* Mutant: seat 0 loses a double top-out.
WinnerOfFirstToDie(players) ==
    CASE ~players[0].alive -> 1
      [] players[0].alive /\ ~players[1].alive -> 0
      [] players[0].alive /\ players[1].alive -> NoWinner

WinnerOf(players) ==
    CASE ~players[0].alive /\ players[1].alive -> 1
      [] players[0].alive /\ ~players[1].alive -> 0
      [] players[0].alive <=> players[1].alive -> NoWinner

\* What one tick leads to once both players are stepped and attacks delivered.
Settle(m, players) ==
    [m EXCEPT !.status = IF \E p \in PlayerIds : ~players[p].alive THEN "finished" ELSE "playing",
              !.winner = IF m.solo THEN NoWinner ELSE WinnerOf(players),
              !.frame = @ + 1,
              !.players = players]

\* Mutant: seat 0's attack is delivered before seat 1 is stepped.
StepBothInTurn(m, plays) ==
    LET first == StepPlayer(m.players[0], plays[0], m.frame)
        second == StepPlayer(Deliver(m.players[1], first.sent, m.frame), plays[1], m.frame)
    IN  Settle(m, [p \in PlayerIds |-> IF p = 0 THEN Deliver(first.player, second.sent, m.frame)
                                       ELSE second.player])

StepBoth(m, plays) ==
    LET stepped == [p \in PlayerIds |->
                       IF m.solo /\ p = 1 THEN [player |-> m.players[p], sent |-> 0]
                       ELSE StepPlayer(m.players[p], plays[p], m.frame)]
    IN  Settle(m, [p \in PlayerIds |-> Deliver(stepped[p].player, stepped[Foe(p)].sent, m.frame)])

After(m, plays) ==
    CASE m.status = "finished" -> m
      [] m.status = "countdown" /\ m.frame < CountdownTicks -> [m EXCEPT !.frame = @ + 1]
      [] m.status = "countdown" /\ m.frame >= CountdownTicks -> StepBoth(m, plays)
      [] m.status = "playing" -> StepBoth(m, plays)

Init ==
    \E solo \in BOOLEAN :
        match = [solo |-> solo, status |-> "countdown", winner |-> NoWinner, frame |-> 0,
                 players |-> [p \in PlayerIds |-> NewPlayer]]

Step == /\ match.frame < MaxFrame
        /\ \E plays \in [PlayerIds -> Plays] : match' = After(match, plays)

Next == Step

Spec == Init /\ [][Next]_vars

-----------------------------------------------------------------------------
(* Properties.                                                             *)

\* The state has the shape the code gives it.
TypeOK == match \in Match

\* Every row of every attack is accounted for: it waits for the opponent, has
\* landed on their board, was cancelled by their clears, or met rows already
\* waiting, which it destroyed together with itself (Deliver).  Only an attack
\* on a player who topped out in the same tick goes nowhere.  Whatever waits is
\* one batch, since an attack meets the one before it head on: the head of the
\* queue, all that applyReadyGarbage tests, never holds back a batch that is due.
GarbageAccounted ==
    \A p \in PlayerIds :
        LET foe == match.players[Foe(p)]
            traced == Pending(foe.garbageQueue) + foe.landed + foe.cancelled + 2 * foe.absorbed
        IN  /\ traced <= match.players[p].attackSent
            /\ foe.alive => traced = match.players[p].attackSent
            /\ Len(foe.garbageQueue) <= 1

Mirror(m) ==
    [m EXCEPT !.players = [p \in PlayerIds |-> m.players[Foe(p)]],
              !.winner = IF @ = NoWinner THEN NoWinner ELSE Foe(@)]

\* A tick is symmetric: had the players sat in each other's seats, the same
\* plays would have led to the same match with the seats exchanged, although
\* the code steps seat 0 first and delivers its attack first.
TickIsSymmetric ==
    match.frame < MaxFrame /\ ~match.solo =>
        \A plays \in [PlayerIds -> Plays] :
            Mirror(After(match, plays)) =
                After(Mirror(match), [p \in PlayerIds |-> plays[Foe(p)]])

\* The match is over exactly when somebody has topped out, and the winner is
\* the one player still alive; nobody wins when both top out in one tick, and
\* nobody wins alone.
TopoutEndsTheMatch ==
    LET alive == {p \in PlayerIds : match.players[p].alive}
    IN  /\ match.status = "finished" <=> alive # PlayerIds
        /\ match.winner # NoWinner <=> ~match.solo /\ alive = {match.winner}

=============================================================================
