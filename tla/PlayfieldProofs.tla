-------------------------- MODULE PlayfieldProofs --------------------------
(***************************************************************************)
(* Proofs about one player's board, of any size, with any pieces, gravity, *)
(* delays, inputs and garbage.                                             *)
(*                                                                         *)
(* The piece in play never overlaps anything, and its lock delay counts    *)
(* only at rest.  Every operation that moves or brings in a piece tests    *)
(* where it puts it, and every operation that changes the board takes the  *)
(* piece away; Safe and Timed are inductive through the operators of a     *)
(* tick, and AtRest through whole ticks, since a tick ends with the test   *)
(* of Rest.  Of the player these proofs need only which fields there are,  *)
(* and that the delay and its resets are numbers.                          *)
(*                                                                         *)
(* A piece left alone locks in time: LocksWithin bounds the ticks that are *)
(* left, and each tick without a key lowers the bound.                     *)
(*                                                                         *)
(* No cell is lost.  The invariant Whole adds the types, that the queue    *)
(* holds one batch at most, and the account of the cells.  What steering   *)
(* leaves alone (Moves) keeps it; a lock settles it, with what a shape, a  *)
(* clear and a batch count for; a spawn and a swap move a piece between    *)
(* dealt, held and in play.                                                *)
(*                                                                         *)
(* A tick is a play of Duel.  Shown is what Duel sees of a player.         *)
(* StepEnds lists how a tick can end, and for each end a lemma shows that  *)
(* Duel's step does the same to what is shown (Matches).                   *)
(***************************************************************************)
EXTENDS PlayfieldDuel, FiniteSetTheorems, WellFoundedInduction, SequenceTheorems, TLAPS

Fields == {"board", "active", "hold", "holdUsed", "bagIndex", "garbageQueue", "combo",
           "backToBack", "linesCleared", "attackSent", "alive", "lastAction",
           "lastKickIndex", "gravityTicks", "lockTicks", "lockResets", "dasTicks",
           "arrTicks", "spawnTicks", "landed", "over"}

IsPlayer(p) == DOMAIN p = Fields

Safe(p) == InPlay(p) => ~Collides(p.board, p.active)

\* The lock delay and its budget of resets.
Timed(p) == p.lockTicks \in Nat /\ p.lockResets \in Nat /\ p.lockResets <= MaxLockResets

Good(p) == IsPlayer(p) /\ Safe(p) /\ Timed(p)

\* Fields other than the board, the piece and its timer can change at will.
LEMMA GoodFrame ==
  ASSUME NEW p, NEW q, Good(p), IsPlayer(q), q.board = p.board, q.active = p.active,
         Timed(q)
  PROVE  Good(q)
  BY DEF Good, Safe, InPlay

LEMMA SetLastGood ==
  ASSUME NEW p, NEW action, NEW kick, Good(p)
  PROVE  /\ Good(SetLast(p, action, kick))
         /\ SetLast(p, action, kick).board = p.board
         /\ SetLast(p, action, kick).active = p.active
<1> DEFINE q == SetLast(p, action, kick)
<1>1. IsPlayer(q) /\ q.board = p.board /\ q.active = p.active /\ Timed(q)
  BY DEF SetLast, Good, IsPlayer, Fields, Timed
<1>2. QED
  BY <1>1, GoodFrame

LEMMA TryResetLockGood ==
  ASSUME NEW p, Good(p)
  PROVE  Good(TryResetLock(p))
<1> DEFINE q == [p EXCEPT !.lockTicks = 0, !.lockResets = @ + 1]
<1>1. IsPlayer(q) /\ q.board = p.board /\ q.active = p.active
  BY DEF Good, IsPlayer, Fields
<1>2. p.lockResets < MaxLockResets => Timed(q)
  BY PlayfieldAssumption, SMTT(30) DEF Good, IsPlayer, Fields, Timed
<1>3. TryResetLock(p) = IF p.lockTicks > 0 /\ p.lockResets < MaxLockResets THEN q ELSE p
  BY DEF TryResetLock
<1> HIDE DEF q
<1>4. QED
  BY <1>1, <1>2, <1>3, GoodFrame

\* Putting the piece where it has been tested.
LEMMA PlacedGood ==
  ASSUME NEW p, NEW a, Good(p), ~Collides(p.board, a)
  PROVE  Good([p EXCEPT !.active = a])
  BY DEF Good, IsPlayer, Fields, Safe, Timed

-----------------------------------------------------------------------------
(* Bringing in, moving and turning a piece.                                *)

LEMMA SpawnGood ==
  ASSUME NEW p, NEW type, Good(p)
  PROVE  Good(Spawn(p, type))
<1> DEFINE piece == SpawnPiece(type)
           fresh == [p EXCEPT !.active = piece, !.holdUsed = FALSE, !.gravityTicks = 0,
                              !.lockTicks = 0, !.lockResets = 0,
                              !.lastAction = "none", !.lastKickIndex = -1]
<1>1. IsPlayer(fresh) /\ fresh.board = p.board /\ fresh.active = piece /\ Timed(fresh)
  BY PlayfieldAssumption DEF Good, IsPlayer, Fields, Timed
<1>2. Spawn(p, type) = IF Collides(p.board, piece)
                       THEN [fresh EXCEPT !.alive = FALSE, !.active = NoPiece]
                       ELSE fresh
  BY DEF Spawn
<1> HIDE DEF piece, fresh
<1>3. CASE Collides(p.board, piece)
  BY <1>1, <1>2, <1>3 DEF Good, IsPlayer, Fields, Safe, InPlay, Timed
<1>4. CASE ~Collides(p.board, piece)
  BY <1>1, <1>2, <1>4 DEF Good, Safe
<1>5. QED
  BY <1>3, <1>4

LEMMA SpawnNextGood ==
  ASSUME NEW p, Good(p)
  PROVE  Good(SpawnNext(p))
<1> DEFINE q == [p EXCEPT !.bagIndex = @ + 1]
<1>1. IsPlayer(q) /\ q.board = p.board /\ q.active = p.active /\ Timed(q)
  BY DEF Good, IsPlayer, Fields, Timed
<1>2. Good(q)
  BY <1>1, GoodFrame
<1>3. SpawnNext(p) = Spawn(q, sequence[p.bagIndex + 1])
  BY DEF SpawnNext
<1> HIDE DEF q
<1>4. QED
  BY <1>2, <1>3, SpawnGood

LEMMA TryMoveGood ==
  ASSUME NEW p, NEW dx, NEW dy, Good(p)
  PROVE  Good(TryMove(p, dx, dy))
  BY PlacedGood DEF TryMove

LEMMA TryRotateGood ==
  ASSUME NEW p, NEW to, Good(p)
  PROVE  Good(TryRotate(p, to))
<1> DEFINE first == FirstKick(p.board, p.active, to)
           i == CHOOSE i \in first : TRUE
           q == [p EXCEPT !.active = Kicked(@, to, i)]
<1>1. TryRotate(p, to) = IF first = {} THEN p
                         ELSE TryResetLock(SetLast(q, "rotate", i - 1))
  BY DEF TryRotate
<1>2. \A j \in first : ~Collides(p.board, Kicked(p.active, to, j))
  BY DEF FirstKick
<1> HIDE DEF first
<1>3. first # {} => i \in first
  OBVIOUS
<1> HIDE DEF i
<1>4. first # {} => Good(q)
  BY <1>2, <1>3, PlacedGood
<1> HIDE DEF q
<1>5. QED
  BY <1>1, <1>4, SetLastGood, TryResetLockGood

LEMMA DoHoldGood ==
  ASSUME NEW p, Good(p)
  PROVE  Good(DoHold(p))
<1> DEFINE held == [p EXCEPT !.hold = p.active.type]
           swapped == IF p.hold = Null THEN SpawnNext(held) ELSE Spawn(held, p.hold)
           spent == [swapped EXCEPT !.holdUsed = TRUE]
<1>1. IsPlayer(held) /\ held.board = p.board /\ held.active = p.active /\ Timed(held)
  BY DEF Good, IsPlayer, Fields, Timed
<1>2. Good(held)
  BY <1>1, GoodFrame
<1> HIDE DEF held
<1>3. Good(swapped)
  BY <1>2, SpawnNextGood, SpawnGood
<1>4. DoHold(p) = IF p.holdUsed THEN p ELSE SetLast(spent, "hold", -1)
  BY DEF DoHold, held
<1> HIDE DEF swapped
<1>5. /\ IsPlayer(spent) /\ Timed(spent)
      /\ spent.board = swapped.board /\ spent.active = swapped.active
  BY <1>3 DEF Good, IsPlayer, Fields, Timed
<1>6. Good(spent)
  BY <1>3, <1>5, GoodFrame
<1> HIDE DEF spent
<1>7. QED
  BY <1>4, <1>6, SetLastGood

LEMMA TurnGood ==
  ASSUME NEW p, NEW input, Good(p)
  PROVE  Good(Turn(p, input))
<1> DEFINE cw == IF "rotCW" \in input.pressed THEN TryRotate(p, RotateCW(p.active.rot)) ELSE p
           ccw == IF "rotCCW" \in input.pressed THEN TryRotate(cw, RotateCCW(cw.active.rot))
                  ELSE cw
<1>1. Good(cw)
  BY TryRotateGood
<1>2. Good(ccw)
  <2> HIDE DEF cw
  <2>1. QED
    BY <1>1, TryRotateGood DEF ccw
<1>3. Turn(p, input) = IF "rot180" \in input.pressed
                       THEN TryRotate(ccw, Rotate180(ccw.active.rot)) ELSE ccw
  BY DEF Turn
<1> HIDE DEF ccw
<1>4. QED
  BY <1>2, <1>3, TryRotateGood

-----------------------------------------------------------------------------
(* Sideways, down, and into the stack.                                     *)

\* Wherever up to FreeDistance cells lead, the piece fits.
LEMMA FreeDistanceFits ==
  ASSUME NEW board, NEW a, NEW dx, NEW dy
  PROVE  /\ FreeDistance(board, a, dx, dy) \in Nat
         /\ \A k \in 1..FreeDistance(board, a, dx, dy) :
               ~Collides(board, Shifted(a, k * dx, k * dy))
<1> DEFINE stops == {d \in 0..BoardW + BoardH + 4 :
                        /\ \A k \in 1..d : ~Collides(board, Shifted(a, k * dx, k * dy))
                        /\ Collides(board, Shifted(a, (d + 1) * dx, (d + 1) * dy))}
<1>1. FreeDistance(board, a, dx, dy) = IF stops = {} THEN 0 ELSE CHOOSE d \in stops : TRUE
  BY DEF FreeDistance
<1>2. stops # {} => FreeDistance(board, a, dx, dy) \in stops
  BY <1>1
<1>3. \A d \in stops : d \in Nat /\ \A k \in 1..d : ~Collides(board, Shifted(a, k * dx, k * dy))
  BY PlayfieldAssumption
<1> HIDE DEF stops
<1>4. CASE stops = {}
  BY <1>1, <1>4
<1>5. CASE stops # {}
  BY <1>2, <1>3, <1>5
<1>6. QED
  BY <1>4, <1>5

LEMMA SlideGood ==
  ASSUME NEW p, NEW dir, NEW d, Good(p),
         d = 0 \/ ~Collides(p.board, Shifted(p.active, dir * d, 0))
  PROVE  Good(Slide(p, dir, d))
<1> DEFINE q == [p EXCEPT !.active = Shifted(@, dir * d, 0)]
<1>1. CASE d = 0
  BY <1>1 DEF Slide
<1>2. CASE d # 0
  <2>1. Good(q)
    BY <1>2, PlacedGood
  <2>2. Slide(p, dir, d) = TryResetLock(SetLast(q, "move", -1))
    BY <1>2 DEF Slide
  <2> HIDE DEF q
  <2>3. QED
    BY <2>1, <2>2, SetLastGood, TryResetLockGood
<1>3. QED
  BY <1>1, <1>2

LEMMA SlideOneGood ==
  ASSUME NEW p, NEW dir \in {-1, 1}, Good(p)
  PROVE  Good(SlideOne(p, dir))
<1>1. CASE Collides(p.board, Shifted(p.active, dir, 0))
  BY <1>1, SlideGood DEF SlideOne
<1>2. CASE ~Collides(p.board, Shifted(p.active, dir, 0))
  <2>1. dir * 1 = dir
    OBVIOUS
  <2>2. QED
    BY <1>2, <2>1, SlideGood DEF SlideOne
<1>3. QED
  BY <1>1, <1>2

LEMMA SidewaysGood ==
  ASSUME NEW p, NEW input, Good(p)
  PROVE  Good(Sideways(p, input))
<1> DEFINE left == "left" \in input.held
           right == "right" \in input.held
           dir == IF left THEN -1 ELSE 1
           tapped == ("left" \in input.pressed) # ("right" \in input.pressed)
           waited == [p EXCEPT !.dasTicks = Capped(@ + 1)]
           still == [p EXCEPT !.dasTicks = 0, !.arrTicks = 0]
           far == FreeDistance(p.board, p.active, dir, 0)
           later == [waited EXCEPT !.arrTicks = @ + 1]
           due == [waited EXCEPT !.arrTicks = 0]
<1>1. Good(waited) /\ waited.board = p.board /\ waited.active = p.active
  <2>1. /\ IsPlayer(waited) /\ Timed(waited)
        /\ waited.board = p.board /\ waited.active = p.active
    BY DEF Good, IsPlayer, Fields, Timed
  <2>2. QED
    BY <2>1, GoodFrame
<1>2. Good(still)
  <2>1. /\ IsPlayer(still) /\ Timed(still)
        /\ still.board = p.board /\ still.active = p.active
    BY DEF Good, IsPlayer, Fields, Timed
  <2>2. QED
    BY <2>1, GoodFrame
<1>3. Good(later) /\ Good(due)
  <2> HIDE DEF waited
  <2>1. /\ IsPlayer(later) /\ later.board = waited.board /\ later.active = waited.active
        /\ IsPlayer(due) /\ due.board = waited.board /\ due.active = waited.active
        /\ Timed(later) /\ Timed(due)
    BY <1>1 DEF Good, IsPlayer, Fields, Timed
  <2>2. QED
    BY <1>1, <2>1, GoodFrame
<1>4. dir \in {-1, 1}
  OBVIOUS
<1>5. Good(Slide(waited, dir, far))
  <2> HIDE DEF waited, dir
  <2>1. far \in Nat /\ \A k \in 1..far : ~Collides(p.board, Shifted(p.active, k * dir, k * 0))
    BY FreeDistanceFits
  <2> HIDE DEF far
  <2>2. far # 0 => ~Collides(p.board, Shifted(p.active, dir * far, 0))
    <3>1. far * dir = dir * far /\ far * 0 = 0
      BY <1>4, <2>1
    <3>2. QED
      BY <2>1, <3>1
  <2>3. QED
    BY <1>1, <2>2, SlideGood
<1>6. Sideways(p, input) =
        IF left = right THEN still
        ELSE IF tapped THEN SlideOne(still, dir)
        ELSE IF waited.dasTicks < Das THEN waited
        ELSE IF Arr = 0 THEN Slide(waited, dir, far)
        ELSE IF p.arrTicks + 1 < Arr THEN later
        ELSE SlideOne(due, dir)
  BY DEF Sideways
<1> HIDE DEF left, right, dir, tapped, waited, still, far, later, due
<1>7. QED
  BY <1>1, <1>2, <1>3, <1>4, <1>5, <1>6, SlideOneGood

\* A lock leaves no piece.
LEMMA ResolveLockGood ==
  ASSUME NEW p, Good(p)
  PROVE  Good(ResolveLock(p))
<1> DEFINE stamped == LockPiece(p.board, p.active)
           lines == Cardinality(FullRows(stamped))
           locked == [p EXCEPT !.board = ClearFullRows(stamped), !.active = NoPiece,
                               !.spawnTicks = SpawnDelay,
                               !.lastAction = "none", !.lastKickIndex = -1,
                               !.over = @ + Cardinality(PieceCells(p.active) \ Cells)]
           missed == [locked EXCEPT !.combo = -1]
<1>1. IsPlayer(locked) /\ locked.active = NoPiece /\ Timed(locked)
  BY DEF Good, IsPlayer, Fields, Timed
<1> HIDE DEF locked
<1>2. IsPlayer(missed) /\ missed.active = NoPiece /\ Timed(missed)
  BY <1>1 DEF IsPlayer, Fields, Timed
<1>3. ResolveLock(p) = IF lines > 0 THEN ScoreClear(locked, lines, TSpin(p))
                       ELSE ApplyReadyGarbage(missed)
  BY DEF ResolveLock, locked
<1> HIDE DEF missed, lines
<1>4. /\ IsPlayer(ScoreClear(locked, lines, TSpin(p)))
      /\ ScoreClear(locked, lines, TSpin(p)).active = NoPiece
      /\ Timed(ScoreClear(locked, lines, TSpin(p)))
  BY <1>1 DEF ScoreClear, IsPlayer, Fields, Timed
<1>5. /\ IsPlayer(ApplyReadyGarbage(missed))
      /\ ApplyReadyGarbage(missed).active = NoPiece
      /\ Timed(ApplyReadyGarbage(missed))
  BY <1>2 DEF ApplyReadyGarbage, IsPlayer, Fields, Timed
<1>6. QED
  BY <1>3, <1>4, <1>5 DEF Good, Safe, InPlay

\* The piece after the fall of a hard drop.
LEMMA DroppedGood ==
  ASSUME NEW p, Good(p), FreeDistance(p.board, p.active, 0, 1) > 0
  PROVE  Good(SetLast([p EXCEPT !.active = Shifted(@, 0, FreeDistance(p.board, p.active, 0, 1))],
                      "hardDrop", -1))
<1> DEFINE d == FreeDistance(p.board, p.active, 0, 1)
           q == [p EXCEPT !.active = Shifted(@, 0, d)]
<1>1. d \in Nat /\ \A k \in 1..d : ~Collides(p.board, Shifted(p.active, k * 0, k * 1))
  BY FreeDistanceFits
<1>2. d > 0
  OBVIOUS
<1> HIDE DEF d
<1>3. d * 0 = 0 /\ d * 1 = d /\ d \in 1..d
  BY <1>1, <1>2
<1>4. ~Collides(p.board, Shifted(p.active, 0, d))
  BY <1>1, <1>3
<1>5. Good(q)
  BY <1>4, PlacedGood
<1>6. Good(SetLast(q, "hardDrop", -1))
  <2> HIDE DEF q
  <2>1. QED
    BY <1>5, SetLastGood
<1>7. QED
  BY <1>6 DEF d

LEMMA HardDropGood ==
  ASSUME NEW p, Good(p)
  PROVE  Good(HardDrop(p))
<1> DEFINE d == FreeDistance(p.board, p.active, 0, 1)
           dropped == SetLast([p EXCEPT !.active = Shifted(@, 0, d)], "hardDrop", -1)
<1>1. d > 0 => Good(dropped)
  BY DroppedGood
<1>2. HardDrop(p) = ResolveLock(IF d > 0 THEN dropped ELSE p)
  BY DEF HardDrop
<1> HIDE DEF d, dropped
<1>3. QED
  BY <1>1, <1>2, ResolveLockGood

LEMMA FallGood ==
  ASSUME NEW p, NEW input, Good(p)
  PROVE  Good(Fall(p, input))
<1> DEFINE free == FreeDistance(p.board, p.active, 0, 1)
           d == IF free < SoftDropCells THEN free ELSE SoftDropCells
           lower == [p EXCEPT !.active = Shifted(@, 0, d)]
           last == SetLast(lower, "softDrop", -1)
           soft == [last EXCEPT !.gravityTicks = 0]
           due == [p EXCEPT !.gravityTicks = 0]
           waited == [p EXCEPT !.gravityTicks = @ + 1]
<1>1. d # 0 => Good(lower)
  <2>1. free \in Nat /\ \A k \in 1..free : ~Collides(p.board, Shifted(p.active, k * 0, k * 1))
    BY FreeDistanceFits
  <2>2. SoftDropCells \in Nat
    BY PlayfieldAssumption
  <2> HIDE DEF free
  <2>3. d \in Nat /\ d <= free
    BY <2>1, <2>2
  <2> HIDE DEF d
  <2>4. d # 0 => ~Collides(p.board, Shifted(p.active, 0, d))
    <3>1. d * 0 = 0 /\ d * 1 = d
      BY <2>3
    <3>2. d # 0 => d \in 1..free
      BY <2>1, <2>3
    <3>3. QED
      BY <2>1, <3>1, <3>2
  <2>5. QED
    BY <2>4, PlacedGood
<1>2. Good(due) /\ Good(waited)
  <2>1. /\ IsPlayer(due) /\ due.board = p.board /\ due.active = p.active
        /\ IsPlayer(waited) /\ waited.board = p.board /\ waited.active = p.active
        /\ Timed(due) /\ Timed(waited)
    BY DEF Good, IsPlayer, Fields, Timed
  <2>2. QED
    BY <2>1, GoodFrame
<1>3. Fall(p, input) = IF "softDrop" \in input.held
                       THEN IF d = 0 THEN p ELSE soft
                       ELSE IF p.gravityTicks + 1 >= Gravity[frame] THEN TryMove(due, 0, 1)
                       ELSE waited
  BY DEF Fall
<1> HIDE DEF d, lower, due, waited
<1>4. d # 0 => Good(last)
  BY <1>1, SetLastGood
<1> HIDE DEF last
<1>5. d # 0 => /\ IsPlayer(soft) /\ Timed(soft)
               /\ soft.board = last.board /\ soft.active = last.active
  BY <1>4 DEF Good, IsPlayer, Fields, Timed
<1>6. d # 0 => Good(soft)
  BY <1>4, <1>5, GoodFrame
<1> HIDE DEF soft
<1>7. QED
  BY <1>2, <1>3, <1>6, TryMoveGood

LEMMA RestGood ==
  ASSUME NEW p, Good(p)
  PROVE  Good(Rest(p))
<1> DEFINE free == [p EXCEPT !.lockTicks = 0]
           waited == [p EXCEPT !.lockTicks = @ + 1]
<1>1. Good(free) /\ Good(waited)
  <2>1. /\ IsPlayer(free) /\ free.board = p.board /\ free.active = p.active
        /\ IsPlayer(waited) /\ waited.board = p.board /\ waited.active = p.active
        /\ Timed(free) /\ Timed(waited)
    BY DEF Good, IsPlayer, Fields, Timed
  <2>2. QED
    BY <2>1, GoodFrame
<1>2. Rest(p) = IF ~Collides(p.board, Shifted(p.active, 0, 1)) THEN free
                ELSE IF waited.lockTicks >= LockDelay THEN ResolveLock(waited) ELSE waited
  BY DEF Rest
<1> HIDE DEF free, waited
<1>3. QED
  BY <1>1, <1>2, ResolveLockGood

LEMMA SteerGood ==
  ASSUME NEW p, NEW input, Good(p)
  PROVE  Good(Steer(p, input))
<1> DEFINE aimed == Sideways(Turn(p, input), input)
<1>1. Good(aimed)
  BY TurnGood, SidewaysGood
<1>2. Steer(p, input) = IF "hardDrop" \in input.pressed THEN HardDrop(aimed)
                        ELSE Rest(Fall(aimed, input))
  BY DEF Steer
<1> HIDE DEF aimed
<1>3. QED
  BY <1>1, <1>2, HardDropGood, FallGood, RestGood

LEMMA StepPlayerGood ==
  ASSUME NEW p, NEW input, Good(p)
  PROVE  Good(StepPlayer(p, input))
<1> DEFINE spawned == IF InPlay(p) THEN p ELSE SpawnNext(p)
           held == IF "hold" \in input.pressed THEN DoHold(spawned) ELSE spawned
           waiting == [p EXCEPT !.spawnTicks = @ - 1]
<1>1. Good(spawned)
  BY SpawnNextGood
<1>2. Good(waiting)
  <2>1. /\ IsPlayer(waiting) /\ Timed(waiting)
        /\ waiting.board = p.board /\ waiting.active = p.active
    BY DEF Good, IsPlayer, Fields, Timed
  <2>2. QED
    BY <2>1, GoodFrame
<1>3. StepPlayer(p, input) =
        IF ~p.alive THEN p
        ELSE IF ~InPlay(p) /\ p.spawnTicks > 0 THEN waiting
        ELSE IF ~spawned.alive THEN spawned
        ELSE IF ~held.alive THEN held
        ELSE Steer(held, input)
  BY DEF StepPlayer
<1> HIDE DEF spawned, waiting
<1>4. Good(held)
  BY <1>1, DoHoldGood
<1> HIDE DEF held
<1>5. QED
  BY <1>1, <1>2, <1>3, <1>4, SteerGood

-----------------------------------------------------------------------------
(* The lock delay at the end of a tick.                                    *)

\* Between ticks the delay runs only for a piece that rests, and has not ended.
AtRest(p) == InPlay(p) /\ p.lockTicks > 0 =>
    Collides(p.board, Shifted(p.active, 0, 1)) /\ p.lockTicks < LockDelay

\* A spawn starts with no delay, and one that tops out leaves no piece.
LEMMA SpawnStarts ==
  ASSUME NEW p, NEW type, Good(p), p.alive = TRUE
  PROVE  LET q == Spawn(p, type)
         IN  q.lockTicks = 0 /\ (q.alive = TRUE \/ ~InPlay(q))
<1> DEFINE piece == SpawnPiece(type)
           fresh == [p EXCEPT !.active = piece, !.holdUsed = FALSE, !.gravityTicks = 0,
                              !.lockTicks = 0, !.lockResets = 0,
                              !.lastAction = "none", !.lastKickIndex = -1]
<1>1. IsPlayer(fresh) /\ fresh.lockTicks = 0 /\ fresh.alive = TRUE
  BY DEF Good, IsPlayer, Fields
<1>2. Spawn(p, type) = IF Collides(p.board, piece)
                       THEN [fresh EXCEPT !.alive = FALSE, !.active = NoPiece]
                       ELSE fresh
  BY DEF Spawn
<1> HIDE DEF piece, fresh
<1>3. QED
  BY <1>1, <1>2 DEF IsPlayer, Fields, InPlay

LEMMA SpawnNextStarts ==
  ASSUME NEW p, Good(p), p.alive = TRUE
  PROVE  LET q == SpawnNext(p)
         IN  q.lockTicks = 0 /\ (q.alive = TRUE \/ ~InPlay(q))
<1> DEFINE q == [p EXCEPT !.bagIndex = @ + 1]
<1>1. /\ IsPlayer(q) /\ Timed(q) /\ q.alive = TRUE
      /\ q.board = p.board /\ q.active = p.active
  BY DEF Good, IsPlayer, Fields, Timed
<1>2. Good(q)
  BY <1>1, GoodFrame
<1>3. SpawnNext(p) = Spawn(q, sequence[p.bagIndex + 1])
  BY DEF SpawnNext
<1> HIDE DEF q
<1>4. QED
  BY <1>1, <1>2, <1>3, SpawnStarts

\* A swap that tops out leaves no piece.
LEMMA DoHoldStarts ==
  ASSUME NEW p, Good(p), p.alive = TRUE
  PROVE  DoHold(p).alive = TRUE \/ ~InPlay(DoHold(p))
<1> DEFINE held == [p EXCEPT !.hold = p.active.type]
           swapped == IF p.hold = Null THEN SpawnNext(held) ELSE Spawn(held, p.hold)
           spent == [swapped EXCEPT !.holdUsed = TRUE]
<1>1. /\ IsPlayer(held) /\ Timed(held) /\ held.alive = TRUE
      /\ held.board = p.board /\ held.active = p.active
  BY DEF Good, IsPlayer, Fields, Timed
<1>2. Good(held)
  BY <1>1, GoodFrame
<1>3. DoHold(p) = IF p.holdUsed THEN p ELSE SetLast(spent, "hold", -1)
  BY DEF DoHold
<1> HIDE DEF held
<1>4. Good(swapped) /\ (swapped.alive = TRUE \/ ~InPlay(swapped))
  BY <1>1, <1>2, SpawnNextGood, SpawnGood, SpawnStarts, SpawnNextStarts
<1> HIDE DEF swapped
<1>5. LET q == SetLast(spent, "hold", -1)
      IN  q.alive = swapped.alive /\ q.active = swapped.active
  BY <1>4 DEF Good, IsPlayer, Fields, SetLast
<1> HIDE DEF spent
<1>6. QED
  BY <1>3, <1>4, <1>5 DEF InPlay

\* A lock takes the piece away.
LEMMA ResolveLockEmpties ==
  ASSUME NEW p, Good(p)
  PROVE  ~InPlay(ResolveLock(p))
<1> DEFINE stamped == LockPiece(p.board, p.active)
           lines == Cardinality(FullRows(stamped))
           locked == [p EXCEPT !.board = ClearFullRows(stamped), !.active = NoPiece,
                               !.spawnTicks = SpawnDelay,
                               !.lastAction = "none", !.lastKickIndex = -1,
                               !.over = @ + Cardinality(PieceCells(p.active) \ Cells)]
           missed == [locked EXCEPT !.combo = -1]
<1>1. IsPlayer(locked) /\ locked.active = NoPiece
  BY DEF Good, IsPlayer, Fields
<1> HIDE DEF locked
<1>2. IsPlayer(missed) /\ missed.active = NoPiece
  BY <1>1 DEF IsPlayer, Fields
<1>3. ResolveLock(p) = IF lines > 0 THEN ScoreClear(locked, lines, TSpin(p))
                       ELSE ApplyReadyGarbage(missed)
  BY DEF ResolveLock, locked
<1> HIDE DEF missed, lines
<1>4. /\ ScoreClear(locked, lines, TSpin(p)).active = NoPiece
      /\ ApplyReadyGarbage(missed).active = NoPiece
  BY <1>1, <1>2 DEF ScoreClear, ApplyReadyGarbage, IsPlayer, Fields
<1>5. QED
  BY <1>3, <1>4 DEF InPlay

LEMMA RestTimes ==
  ASSUME NEW p, Good(p)
  PROVE  AtRest(Rest(p))
<1> DEFINE free == [p EXCEPT !.lockTicks = 0]
           waited == [p EXCEPT !.lockTicks = @ + 1]
<1>1. /\ free.lockTicks = 0
      /\ IsPlayer(waited) /\ Timed(waited)
      /\ waited.board = p.board /\ waited.active = p.active
  BY DEF Good, IsPlayer, Fields, Timed
<1>2. Good(waited)
  BY <1>1, GoodFrame
<1>3. Rest(p) = IF ~Collides(p.board, Shifted(p.active, 0, 1)) THEN free
                ELSE IF waited.lockTicks >= LockDelay THEN ResolveLock(waited) ELSE waited
  BY DEF Rest
<1> HIDE DEF free, waited
<1>4. LockDelay \in Nat
  BY PlayfieldAssumption
<1>5. ~InPlay(ResolveLock(waited))
  BY <1>2, ResolveLockEmpties
<1>6. QED
  BY <1>1, <1>3, <1>4, <1>5 DEF AtRest, Timed

LEMMA HardDropEmpties ==
  ASSUME NEW p, Good(p)
  PROVE  ~InPlay(HardDrop(p))
<1> DEFINE d == FreeDistance(p.board, p.active, 0, 1)
           dropped == SetLast([p EXCEPT !.active = Shifted(@, 0, d)], "hardDrop", -1)
<1>1. d > 0 => Good(dropped)
  BY DroppedGood
<1>2. HardDrop(p) = ResolveLock(IF d > 0 THEN dropped ELSE p)
  BY DEF HardDrop
<1> HIDE DEF d, dropped
<1>3. QED
  BY <1>1, <1>2, ResolveLockEmpties

LEMMA SteerTimes ==
  ASSUME NEW p, NEW input, Good(p)
  PROVE  AtRest(Steer(p, input))
<1> DEFINE aimed == Sideways(Turn(p, input), input)
<1>1. Good(aimed)
  BY TurnGood, SidewaysGood
<1>2. Steer(p, input) = IF "hardDrop" \in input.pressed THEN HardDrop(aimed)
                        ELSE Rest(Fall(aimed, input))
  BY DEF Steer
<1> HIDE DEF aimed
<1>3. AtRest(Rest(Fall(aimed, input)))
  BY <1>1, FallGood, RestTimes
<1>4. AtRest(HardDrop(aimed))
  BY <1>1, HardDropEmpties DEF AtRest
<1>5. QED
  BY <1>2, <1>3, <1>4

LEMMA StepPlayerTimes ==
  ASSUME NEW p, NEW input, Good(p), AtRest(p), p.alive = TRUE
  PROVE  AtRest(StepPlayer(p, input))
<1> DEFINE spawned == IF InPlay(p) THEN p ELSE SpawnNext(p)
           held == IF "hold" \in input.pressed THEN DoHold(spawned) ELSE spawned
           waiting == [p EXCEPT !.spawnTicks = @ - 1]
<1>1. Good(spawned) /\ (spawned.alive = TRUE \/ ~InPlay(spawned))
  BY SpawnNextGood, SpawnNextStarts
<1>2. InPlay(waiting) <=> InPlay(p)
  BY DEF Good, IsPlayer, Fields, InPlay
<1>3. StepPlayer(p, input) =
        IF ~p.alive THEN p
        ELSE IF ~InPlay(p) /\ p.spawnTicks > 0 THEN waiting
        ELSE IF ~spawned.alive THEN spawned
        ELSE IF ~held.alive THEN held
        ELSE Steer(held, input)
  BY DEF StepPlayer
<1> HIDE DEF spawned, waiting
<1>4. spawned.alive = TRUE => Good(held) /\ (held.alive = TRUE \/ ~InPlay(held))
  BY <1>1, DoHoldGood, DoHoldStarts
<1> HIDE DEF held
<1>5. CASE ~InPlay(p) /\ p.spawnTicks > 0
  BY <1>2, <1>3, <1>5 DEF AtRest
<1>6. CASE ~(~InPlay(p) /\ p.spawnTicks > 0) /\ spawned.alive # TRUE
  BY <1>1, <1>3, <1>6 DEF AtRest
<1>7. QED
  BY <1>1, <1>3, <1>4, <1>5, <1>6, SteerTimes DEF AtRest

-----------------------------------------------------------------------------
(* The theorems.                                                           *)

\* The inductive invariant.
PlayerGood == Good(player)

LEMMA InitGood == Init => PlayerGood
  BY PlayfieldAssumption DEF PlayerGood, Init, NewPlayer, Good, IsPlayer, Fields, Safe, InPlay,
     Timed

LEMMA NextGood == PlayerGood /\ [Next]_vars => PlayerGood'
<1> SUFFICES ASSUME Good(player), [Next]_vars
             PROVE  Good(player')
  BY DEF PlayerGood
<1>1. CASE UNCHANGED vars
  BY <1>1 DEF vars, Good, IsPlayer, Safe, InPlay, Timed
<1>2. ASSUME NEW input \in Inputs, Tick(input)
      PROVE  Good(player')
  <2> DEFINE stepped == StepPlayer(player, input)
             Hit(q) == [stepped EXCEPT !.garbageQueue = q]
  <2>1. Good(stepped)
    BY StepPlayerGood
  <2>2. player' = stepped \/ \E q : player' = Hit(q)
    BY <1>2 DEF Tick
  <2> HIDE DEF stepped
  <2>3. ASSUME NEW q
        PROVE  Good(Hit(q))
    <3>1. /\ IsPlayer(Hit(q)) /\ Timed(Hit(q))
          /\ Hit(q).board = stepped.board /\ Hit(q).active = stepped.active
      BY <2>1 DEF Good, IsPlayer, Fields, Timed
    <3>2. QED
      BY <2>1, <3>1, GoodFrame
  <2>4. QED
    BY <2>1, <2>2, <2>3
<1>3. QED
  BY <1>1, <1>2 DEF Next

\* match.ts: no order of kicks, slides, drops, swaps, clears and garbage leaves
\* the piece in play inside the stack, a wall or the floor.
THEOREM PieceIsAlwaysFree == Spec => []PieceNeverOverlaps
<1>1. PlayerGood => PieceNeverOverlaps
  BY DEF PlayerGood, Good, Safe, PieceNeverOverlaps
<1>2. QED
  BY <1>1, InitGood, NextGood, PTL DEF Spec

LEMMA NextTimes == PlayerGood /\ AtRest(player) /\ [Next]_vars => AtRest(player')
<1> SUFFICES ASSUME Good(player), AtRest(player), [Next]_vars
             PROVE  AtRest(player')
  BY DEF PlayerGood
<1>1. CASE UNCHANGED vars
  BY <1>1 DEF vars
<1>2. ASSUME NEW input \in Inputs, Tick(input)
      PROVE  AtRest(player')
  <2> DEFINE stepped == StepPlayer(player, input)
             Hit(q) == [stepped EXCEPT !.garbageQueue = q]
  <2>1. player.alive = TRUE
    BY <1>2 DEF Tick
  <2>2. Good(stepped) /\ AtRest(stepped)
    BY <2>1, StepPlayerGood, StepPlayerTimes
  <2>3. player' = stepped \/ \E q : player' = Hit(q)
    BY <1>2 DEF Tick
  <2> HIDE DEF stepped
  <2>4. ASSUME NEW q
        PROVE  AtRest(Hit(q))
    <3>1. /\ Hit(q).board = stepped.board /\ Hit(q).active = stepped.active
          /\ Hit(q).lockTicks = stepped.lockTicks
      BY <2>2 DEF Good, IsPlayer, Fields
    <3>2. QED
      BY <2>2, <3>1 DEF AtRest, InPlay
  <2>5. QED
    BY <2>2, <2>3, <2>4
<1>3. QED
  BY <1>1, <1>2 DEF Next

\* match.ts: the lock delay counts only while the piece rests, and neither it nor
\* its budget of resets runs over, whatever spins, slides, swaps and drops it is
\* given, and whatever arrives.
THEOREM LockDelayIsKept == Spec => []LockTimerOnlyAtRest
<1> DEFINE Resting == AtRest(player)
<1>1. Init => Resting
  BY DEF Init, NewPlayer, AtRest
<1>2. PlayerGood /\ Resting /\ [Next]_vars => Resting'
  BY NextTimes
<1>3. PlayerGood /\ Resting => LockTimerOnlyAtRest
  BY DEF PlayerGood, Good, Timed, AtRest, LockTimerOnlyAtRest
<1> HIDE DEF Resting
<1>4. QED
  BY <1>1, <1>2, <1>3, InitGood, NextGood, PTL DEF Spec

-----------------------------------------------------------------------------
(* What steering a piece leaves alone.                                     *)

Playing(p) == p \in Player /\ InPlay(p)

\* Everything but the piece, its timers and the memory of its last move.
Same(p, q) ==
    /\ q.board = p.board /\ q.hold = p.hold /\ q.bagIndex = p.bagIndex
    /\ q.garbageQueue = p.garbageQueue /\ q.combo = p.combo /\ q.backToBack = p.backToBack
    /\ q.linesCleared = p.linesCleared /\ q.attackSent = p.attackSent /\ q.alive = p.alive
    /\ q.landed = p.landed /\ q.over = p.over /\ q.spawnTicks = p.spawnTicks

Moves(p, q) == Playing(q) /\ Same(p, q)

LEMMA MovesThen ==
  ASSUME NEW p, NEW q, NEW r, Moves(p, q), Moves(q, r)
  PROVE  Moves(p, r)
  BY DEF Moves, Same

LEMMA StaysPut ==
  ASSUME NEW p, Playing(p)
  PROVE  Moves(p, p)
  BY DEF Moves, Same

LEMMA PieceIsNoNull ==
  ASSUME NEW a \in Piece
  PROVE  a # NoPiece
<1>1. a.type \in PieceTypes /\ NoPiece.type = Null /\ Null \notin PieceTypes
  BY PlayfieldAssumption DEF Piece, NoPiece
<1>2. QED
  BY <1>1

LEMMA PlayingPiece ==
  ASSUME NEW p, Playing(p)
  PROVE  p.active \in Piece
  BY DEF Playing, Player, InPlay

LEMMA PlacedMoves ==
  ASSUME NEW p, Playing(p), NEW a \in Piece
  PROVE  Moves(p, [p EXCEPT !.active = a])
<1> DEFINE q == [p EXCEPT !.active = a]
<1>1. q \in Player /\ q.active = a /\ Same(p, q)
  BY DEF Playing, Player, Same
<1>2. QED
  BY <1>1, PieceIsNoNull DEF Moves, Playing, InPlay

LEMMA SetLastMoves ==
  ASSUME NEW p, Playing(p), NEW action \in LastActions, NEW kick \in Int
  PROVE  Moves(p, SetLast(p, action, kick))
<1> DEFINE q == SetLast(p, action, kick)
<1>1. q \in Player /\ q.active = p.active /\ Same(p, q)
  BY DEF Playing, Player, Same, SetLast
<1>2. QED
  BY <1>1 DEF Moves, Playing, InPlay

\* The counters of a piece and of the keys.
LEMMA CountersMove ==
  ASSUME NEW p, Playing(p), NEW g \in Nat, NEW l \in Nat, NEW r \in Nat, NEW d \in Nat,
         NEW a \in Nat
  PROVE  /\ Moves(p, [p EXCEPT !.gravityTicks = g])
         /\ Moves(p, [p EXCEPT !.lockTicks = l])
         /\ Moves(p, [p EXCEPT !.lockTicks = l, !.lockResets = r])
         /\ Moves(p, [p EXCEPT !.dasTicks = d])
         /\ Moves(p, [p EXCEPT !.arrTicks = a])
         /\ Moves(p, [p EXCEPT !.dasTicks = d, !.arrTicks = a])
<1>1. LET q == [p EXCEPT !.gravityTicks = g]
      IN  q \in Player /\ q.active = p.active /\ Same(p, q)
  BY DEF Playing, Player, Same
<1>2. LET q == [p EXCEPT !.lockTicks = l]
      IN  q \in Player /\ q.active = p.active /\ Same(p, q)
  BY DEF Playing, Player, Same
<1>3. LET q == [p EXCEPT !.lockTicks = l, !.lockResets = r]
      IN  q \in Player /\ q.active = p.active /\ Same(p, q)
  BY DEF Playing, Player, Same
<1>4. LET q == [p EXCEPT !.dasTicks = d]
      IN  q \in Player /\ q.active = p.active /\ Same(p, q)
  BY DEF Playing, Player, Same
<1>5. LET q == [p EXCEPT !.arrTicks = a]
      IN  q \in Player /\ q.active = p.active /\ Same(p, q)
  BY DEF Playing, Player, Same
<1>6. LET q == [p EXCEPT !.dasTicks = d, !.arrTicks = a]
      IN  q \in Player /\ q.active = p.active /\ Same(p, q)
  BY DEF Playing, Player, Same
<1>7. QED
  BY <1>1, <1>2, <1>3, <1>4, <1>5, <1>6 DEF Moves, Playing, InPlay

LEMMA ShiftedPiece ==
  ASSUME NEW a \in Piece, NEW dx \in Int, NEW dy \in Int
  PROVE  /\ Shifted(a, dx, dy) \in Piece
         /\ Shifted(a, dx, dy).y = a.y + dy
<1>1. a.x + dx \in Int /\ a.y + dy \in Int
  BY DEF Piece
<1>2. Shifted(a, dx, dy) = [a EXCEPT !.x = a.x + dx, !.y = a.y + dy]
  BY DEF Shifted
<1>3. QED
  BY <1>1, <1>2 DEF Piece

LEMMA TryMoveMoves ==
  ASSUME NEW p, Playing(p), NEW dx \in Int, NEW dy \in Int
  PROVE  Moves(p, TryMove(p, dx, dy))
  BY PlayingPiece, ShiftedPiece, PlacedMoves, StaysPut DEF TryMove

LEMMA TryResetLockMoves ==
  ASSUME NEW p, Playing(p)
  PROVE  Moves(p, TryResetLock(p))
<1>1. p.lockResets + 1 \in Nat
  BY DEF Playing, Player
<1>2. QED
  BY <1>1, CountersMove, StaysPut DEF TryResetLock

\* Every kick of the tables is an offset.
Offsets(kicks) == \A i \in 1..Len(kicks) : kicks[i][1] \in Int /\ kicks[i][2] \in Int

LEMMA OppositeOffsets ==
  ASSUME NEW kicks, Offsets(kicks), Len(kicks) \in Nat
  PROVE  Offsets(Opposite(kicks))
<1>1. Len(Opposite(kicks)) = Len(kicks)
  BY DEF Opposite
<1>2. \A i \in 1..Len(kicks) : Opposite(kicks)[i] = <<-kicks[i][1], -kicks[i][2]>>
  BY DEF Opposite
<1>3. QED
  BY <1>1, <1>2, SMTT(30) DEF Offsets

LEMMA KicksAreOffsets ==
  ASSUME NEW type, NEW from \in Rotations, NEW to \in Rotations, from # to
  PROVE  Offsets(KicksFor(type, from, to))
<1>1. Offsets(<<<<0, 0>>>>)
  BY DEF Offsets
<1>2. Offsets(HalfTurn(from))
  <2>1. /\ Offsets(<<<<0, 0>>, <<0, -1>>, <<1, 0>>, <<-1, 0>>>>)
        /\ Offsets(<<<<0, 0>>, <<0, -1>>, <<-1, 0>>, <<1, 0>>>>)
    BY DEF Offsets
  <2>2. QED
    BY <2>1 DEF HalfTurn
<1>3. to # Rotate180(from) =>
        \/ from = 0 /\ to \in {1, 3}
        \/ from = 1 /\ to \in {0, 2}
        \/ from = 2 /\ to \in {1, 3}
        \/ from = 3 /\ to \in {0, 2}
  BY DEF Rotations, Rotate180
<1>4. to # Rotate180(from) => Offsets(KicksI(from, to))
  <2> DEFINE a == <<<<0, 0>>, <<-2, 0>>, <<1, 0>>, <<-2, 1>>, <<1, -2>>>>
             b == <<<<0, 0>>, <<-1, 0>>, <<2, 0>>, <<-1, -2>>, <<2, 1>>>>
  <2>1. Offsets(a) /\ Len(a) = 5
    BY DEF Offsets
  <2>2. Offsets(b) /\ Len(b) = 5
    BY DEF Offsets
  <2>3. KicksI(from, to) =
          CASE <<from, to>> \in {<<0, 1>>, <<3, 2>>} -> a
            [] <<from, to>> \in {<<1, 0>>, <<2, 3>>} -> Opposite(a)
            [] <<from, to>> \in {<<1, 2>>, <<0, 3>>} -> b
            [] <<from, to>> \in {<<2, 1>>, <<3, 0>>} -> Opposite(b)
    BY DEF KicksI
  <2> HIDE DEF a, b
  <2>4. Offsets(Opposite(a)) /\ Offsets(Opposite(b))
    BY <2>1, <2>2, OppositeOffsets
  <2>5. QED
    BY <1>3, <2>1, <2>2, <2>3, <2>4
<1>5. to # Rotate180(from) => Offsets(KicksJLSTZ(from, to))
  <2> DEFINE toRight == <<<<0, 0>>, <<-1, 0>>, <<-1, -1>>, <<0, 2>>, <<-1, 2>>>>
             toLeft == <<<<0, 0>>, <<1, 0>>, <<1, -1>>, <<0, 2>>, <<1, 2>>>>
  <2>1. Offsets(toRight) /\ Len(toRight) = 5
    BY DEF Offsets
  <2>2. Offsets(toLeft) /\ Len(toLeft) = 5
    BY DEF Offsets
  <2>3. KicksJLSTZ(from, to) =
          CASE to = 1 -> toRight
            [] from = 1 -> Opposite(toRight)
            [] to = 3 -> toLeft
            [] from = 3 -> Opposite(toLeft)
    BY DEF KicksJLSTZ
  <2> HIDE DEF toRight, toLeft
  <2>4. Offsets(Opposite(toRight)) /\ Offsets(Opposite(toLeft))
    BY <2>1, <2>2, OppositeOffsets
  <2>5. QED
    BY <1>3, <2>1, <2>2, <2>3, <2>4
<1>6. QED
  BY <1>1, <1>2, <1>4, <1>5 DEF KicksFor

LEMMA KickedPiece ==
  ASSUME NEW a \in Piece, NEW to \in Rotations, a.rot # to,
         NEW i \in 1..Len(KicksFor(a.type, a.rot, to))
  PROVE  Kicked(a, to, i) \in Piece
<1> DEFINE kick == KicksFor(a.type, a.rot, to)[i]
<1>1. kick[1] \in Int /\ kick[2] \in Int
  <2>1. a.rot \in Rotations
    BY DEF Piece
  <2>2. QED
    BY <2>1, KicksAreOffsets DEF Offsets
<1>2. Kicked(a, to, i) = [a EXCEPT !.rot = to, !.x = a.x + kick[1], !.y = a.y + kick[2]]
  BY DEF Kicked
<1> HIDE DEF kick
<1>3. a.x + kick[1] \in Int /\ a.y + kick[2] \in Int
  BY <1>1 DEF Piece
<1>4. QED
  BY <1>2, <1>3 DEF Piece

LEMMA TryRotateMoves ==
  ASSUME NEW p, Playing(p), NEW to \in Rotations, p.active.rot # to
  PROVE  Moves(p, TryRotate(p, to))
<1> DEFINE first == FirstKick(p.board, p.active, to)
           i == CHOOSE i \in first : TRUE
           turned == [p EXCEPT !.active = Kicked(@, to, i)]
           last == SetLast(turned, "rotate", i - 1)
<1>1. TryRotate(p, to) = IF first = {} THEN p ELSE TryResetLock(last)
  BY DEF TryRotate
<1>2. first # {} => i \in 1..Len(KicksFor(p.active.type, p.active.rot, to))
  BY DEF FirstKick
<1>3. first # {} => i \in Int
  <2> HIDE DEF i, first
  <2>1. QED
    BY <1>2
<1> HIDE DEF first, i
<1>4. first # {} => Kicked(p.active, to, i) \in Piece
  BY <1>2, PlayingPiece, KickedPiece
<1>5. first # {} => Moves(p, turned)
  BY <1>4, PlacedMoves
<1> HIDE DEF turned
<1>6. first # {} => Moves(turned, last)
  <2>1. first # {} => i - 1 \in Int /\ Playing(turned)
    BY <1>3, <1>5 DEF Moves
  <2>2. QED
    BY <2>1, SetLastMoves DEF LastActions
<1> HIDE DEF last
<1>7. first # {} => Moves(last, TryResetLock(last))
  BY <1>6, TryResetLockMoves DEF Moves
<1>8. QED
  BY <1>1, <1>5, <1>6, <1>7, StaysPut, MovesThen

LEMMA TurnsAreTurns ==
  ASSUME NEW r \in Rotations
  PROVE  /\ RotateCW(r) \in Rotations /\ RotateCW(r) # r
         /\ RotateCCW(r) \in Rotations /\ RotateCCW(r) # r
         /\ Rotate180(r) \in Rotations /\ Rotate180(r) # r
  BY DEF Rotations, RotateCW, RotateCCW, Rotate180

LEMMA TurnMoves ==
  ASSUME NEW p, NEW input, Playing(p)
  PROVE  Moves(p, Turn(p, input))
<1> DEFINE cw == IF "rotCW" \in input.pressed THEN TryRotate(p, RotateCW(p.active.rot)) ELSE p
           ccw == IF "rotCCW" \in input.pressed THEN TryRotate(cw, RotateCCW(cw.active.rot)) ELSE cw
<1>1. \A q : Playing(q) => q.active.rot \in Rotations
  BY PlayingPiece DEF Piece
<1>2. Moves(p, cw)
  BY <1>1, StaysPut, TryRotateMoves, TurnsAreTurns
<1>3. Turn(p, input) = IF "rot180" \in input.pressed
                       THEN TryRotate(ccw, Rotate180(ccw.active.rot)) ELSE ccw
  BY DEF Turn
<1> HIDE DEF cw
<1>4. Moves(cw, ccw)
  BY <1>1, <1>2, StaysPut, TryRotateMoves, TurnsAreTurns DEF Moves
<1> HIDE DEF ccw
<1>5. Moves(ccw, Turn(p, input))
  BY <1>1, <1>3, <1>4, StaysPut, TryRotateMoves, TurnsAreTurns DEF Moves
<1>6. QED
  BY <1>2, <1>4, <1>5, MovesThen

LEMMA SlideMoves ==
  ASSUME NEW p, Playing(p), NEW dir \in {-1, 1}, NEW d \in Nat
  PROVE  Moves(p, Slide(p, dir, d))
<1> DEFINE moved == [p EXCEPT !.active = Shifted(@, dir * d, 0)]
           last == SetLast(moved, "move", -1)
<1>1. Slide(p, dir, d) = IF d = 0 THEN p ELSE TryResetLock(last)
  BY DEF Slide
<1>2. dir * d \in Int
  OBVIOUS
<1>3. Moves(p, moved)
  BY <1>2, PlayingPiece, ShiftedPiece, PlacedMoves
<1> HIDE DEF moved
<1>4. Moves(moved, last)
  BY <1>3, SetLastMoves DEF Moves, LastActions
<1> HIDE DEF last
<1>5. Moves(last, TryResetLock(last))
  BY <1>4, TryResetLockMoves DEF Moves
<1>6. QED
  BY <1>1, <1>3, <1>4, <1>5, StaysPut, MovesThen

LEMMA SlideOneMoves ==
  ASSUME NEW p, Playing(p), NEW dir \in {-1, 1}
  PROVE  Moves(p, SlideOne(p, dir))
  BY SlideMoves DEF SlideOne

LEMMA SidewaysMoves ==
  ASSUME NEW p, NEW input, Playing(p)
  PROVE  Moves(p, Sideways(p, input))
<1> DEFINE left == "left" \in input.held
           right == "right" \in input.held
           dir == IF left THEN -1 ELSE 1
           tapped == ("left" \in input.pressed) # ("right" \in input.pressed)
           waited == [p EXCEPT !.dasTicks = Capped(@ + 1)]
           still == [p EXCEPT !.dasTicks = 0, !.arrTicks = 0]
           far == FreeDistance(p.board, p.active, dir, 0)
           later == [waited EXCEPT !.arrTicks = @ + 1]
           due == [waited EXCEPT !.arrTicks = 0]
<1>1. dir \in {-1, 1} /\ dir \in Int
  OBVIOUS
<1>2. Moves(p, waited)
  <2>1. Capped(p.dasTicks + 1) \in Nat
    <3>1. p.dasTicks \in Nat
      BY DEF Playing, Player
    <3>2. MaxFrame \in Nat
      BY PlayfieldAssumption
    <3>3. QED
      BY <3>1, <3>2 DEF Capped
  <2>2. QED
    BY <2>1, CountersMove
<1>3. Moves(p, still)
  BY CountersMove
<1>4. Sideways(p, input) =
        IF left = right THEN still
        ELSE IF tapped THEN SlideOne(still, dir)
        ELSE IF waited.dasTicks < Das THEN waited
        ELSE IF Arr = 0 THEN Slide(waited, dir, far)
        ELSE IF p.arrTicks + 1 < Arr THEN later
        ELSE SlideOne(due, dir)
  BY DEF Sideways
<1>5. far \in Nat
  BY <1>1, FreeDistanceFits
<1> HIDE DEF waited, still, far, dir
<1>6. Moves(waited, later) /\ Moves(waited, due)
  <2>1. Playing(waited)
    BY <1>2 DEF Moves
  <2>2. waited.arrTicks \in Nat
    BY <2>1 DEF Playing, Player
  <2>3. waited.arrTicks + 1 \in Nat
    BY <2>2
  <2>4. QED
    BY <2>1, <2>3, CountersMove
<1> HIDE DEF later, due, left, right, tapped
<1>7. /\ Moves(still, SlideOne(still, dir)) /\ Moves(waited, Slide(waited, dir, far))
      /\ Moves(due, SlideOne(due, dir))
  BY <1>1, <1>2, <1>3, <1>5, <1>6, SlideMoves, SlideOneMoves DEF Moves
<1>8. /\ Moves(p, SlideOne(still, dir)) /\ Moves(p, Slide(waited, dir, far))
      /\ Moves(p, later) /\ Moves(p, SlideOne(due, dir))
  BY <1>2, <1>3, <1>6, <1>7, MovesThen
<1>9. QED
  BY <1>2, <1>3, <1>4, <1>8, Zenon
LEMMA DropMoves ==
  ASSUME NEW p, Playing(p), NEW d \in Nat, NEW action \in LastActions
  PROVE  Moves(p, SetLast([p EXCEPT !.active = Shifted(@, 0, d)], action, -1))
<1> DEFINE lower == [p EXCEPT !.active = Shifted(@, 0, d)]
<1>1. Moves(p, lower)
  BY PlayingPiece, ShiftedPiece, PlacedMoves
<1> HIDE DEF lower
<1>2. Moves(lower, SetLast(lower, action, -1))
  BY <1>1, SetLastMoves DEF Moves
<1>3. QED
  BY <1>1, <1>2, MovesThen DEF lower

LEMMA FallMoves ==
  ASSUME NEW p, NEW input, Playing(p)
  PROVE  Moves(p, Fall(p, input))
<1> DEFINE free == FreeDistance(p.board, p.active, 0, 1)
           d == IF free < SoftDropCells THEN free ELSE SoftDropCells
           lower == SetLast([p EXCEPT !.active = Shifted(@, 0, d)], "softDrop", -1)
           soft == [lower EXCEPT !.gravityTicks = 0]
           due == [p EXCEPT !.gravityTicks = 0]
           waited == [p EXCEPT !.gravityTicks = @ + 1]
<1>1. Fall(p, input) = IF "softDrop" \in input.held
                       THEN IF d = 0 THEN p ELSE soft
                       ELSE IF p.gravityTicks + 1 >= Gravity[frame] THEN TryMove(due, 0, 1)
                       ELSE waited
  BY DEF Fall
<1>2. d \in Nat
  <2>1. free \in Nat
    BY FreeDistanceFits
  <2>2. SoftDropCells \in Nat
    BY PlayfieldAssumption
  <2>3. QED
    BY <2>1, <2>2
<1> HIDE DEF d
<1>3. Moves(p, lower)
  BY <1>2, DropMoves DEF LastActions
<1> HIDE DEF lower
<1>4. Moves(p, soft)
  BY <1>3, CountersMove, MovesThen DEF Moves
<1>5. Moves(p, due)
  BY CountersMove
<1>6. Moves(p, waited)
  <2>1. p.gravityTicks + 1 \in Nat
    BY DEF Playing, Player
  <2>2. QED
    BY <2>1, CountersMove
<1> HIDE DEF soft, due, waited
<1>7. Moves(p, TryMove(due, 0, 1))
  BY <1>5, TryMoveMoves, MovesThen DEF Moves
<1>8. QED
  BY <1>1, <1>4, <1>5, <1>6, <1>7, StaysPut, Zenon

-----------------------------------------------------------------------------
(* The shapes.                                                             *)

Span(type) == 0..BoxSize(type) - 1

\* Four different cells of the box the piece turns in.
Tetromino(type, cells) ==
    /\ cells \subseteq Span(type) \X Span(type)
    /\ IsFiniteSet(cells) /\ Cardinality(cells) = 4

LEMMA FourCells ==
  ASSUME NEW a, NEW b, NEW c, NEW d, a # b, a # c, a # d, b # c, b # d, c # d
  PROVE  IsFiniteSet({a, b, c, d}) /\ Cardinality({a, b, c, d}) = 4
<1>1. IsFiniteSet({a}) /\ Cardinality({a}) = 1
  BY FS_Singleton
<1>2. IsFiniteSet({a} \cup {b}) /\ Cardinality({a} \cup {b}) = 2
  BY <1>1, FS_AddElement
<1>3. IsFiniteSet({a} \cup {b} \cup {c}) /\ Cardinality({a} \cup {b} \cup {c}) = 3
  <2>1. c \notin {a} \cup {b}
    OBVIOUS
  <2>2. QED
    BY <1>2, <2>1, FS_AddElement
<1>4. IsFiniteSet({a} \cup {b} \cup {c} \cup {d}) /\ Cardinality({a} \cup {b} \cup {c} \cup {d}) = 4
  <2>1. d \notin {a} \cup {b} \cup {c}
    OBVIOUS
  <2>2. QED
    BY <1>3, <2>1, FS_AddElement
<1>5. {a} \cup {b} \cup {c} \cup {d} = {a, b, c, d}
  OBVIOUS
<1>6. QED
  BY <1>4, <1>5

LEMMA SpawnShapesAreTetrominoes ==
  ASSUME NEW type \in PieceTypes
  PROVE  Tetromino(type, SpawnShape[type])
<1> DEFINE cells == SpawnShape[type]
           Four(a, b, c, d) ==
               cells = {a, b, c, d} /\ a # b /\ a # c /\ a # d /\ b # c /\ b # d /\ c # d
<1>1. ASSUME NEW a, NEW b, NEW c, NEW d, Four(a, b, c, d)
      PROVE  IsFiniteSet(cells) /\ Cardinality(cells) = 4
  <2>1. a # b /\ a # c /\ a # d /\ b # c /\ b # d /\ c # d /\ cells = {a, b, c, d}
    BY <1>1
  <2>2. IsFiniteSet({a, b, c, d}) /\ Cardinality({a, b, c, d}) = 4
    BY <2>1, FourCells, ZenonT(60)
  <2>3. QED
    BY <2>1, <2>2, Zenon
<1>2. CASE type = "I"
  <2>1. Four(<<0, 1>>, <<1, 1>>, <<2, 1>>, <<3, 1>>)
    BY <1>2 DEF SpawnShape
  <2>2. cells \subseteq Span(type) \X Span(type)
    BY <1>2 DEF SpawnShape, Span, BoxSize
  <2> HIDE DEF Four, cells
  <2>3. IsFiniteSet(cells) /\ Cardinality(cells) = 4
    BY <1>1, <2>1
  <2>4. QED
    BY <2>2, <2>3 DEF Tetromino, cells
<1>3. CASE type = "J"
  <2>1. Four(<<0, 0>>, <<0, 1>>, <<1, 1>>, <<2, 1>>)
    BY <1>3 DEF SpawnShape
  <2>2. cells \subseteq Span(type) \X Span(type)
    BY <1>3 DEF SpawnShape, Span, BoxSize
  <2> HIDE DEF Four, cells
  <2>3. IsFiniteSet(cells) /\ Cardinality(cells) = 4
    BY <1>1, <2>1
  <2>4. QED
    BY <2>2, <2>3 DEF Tetromino, cells
<1>4. CASE type = "L"
  <2>1. Four(<<2, 0>>, <<0, 1>>, <<1, 1>>, <<2, 1>>)
    BY <1>4 DEF SpawnShape
  <2>2. cells \subseteq Span(type) \X Span(type)
    BY <1>4 DEF SpawnShape, Span, BoxSize
  <2> HIDE DEF Four, cells
  <2>3. IsFiniteSet(cells) /\ Cardinality(cells) = 4
    BY <1>1, <2>1
  <2>4. QED
    BY <2>2, <2>3 DEF Tetromino, cells
<1>5. CASE type = "O"
  <2>1. Four(<<0, 0>>, <<1, 0>>, <<0, 1>>, <<1, 1>>)
    BY <1>5 DEF SpawnShape
  <2>2. cells \subseteq Span(type) \X Span(type)
    BY <1>5 DEF SpawnShape, Span, BoxSize
  <2> HIDE DEF Four, cells
  <2>3. IsFiniteSet(cells) /\ Cardinality(cells) = 4
    BY <1>1, <2>1
  <2>4. QED
    BY <2>2, <2>3 DEF Tetromino, cells
<1>6. CASE type = "S"
  <2>1. Four(<<1, 0>>, <<2, 0>>, <<0, 1>>, <<1, 1>>)
    BY <1>6 DEF SpawnShape
  <2>2. cells \subseteq Span(type) \X Span(type)
    BY <1>6 DEF SpawnShape, Span, BoxSize
  <2> HIDE DEF Four, cells
  <2>3. IsFiniteSet(cells) /\ Cardinality(cells) = 4
    BY <1>1, <2>1
  <2>4. QED
    BY <2>2, <2>3 DEF Tetromino, cells
<1>7. CASE type = "T"
  <2>1. Four(<<1, 0>>, <<0, 1>>, <<1, 1>>, <<2, 1>>)
    BY <1>7 DEF SpawnShape
  <2>2. cells \subseteq Span(type) \X Span(type)
    BY <1>7 DEF SpawnShape, Span, BoxSize
  <2> HIDE DEF Four, cells
  <2>3. IsFiniteSet(cells) /\ Cardinality(cells) = 4
    BY <1>1, <2>1
  <2>4. QED
    BY <2>2, <2>3 DEF Tetromino, cells
<1>8. CASE type = "Z"
  <2>1. Four(<<0, 0>>, <<1, 0>>, <<1, 1>>, <<2, 1>>)
    BY <1>8 DEF SpawnShape
  <2>2. cells \subseteq Span(type) \X Span(type)
    BY <1>8 DEF SpawnShape, Span, BoxSize
  <2> HIDE DEF Four, cells
  <2>3. IsFiniteSet(cells) /\ Cardinality(cells) = 4
    BY <1>1, <2>1
  <2>4. QED
    BY <2>2, <2>3 DEF Tetromino, cells
<1>9. QED
  BY <1>2, <1>3, <1>4, <1>5, <1>6, <1>7, <1>8 DEF PieceTypes

\* A one-to-one image of a finite set is as large.
LEMMA ImageIsAsLarge ==
  ASSUME NEW S, IsFiniteSet(S), NEW f, \A x, y \in S : f[x] = f[y] => x = y
  PROVE  /\ IsFiniteSet({f[x] : x \in S})
         /\ Cardinality({f[x] : x \in S}) = Cardinality(S)
<1> DEFINE T == {f[x] : x \in S}
           g == [x \in S |-> f[x]]
<1>1. g \in [S -> T]
  OBVIOUS
<1>2. \A x, y \in S : g[x] = g[y] => x = y
  OBVIOUS
<1>3. \A t \in T : \E x \in S : g[x] = t
  OBVIOUS
<1> HIDE DEF g, T
<1>4. g \in Bijection(S, T)
  BY <1>1, <1>2, <1>3 DEF Bijection, Injection, Surjection, IsInjective
<1>5. ExistsBijection(S, T)
  BY <1>4 DEF ExistsBijection
<1>6. QED
  BY <1>5, FS_Bijection DEF T

\* A shape stays one when it is turned.
LEMMA TurnedIsTetromino ==
  ASSUME NEW type \in PieceTypes, NEW cells, Tetromino(type, cells)
  PROVE  Tetromino(type, Turned(type, cells))
<1> DEFINE f == [c \in cells |-> <<BoxSize(type) - 1 - c[2], c[1]>>]
<1>1. BoxSize(type) \in Nat
  BY DEF BoxSize
<1>2. \A c \in cells : c[1] \in Span(type) /\ c[2] \in Span(type) /\ c = <<c[1], c[2]>>
  BY DEF Tetromino
<1>3. \A c \in cells : f[c] \in Span(type) \X Span(type)
  BY <1>1, <1>2 DEF Span
<1>4. \A c, d \in cells : f[c] = f[d] => c = d
  BY <1>1, <1>2 DEF Span
<1>5. Turned(type, cells) = {f[c] : c \in cells}
  BY DEF Turned
<1> HIDE DEF f
<1>6. /\ IsFiniteSet({f[c] : c \in cells})
      /\ Cardinality({f[c] : c \in cells}) = 4
  BY <1>4, ImageIsAsLarge DEF Tetromino
<1>7. QED
  BY <1>3, <1>5, <1>6 DEF Tetromino

LEMMA ShapesAreTetrominoes ==
  ASSUME NEW type \in PieceTypes, NEW rot \in Rotations
  PROVE  Tetromino(type, Shapes[type][rot])
<1> DEFINE up == SpawnShape[type]
           right == Turned(type, up)
           down == Turned(type, right)
           left == Turned(type, down)
<1>1. Shapes[type][rot] = CASE rot = 0 -> up [] rot = 1 -> right
                          [] rot = 2 -> down [] rot = 3 -> left
  BY DEF Shapes
<1>2. Tetromino(type, up)
  BY SpawnShapesAreTetrominoes
<1> HIDE DEF up
<1>3. Tetromino(type, right)
  BY <1>2, TurnedIsTetromino
<1> HIDE DEF right
<1>4. Tetromino(type, down)
  BY <1>3, TurnedIsTetromino
<1> HIDE DEF down
<1>5. Tetromino(type, left)
  BY <1>4, TurnedIsTetromino
<1> HIDE DEF left
<1>6. QED
  BY <1>1, <1>2, <1>3, <1>4, <1>5 DEF Rotations

\* A piece covers four cells.
LEMMA PieceHasFourCells ==
  ASSUME NEW a \in Piece
  PROVE  /\ IsFiniteSet(PieceCells(a)) /\ Cardinality(PieceCells(a)) = 4
         /\ PieceCells(a) \subseteq Int \X Int
<1> DEFINE shape == Shapes[a.type][a.rot]
           f == [o \in shape |-> <<a.x + o[1], a.y + o[2]>>]
<1>1. Tetromino(a.type, shape) /\ a.x \in Int /\ a.y \in Int
  BY ShapesAreTetrominoes DEF Piece
<1> HIDE DEF shape
<1>2. \A o \in shape : o[1] \in Int /\ o[2] \in Int /\ o = <<o[1], o[2]>>
  BY <1>1 DEF Tetromino, Span
<1>3. \A o \in shape : f[o] \in Int \X Int
  BY <1>1, <1>2
<1>4. \A o, n \in shape : f[o] = f[n] => o = n
  BY <1>1, <1>2
<1>5. PieceCells(a) = {f[o] : o \in shape}
  BY DEF PieceCells, shape
<1> HIDE DEF f
<1>6. IsFiniteSet({f[o] : o \in shape}) /\ Cardinality({f[o] : o \in shape}) = 4
  BY <1>1, <1>4, ImageIsAsLarge DEF Tetromino
<1>7. QED
  BY <1>3, <1>5, <1>6

\* A piece that fits is not below the floor.
LEMMA FreePieceIsAbove ==
  ASSUME NEW board, NEW a \in Piece, ~Collides(board, a)
  PROVE  a.y <= BoardH - 1
<1> DEFINE shape == Shapes[a.type][a.rot]
<1>1. Tetromino(a.type, shape) /\ a.x \in Int /\ a.y \in Int
  BY ShapesAreTetrominoes DEF Piece
<1>2. \E o \in shape : TRUE
  BY <1>1, FS_EmptySet DEF Tetromino
<1>3. PICK o \in shape : TRUE
  BY <1>2
<1>4. o[2] \in Nat
  BY <1>1 DEF Tetromino, Span
<1>5. <<a.x + o[1], a.y + o[2]>> \in PieceCells(a)
  BY DEF PieceCells
<1>6. ~(a.y + o[2] >= BoardH)
  BY <1>5 DEF Collides, IsBlocked
<1>7. BoardH \in Nat
  BY PlayfieldAssumption
<1>8. QED
  BY <1>1, <1>4, <1>6, <1>7

-----------------------------------------------------------------------------
(* A piece left alone.                                                     *)

Resting(p) == Collides(p.board, Shifted(p.active, 0, 1))

Rows(p) == BoardH - 1 - p.active.y

\* The piece locks within b more ticks without a key, when a row takes G ticks.
LocksWithin(p, G, b) ==
    IF Resting(p) THEN LockDelay <= b + p.lockTicks
    ELSE \E g \in 0..G - 1 : g <= p.gravityTicks /\ G * Rows(p) + LockDelay <= b + g

LEMMA OneRowLess ==
  ASSUME NEW G \in Nat, NEW k \in Int
  PROVE  G * k = G * (k - 1) + G
  OBVIOUS

LEMMA ManyRows ==
  ASSUME NEW G \in Nat, NEW k \in Nat, k > 0
  PROVE  G * k >= G /\ G * k \in Nat /\ G * (k - 1) \in Nat
  OBVIOUS

\* A piece in play with its timers as a tick leaves them.
Idling(p) == Playing(p) /\ Good(p) /\ AtRest(p) /\ p.alive = TRUE

\* What a fall without a key does.
LEMMA IdleFall ==
  ASSUME NEW p, Playing(p), Good(p)
  PROVE  LET f == Fall(p, Idle)
         IN  /\ Moves(p, f) /\ Good(f) /\ f.lockTicks = p.lockTicks
             /\ Resting(p) => f.active = p.active
             /\ ~Resting(p) =>
                  IF p.gravityTicks + 1 >= Gravity[frame]
                  THEN f.active = Shifted(p.active, 0, 1) /\ f.gravityTicks = 0
                  ELSE f.active = p.active /\ f.gravityTicks = p.gravityTicks + 1
<1> DEFINE due == [p EXCEPT !.gravityTicks = 0]
           waited == [p EXCEPT !.gravityTicks = @ + 1]
           fallen == [due EXCEPT !.active = Shifted(p.active, 0, 1)]
           f == Fall(p, Idle)
<1>1. Moves(p, f) /\ Good(f)
  BY FallMoves, FallGood
<1>2. "softDrop" \notin Idle.held
  BY DEF Idle
<1>3. f = IF p.gravityTicks + 1 >= Gravity[frame] THEN TryMove(due, 0, 1) ELSE waited
  BY <1>2 DEF Fall
<1>4. due.board = p.board /\ due.active = p.active
  BY DEF Playing, Player
<1>5. TryMove(due, 0, 1) = IF Resting(p) THEN due ELSE fallen
  BY <1>4 DEF TryMove, Resting
<1>6. /\ due.lockTicks = p.lockTicks
      /\ waited.lockTicks = p.lockTicks /\ waited.active = p.active
      /\ waited.gravityTicks = p.gravityTicks + 1
      /\ fallen.lockTicks = p.lockTicks /\ fallen.gravityTicks = 0
      /\ fallen.active = Shifted(p.active, 0, 1)
  BY DEF Playing, Player
<1> HIDE DEF due, waited, fallen, f
<1>7. QED
  BY <1>1, <1>3, <1>4, <1>5, <1>6 DEF f

\* The rest of the tick.
LEMMA IdleRest ==
  ASSUME NEW f, Playing(f), Good(f), f.alive = TRUE
  PROVE  LET q == Rest(f)
         IN  InPlay(q) =>
               /\ Idling(q) /\ q.active = f.active /\ q.gravityTicks = f.gravityTicks
               /\ Resting(q) <=> Resting(f)
               /\ Resting(f) => q.lockTicks = f.lockTicks + 1
<1> DEFINE free == [f EXCEPT !.lockTicks = 0]
           waited == [f EXCEPT !.lockTicks = @ + 1]
           q == Rest(f)
<1>1. Good(q) /\ AtRest(q)
  BY RestGood, RestTimes
<1>2. f.lockTicks + 1 \in Nat
  BY DEF Playing, Player
<1>3. Moves(f, free) /\ Moves(f, waited)
  BY <1>2, CountersMove
<1>4. /\ free.active = f.active /\ free.gravityTicks = f.gravityTicks
      /\ waited.active = f.active /\ waited.gravityTicks = f.gravityTicks
      /\ waited.lockTicks = f.lockTicks + 1
      /\ free.board = f.board /\ waited.board = f.board
      /\ free.alive = f.alive /\ waited.alive = f.alive
  BY DEF Playing, Player
<1>5. Good(waited)
  BY <1>2, <1>3, <1>4, GoodFrame DEF Good, IsPlayer, Fields, Timed
<1>6. q = IF ~Resting(f) THEN free
          ELSE IF waited.lockTicks >= LockDelay THEN ResolveLock(waited) ELSE waited
  BY DEF Rest, Resting
<1> HIDE DEF free, waited, q
<1>7. ~InPlay(ResolveLock(waited))
  BY <1>5, ResolveLockEmpties
<1>8. InPlay(q) => q = IF ~Resting(f) THEN free ELSE waited
  BY <1>6, <1>7
<1>9. InPlay(q) => Idling(q)
  BY <1>1, <1>3, <1>4, <1>8 DEF Moves, Idling
<1>10. InPlay(q) => q.active = f.active /\ q.board = f.board /\ q.gravityTicks = f.gravityTicks
  BY <1>4, <1>8
<1>11. QED
  BY <1>4, <1>8, <1>9, <1>10 DEF Resting, q

\* A tick without a key is a fall and a rest.
LEMMA IdleStep ==
  ASSUME NEW p, Idling(p)
  PROVE  \E still : /\ Playing(still) /\ Good(still) /\ still.alive = TRUE
                    /\ still.active = p.active /\ still.board = p.board
                    /\ still.lockTicks = p.lockTicks /\ still.gravityTicks = p.gravityTicks
                    /\ StepPlayer(p, Idle) = Rest(Fall(still, Idle))
<1> DEFINE still == [p EXCEPT !.dasTicks = 0, !.arrTicks = 0]
<1>1. Idle.pressed = {} /\ Idle.held = {}
  BY DEF Idle
<1>2. InPlay(p) /\ p.alive
  BY DEF Idling, Playing
<1>3. Turn(p, Idle) = p
  BY <1>1 DEF Turn
<1>4. Sideways(p, Idle) = still
  BY <1>1 DEF Sideways
<1>5. StepPlayer(p, Idle) = Steer(p, Idle)
  BY <1>1, <1>2 DEF StepPlayer
<1>6. Steer(p, Idle) = Rest(Fall(still, Idle))
  BY <1>1, <1>3, <1>4 DEF Steer
<1>7. Good(still)
  BY <1>4, SidewaysGood DEF Idling
<1>8. Playing(still)
  BY <1>4, SidewaysMoves DEF Idling, Moves
<1>9. /\ still.active = p.active /\ still.board = p.board /\ still.alive = p.alive
      /\ still.lockTicks = p.lockTicks /\ still.gravityTicks = p.gravityTicks
  BY DEF Idling, Playing, Player
<1> HIDE DEF still
<1>10. QED
  BY <1>2, <1>5, <1>6, <1>7, <1>8, <1>9 DEF Idling

LEMMA GravityType == frame \in 0..MaxFrame => Gravity[frame] \in Nat /\ Gravity[frame] > 0
  BY PlayfieldAssumption

\* Each such tick brings the lock nearer.
LEMMA IdleTick ==
  ASSUME frame \in 0..MaxFrame, NEW p, Idling(p), NEW b \in Nat,
         LocksWithin(p, Gravity[frame], b)
  PROVE  /\ b > 0
         /\ InPlay(StepPlayer(p, Idle)) =>
              /\ Idling(StepPlayer(p, Idle))
              /\ LocksWithin(StepPlayer(p, Idle), Gravity[frame], b - 1)
<1> DEFINE G == Gravity[frame]
<1>1. PICK still :
         /\ Playing(still) /\ Good(still) /\ still.alive = TRUE
         /\ still.active = p.active /\ still.board = p.board
         /\ still.lockTicks = p.lockTicks /\ still.gravityTicks = p.gravityTicks
         /\ StepPlayer(p, Idle) = Rest(Fall(still, Idle))
  BY IdleStep
<1> DEFINE f == Fall(still, Idle)
           q == StepPlayer(p, Idle)
           lower == Shifted(p.active, 0, 1)
<1>2. Resting(still) <=> Resting(p)
  BY <1>1 DEF Resting
<1>3. /\ Moves(still, f) /\ Good(f) /\ f.lockTicks = p.lockTicks
      /\ Resting(p) => f.active = p.active
      /\ ~Resting(p) => IF p.gravityTicks + 1 >= G
                        THEN f.active = lower /\ f.gravityTicks = 0
                        ELSE f.active = p.active /\ f.gravityTicks = p.gravityTicks + 1
  BY <1>1, <1>2, IdleFall
<1>4. Playing(f) /\ f.alive = TRUE /\ f.board = p.board
  BY <1>1, <1>3 DEF Moves, Same
<1>5. InPlay(q) =>
        /\ Idling(q) /\ q.active = f.active /\ q.gravityTicks = f.gravityTicks
        /\ Resting(q) <=> Resting(f)
        /\ Resting(f) => q.lockTicks = f.lockTicks + 1
  <2>1. q = Rest(f)
    BY <1>1
  <2> HIDE DEF f, q
  <2>2. QED
    BY <1>3, <1>4, <2>1, IdleRest
<1>6. /\ p.lockTicks \in Nat /\ p.gravityTicks \in Nat /\ p.active \in Piece
  BY PlayingPiece DEF Idling, Playing, Player
<1>7. G \in Nat /\ G > 0 /\ LockDelay \in Nat /\ LockDelay > 0 /\ BoardH \in Nat
  BY PlayfieldAssumption, GravityType
<1>8. ~Resting(p) => p.lockTicks = 0
  BY <1>6 DEF Idling, AtRest, Resting, Playing
<1>9. Resting(p) => p.lockTicks < LockDelay
  BY <1>6, <1>7 DEF Idling, AtRest, Resting, Playing
<1>10. p.active.y \in Int
  BY <1>6 DEF Piece
<1>11. lower.y = p.active.y + 1 /\ lower \in Piece
  BY <1>6, ShiftedPiece
<1>12. ~Resting(p) => lower.y <= BoardH - 1
  BY <1>11, FreePieceIsAbove DEF Resting
<1> DEFINE k == Rows(p)
<1>13. k \in Int /\ (~Resting(p) => k > 0)
  <2> HIDE DEF f, q, lower
  <2>1. k = BoardH - 1 - p.active.y
    BY DEF Rows
  <2> HIDE DEF k
  <2>2. QED
    BY <1>7, <1>10, <1>11, <1>12, <2>1
<1>14. f.active = lower => Rows(f) = k - 1
  BY <1>7, <1>10, <1>11 DEF Rows
<1>15. f.active = p.active => Rows(f) = k
  BY DEF Rows
<1>16. f.active = p.active => (Resting(f) <=> Resting(p))
  BY <1>4 DEF Resting
<1>17. InPlay(q) => Rows(q) = Rows(f)
  BY <1>5 DEF Rows
<1> HIDE DEF G, f, q, lower, k
<1>18. CASE Resting(p)
  <2>1. LockDelay <= b + p.lockTicks
    BY <1>18 DEF LocksWithin
  <2>2. InPlay(q) => Resting(q) /\ q.lockTicks = p.lockTicks + 1
    BY <1>3, <1>5, <1>16, <1>18
  <2>3. InPlay(q) => LocksWithin(q, G, b - 1)
    BY <1>6, <1>7, <2>1, <2>2 DEF LocksWithin
  <2>4. QED
    BY <1>5, <1>6, <1>7, <1>9, <1>18, <2>1, <2>3 DEF q, G
<1>19. CASE ~Resting(p)
  <2>1. PICK g \in 0..G - 1 : g <= p.gravityTicks /\ G * k + LockDelay <= b + g
    BY <1>19 DEF LocksWithin, G, k
  <2> DEFINE all == G * k
             less == G * (k - 1)
  <2>2. all >= G /\ all \in Nat /\ less \in Nat /\ all = less + G
    BY <1>7, <1>13, <1>19, OneRowLess, ManyRows
  <2>3. all + LockDelay <= b + g
    BY <2>1
  <2>4. less = G * (k - 1) /\ all = G * k
    OBVIOUS
  <2> HIDE DEF all, less
  <2>5. b > 0 /\ LockDelay <= b /\ less + LockDelay <= b - 1
    BY <1>7, <2>2, <2>3
  <2>6. CASE p.gravityTicks + 1 >= G
    <3>1. f.active = lower /\ f.gravityTicks = 0
      BY <1>3, <1>19, <2>6
    <3>2. InPlay(q) /\ Resting(f) => LocksWithin(q, G, b - 1)
      <4>1. InPlay(q) /\ Resting(f) => Resting(q) /\ q.lockTicks = 1
        BY <1>3, <1>5, <1>8, <1>19
      <4>2. QED
        BY <1>7, <2>5, <4>1 DEF LocksWithin
    <3>3. InPlay(q) /\ ~Resting(f) => LocksWithin(q, G, b - 1)
      <4>1. InPlay(q) /\ ~Resting(f) =>
              ~Resting(q) /\ Rows(q) = k - 1 /\ q.gravityTicks = 0
        BY <1>5, <1>14, <1>17, <3>1
      <4>2. 0 \in 0..G - 1 /\ less + LockDelay <= (b - 1) + 0
        BY <1>7, <2>2, <2>5
      <4>3. QED
        BY <2>4, <4>1, <4>2 DEF LocksWithin
    <3>4. QED
      BY <1>5, <2>5, <3>2, <3>3 DEF q, G
  <2>7. CASE ~(p.gravityTicks + 1 >= G)
    <3>1. f.active = p.active /\ f.gravityTicks = p.gravityTicks + 1
      BY <1>3, <1>19, <2>7
    <3>2. InPlay(q) => ~Resting(q) /\ Rows(q) = k /\ q.gravityTicks = p.gravityTicks + 1
      BY <1>5, <1>15, <1>16, <1>17, <1>19, <3>1
    <3>3. /\ g + 1 \in 0..G - 1 /\ g + 1 <= p.gravityTicks + 1
          /\ all + LockDelay <= (b - 1) + (g + 1)
      BY <1>6, <1>7, <2>1, <2>2, <2>3, <2>7
    <3>4. InPlay(q) => LocksWithin(q, G, b - 1)
      BY <2>4, <3>2, <3>3 DEF LocksWithin
    <3>5. QED
      BY <1>5, <2>5, <3>4 DEF q, G
  <2>8. QED
    BY <2>6, <2>7
<1>20. QED
  BY <1>18, <1>19

\* The first tick without a key starts the count at the floor.
LEMMA LocksInTime ==
  ASSUME frame \in 0..MaxFrame, NEW p, Idling(p)
  PROVE  /\ Gravity[frame] * Rows(p) + LockDelay \in Nat
         /\ LocksWithin(p, Gravity[frame], Gravity[frame] * Rows(p) + LockDelay)
<1> DEFINE G == Gravity[frame]
           all == G * Rows(p)
<1>1. G \in Nat /\ G > 0 /\ LockDelay \in Nat
  BY PlayfieldAssumption, GravityType
<1>2. p.lockTicks \in Nat /\ p.gravityTicks \in Nat
  BY DEF Idling, Playing, Player
<1>3. Rows(p) \in Nat
  <2>1. p.active \in Piece /\ ~Collides(p.board, p.active)
    BY PlayingPiece DEF Idling, Good, Safe, Playing
  <2>2. p.active.y \in Int /\ p.active.y <= BoardH - 1 /\ BoardH \in Nat
    BY <2>1, FreePieceIsAbove, PlayfieldAssumption DEF Piece
  <2>3. QED
    BY <2>2 DEF Rows
<1> HIDE DEF G
<1>4. all \in Nat
  BY <1>1, <1>3
<1>5. all = G * Rows(p)
  OBVIOUS
<1> HIDE DEF all
<1>6. LocksWithin(p, G, all + LockDelay)
  <2>1. LockDelay <= (all + LockDelay) + p.lockTicks
    BY <1>1, <1>2, <1>4
  <2>2. 0 \in 0..G - 1 /\ 0 <= p.gravityTicks /\ all + LockDelay <= (all + LockDelay) + 0
    BY <1>1, <1>2, <1>4
  <2>3. QED
    BY <1>5, <2>1, <2>2 DEF LocksWithin
<1>7. QED
  BY <1>1, <1>4, <1>5, <1>6 DEF G

LEMMA SetInduction ==
  ASSUME NEW S \in SUBSET Nat, 0 \in S, \A n \in S : n + 1 \in S
  PROVE  S = Nat
<1> DEFINE T == Nat \ S
           R == OpToRel(<, Nat)
<1>1. SUFFICES ASSUME T # {} PROVE FALSE
  OBVIOUS
<1>2. IsWellFoundedOn(R, Nat)
  BY NatLessThanWellFounded, Zenon
<1>3. \A x, y \in Nat : y < x => <<y, x>> \in R
  BY DEF OpToRel
<1> HIDE DEF R
<1>4. T \subseteq Nat
  OBVIOUS
<1> HIDE DEF T
<1>5. PICK x \in T : \A y \in T : ~(<<y, x>> \in R)
  BY <1>1, <1>2, <1>4, WFMin
<1> USE DEF T
<1>6. x # 0 /\ x \in Nat
  OBVIOUS
<1>7. x - 1 \in Nat /\ x - 1 < x
  BY <1>6
<1>8. x - 1 \notin T
  BY <1>3, <1>5, <1>6, <1>7
<1>9. x - 1 \in S /\ (x - 1) + 1 = x
  BY <1>6, <1>7, <1>8
<1>10. QED
  BY <1>5, <1>9

\* The ticks of IdlePieceLocks, whatever function solves its equations.
LEMMA LeftAloneLocks ==
  ASSUME frame \in 0..MaxFrame, NEW p, Idling(p), NEW limit,
         limit = Gravity[frame] * Rows(p) + LockDelay,
         NEW h, h[0] = p,
         \A n \in 1..limit :
            h[n] = IF InPlay(h[n - 1]) THEN StepPlayer(h[n - 1], Idle) ELSE h[n - 1]
  PROVE  ~InPlay(h[limit])
<1> DEFINE Ready(n) == /\ n \in 0..limit
                       /\ InPlay(h[n]) => /\ Idling(h[n])
                                          /\ LocksWithin(h[n], Gravity[frame], limit - n)
           S == {n \in Nat : n <= limit => Ready(n)}
<1>1. limit \in Nat /\ LocksWithin(p, Gravity[frame], limit)
  BY LocksInTime
<1>2. 0 \in S
  BY <1>1
<1>3. ASSUME NEW n \in S PROVE n + 1 \in S
  <2>1. n \in Nat
    OBVIOUS
  <2>2. SUFFICES ASSUME n + 1 <= limit PROVE Ready(n + 1)
    BY <2>1
  <2>3. n <= limit /\ n + 1 \in 1..limit /\ (n + 1) - 1 = n /\ limit - n \in Nat
        /\ (limit - n) - 1 = limit - (n + 1)
    BY <1>1, <2>1, <2>2
  <2>4. h[n + 1] = IF InPlay(h[n]) THEN StepPlayer(h[n], Idle) ELSE h[n]
    BY <2>3
  <2>5. InPlay(h[n]) => Idling(h[n]) /\ LocksWithin(h[n], Gravity[frame], limit - n)
    BY <2>3
  <2>6. InPlay(h[n + 1]) => InPlay(h[n]) /\ h[n + 1] = StepPlayer(h[n], Idle)
    BY <2>4
  <2>7. InPlay(h[n + 1]) => /\ Idling(h[n + 1])
                            /\ LocksWithin(h[n + 1], Gravity[frame], (limit - n) - 1)
    BY <2>3, <2>5, <2>6, IdleTick
  <2>8. QED
    BY <2>1, <2>3, <2>7
<1>4. S \in SUBSET Nat
  OBVIOUS
<1>5. limit \in S
  <2> HIDE DEF S
  <2>1. S = Nat
    BY <1>2, <1>3, <1>4, SetInduction
  <2>2. QED
    BY <1>1, <2>1
<1>6. SUFFICES ASSUME InPlay(h[limit]) PROVE FALSE
  OBVIOUS
<1>7. Idling(h[limit]) /\ LocksWithin(h[limit], Gravity[frame], 0)
  BY <1>1, <1>5, <1>6
<1>8. \A q : Idling(q) /\ LocksWithin(q, Gravity[frame], 0) => FALSE
  <2>1. SUFFICES ASSUME NEW q, Idling(q), LocksWithin(q, Gravity[frame], 0) PROVE FALSE
    OBVIOUS
  <2>2. 0 \in Nat /\ ~(0 > 0)
    OBVIOUS
  <2>3. QED
    BY <2>1, <2>2, IdleTick
<1>9. QED
  BY <1>7, <1>8

\* One equation of LeftAlone.
Alone(h, p, n) ==
    IF n = 0 THEN p
    ELSE LET before == h[n - 1]
         IN  IF InPlay(before) THEN StepPlayer(before, Idle) ELSE before

\* They have a solution.
LEMMA LeftAloneExists ==
  ASSUME NEW p, NEW limit \in Nat
  PROVE  \E h : h = [n \in 0..limit |-> Alone(h, p, n)]
<1> DEFINE Solves(h, m) == h = [n \in 0..m |-> Alone(h, p, n)]
           S == {m \in Nat : \E h : Solves(h, m)}
<1>1. 0 \in S
  <2> DEFINE h == [n \in 0..0 |-> p]
  <2>1. \A n \in 0..0 : n = 0
    OBVIOUS
  <2>2. \A n \in 0..0 : Alone(h, p, n) = p
    BY <2>1 DEF Alone
  <2>3. Solves(h, 0)
    BY <2>2
  <2> HIDE DEF Solves, h
  <2>4. QED
    BY <2>3
<1>2. ASSUME NEW m \in S PROVE m + 1 \in S
  <2>1. m \in Nat
    OBVIOUS
  <2>2. PICK h : Solves(h, m)
    OBVIOUS
  <2> DEFINE last == Alone(h, p, m + 1)
             g == [n \in 0..m + 1 |-> IF n = m + 1 THEN last ELSE h[n]]
  <2>3. \A n \in 0..m : g[n] = h[n]
    BY <2>1
  <2>4. g[m + 1] = last
    BY <2>1
  <2>5. ASSUME NEW n \in 0..m + 1 PROVE g[n] = Alone(g, p, n)
    <3>1. n # 0 => n - 1 \in 0..m
      BY <2>1
    <3>2. n # 0 => g[n - 1] = h[n - 1]
      BY <2>3, <3>1
    <3> HIDE DEF g, last
    <3>3. Alone(g, p, n) = Alone(h, p, n)
      BY <3>2 DEF Alone
    <3>4. CASE n = m + 1
      BY <2>4, <3>3, <3>4 DEF last
    <3>5. CASE n # m + 1
      <4>1. n \in 0..m
        BY <2>1, <3>5
      <4>2. h[n] = Alone(h, p, n)
        BY <2>2, <4>1
      <4>3. QED
        BY <2>3, <3>3, <4>1, <4>2
    <3>6. QED
      BY <3>4, <3>5
  <2>6. Solves(g, m + 1)
    <3>1. g = [n \in 0..m + 1 |-> g[n]]
      OBVIOUS
    <3> HIDE DEF g
    <3>2. [n \in 0..m + 1 |-> g[n]] = [n \in 0..m + 1 |-> Alone(g, p, n)]
      BY <2>5
    <3>3. QED
      BY <3>1, <3>2
  <2> HIDE DEF Solves, g
  <2>7. m + 1 \in Nat
    BY <2>1
  <2>8. QED
    BY <2>6, <2>7
<1>3. S \in SUBSET Nat
  OBVIOUS
<1> HIDE DEF S
<1>4. S = Nat
  BY <1>1, <1>2, <1>3, SetInduction
<1>5. QED
  BY <1>4 DEF S

LEMMA IdlingLocks ==
  ASSUME frame \in 0..MaxFrame, InPlay(player) => Idling(player)
  PROVE  IdlePieceLocks
<1> DEFINE limit == Gravity[frame] * (BoardH - 1 - player.active.y) + LockDelay
           Solves(h) == h = [n \in 0..limit |-> Alone(h, player, n)]
           alone == CHOOSE h : Solves(h)
<1>1. IdlePieceLocks = (InPlay(player) => ~InPlay(alone[limit]))
  BY DEF IdlePieceLocks, Alone
<1>2. SUFFICES ASSUME InPlay(player) PROVE ~InPlay(alone[limit])
  BY <1>1
<1>3. Idling(player)
  BY <1>2
<1>4. limit = Gravity[frame] * Rows(player) + LockDelay
  BY DEF Rows
<1> HIDE DEF limit
<1>5. limit \in Nat
  BY <1>3, <1>4, LocksInTime
<1>6. \E h : Solves(h)
  BY <1>5, LeftAloneExists
<1> HIDE DEF alone
<1>7. Solves(alone)
  <2> HIDE DEF Solves
  <2>1. QED
    BY <1>6 DEF alone
<1>8. \A n \in 0..limit : alone[n] = Alone(alone, player, n)
  BY <1>7
<1>9. alone[0] = player
  BY <1>5, <1>8 DEF Alone
<1>10. \A n \in 1..limit :
         alone[n] = IF InPlay(alone[n - 1]) THEN StepPlayer(alone[n - 1], Idle) ELSE alone[n - 1]
  BY <1>5, <1>8 DEF Alone
<1>11. QED
  BY <1>3, <1>4, <1>9, <1>10, LeftAloneLocks

-----------------------------------------------------------------------------
(* Counting the cells of a board.                                          *)

Lines == 0..BoardH - 1

LEMMA BoardSize ==
  /\ BoardW \in Nat /\ BoardW > 0 /\ BoardH \in Nat /\ BoardH > 0
  /\ IsFiniteSet(Columns) /\ Cardinality(Columns) = BoardW
  /\ IsFiniteSet(Cells) /\ Cells = Columns \X Lines
<1>1. BoardW \in Nat /\ BoardW > 0 /\ BoardH \in Nat /\ BoardH > 0
  BY PlayfieldAssumption
<1>2. IsFiniteSet(Columns) /\ Cardinality(Columns) = BoardW
  BY <1>1, FS_Interval DEF Columns
<1>3. IsFiniteSet(Lines)
  BY <1>1, FS_Interval DEF Lines
<1>4. Cells = Columns \X Lines
  BY DEF Cells, Lines
<1>5. IsFiniteSet(Columns \X Lines)
  BY <1>2, <1>3, FS_Product
<1>6. QED
  BY <1>1, <1>2, <1>4, <1>5

LEMMA BoardCount ==
  ASSUME NEW board \in SUBSET Cells
  PROVE  IsFiniteSet(board) /\ Cardinality(board) \in Nat
<1>1. IsFiniteSet(board)
  BY BoardSize, FS_Subset
<1>2. QED
  BY <1>1, FS_CardinalityType

\* A lock adds the four cells, less those above the board.
LEMMA LockCount ==
  ASSUME NEW board \in SUBSET Cells, NEW a \in Piece, ~Collides(board, a)
  PROVE  /\ LockPiece(board, a) \in SUBSET Cells
         /\ Cardinality(PieceCells(a) \ Cells) \in Nat
         /\ Cardinality(LockPiece(board, a)) + Cardinality(PieceCells(a) \ Cells)
              = Cardinality(board) + 4
<1> DEFINE cells == PieceCells(a)
           in == cells \cap Cells
           out == cells \ Cells
<1>1. IsFiniteSet(cells) /\ Cardinality(cells) = 4
  BY PieceHasFourCells
<1>2. board \cap in = {}
  BY DEF Collides, IsBlocked
<1> HIDE DEF cells
<1>3. /\ IsFiniteSet(in) /\ IsFiniteSet(out)
      /\ Cardinality(out) = 4 - Cardinality(in)
  BY <1>1, FS_Difference, FS_Intersection
<1>4. Cardinality(in) \in Nat /\ Cardinality(out) \in Nat
  BY <1>3, FS_CardinalityType
<1>5. LockPiece(board, a) = board \cup in /\ board \cup in \in SUBSET Cells
  BY DEF LockPiece, cells
<1> HIDE DEF in, out
<1>6. IsFiniteSet(board) /\ Cardinality(board) \in Nat
  BY BoardCount
<1>7. Cardinality(board \cup in) = Cardinality(board) + Cardinality(in) - Cardinality({})
  BY <1>2, <1>3, <1>6, FS_Union
<1>8. Cardinality(board \cup in) = Cardinality(board) + Cardinality(in)
  BY <1>4, <1>6, <1>7, FS_EmptySet
<1>9. QED
  BY <1>3, <1>4, <1>5, <1>6, <1>8 DEF out, cells

\* How many full rows there are below a row.
Below(full, y) == Cardinality({z \in full : z > y})

LEMMA BelowBounds ==
  ASSUME NEW full \in SUBSET Lines, NEW y \in Lines
  PROVE  /\ IsFiniteSet({z \in full : z > y})
         /\ Below(full, y) \in Nat /\ y + Below(full, y) \in Lines
<1> DEFINE S == {z \in full : z > y}
<1>1. BoardH \in Nat /\ y \in Nat /\ y <= BoardH - 1
  BY BoardSize DEF Lines
<1>2. S \subseteq y + 1..BoardH - 1
  <2>1. ASSUME NEW w \in full, w > y PROVE w \in y + 1..BoardH - 1
    <3>1. w \in 0..BoardH - 1
      BY DEF Lines
    <3>2. QED
      BY <1>1, <2>1, <3>1
  <2>2. QED
    BY <2>1
<1>3. IsFiniteSet(y + 1..BoardH - 1) /\ Cardinality(y + 1..BoardH - 1) = BoardH - 1 - y
  <2>1. y + 1 \in Int /\ BoardH - 1 \in Int
    BY <1>1
  <2>2. /\ IsFiniteSet(y + 1..BoardH - 1)
        /\ Cardinality(y + 1..BoardH - 1) = IF y + 1 > BoardH - 1 THEN 0
                                          ELSE (BoardH - 1) - (y + 1) + 1
    BY <2>1, FS_Interval
  <2>3. QED
    BY <1>1, <2>2
<1> HIDE DEF S
<1>4. IsFiniteSet(S) /\ Cardinality(S) <= BoardH - 1 - y
  BY <1>2, <1>3, FS_Subset, ZenonT(60)
<1>5. Cardinality(S) \in Nat
  BY <1>4, FS_CardinalityType
<1>6. Below(full, y) = Cardinality(S)
  BY DEF Below, S
<1>7. QED
  BY <1>1, <1>4, <1>5, <1>6 DEF Lines, S

\* Rows that are not full keep their order when they fall.
LEMMA RowsFallApart ==
  ASSUME NEW full \in SUBSET Lines, NEW y \in Lines, NEW z \in Lines, y < z, z \notin full
  PROVE  y + Below(full, y) < z + Below(full, z)
<1> DEFINE S == {w \in full : w > y}
           T == {w \in full : w > z}
           U == y + 1..z - 1
<1>1. y \in Nat /\ z \in Nat /\ \A w \in full : w \in Nat
  BY BoardSize DEF Lines
<1>2. S \subseteq T \cup U
  <2>1. ASSUME NEW w \in full, w > y PROVE w > z \/ w \in y + 1..z - 1
    <3>1. w \in Nat /\ w # z
      BY <1>1
    <3>2. QED
      BY <1>1, <2>1, <3>1
  <2>2. QED
    BY <2>1
<1>3. IsFiniteSet(U) /\ Cardinality(U) = z - 1 - y
  <2>1. y + 1 \in Int /\ z - 1 \in Int
    BY <1>1
  <2>2. /\ IsFiniteSet(U)
        /\ Cardinality(U) = IF y + 1 > z - 1 THEN 0 ELSE (z - 1) - (y + 1) + 1
    BY <2>1, FS_Interval
  <2>3. QED
    BY <1>1, <2>2
<1>4. IsFiniteSet(S) /\ IsFiniteSet(T) /\ Below(full, y) = Cardinality(S)
      /\ Below(full, z) = Cardinality(T) /\ Cardinality(S) \in Nat /\ Cardinality(T) \in Nat
  BY BelowBounds DEF Below
<1> HIDE DEF S, T, U
<1>5. /\ IsFiniteSet(T \cup U)
      /\ Cardinality(T \cup U) = Cardinality(T) + Cardinality(U) - Cardinality(T \cap U)
  BY <1>3, <1>4, FS_Union
<1>6. Cardinality(T \cap U) \in Nat
  BY <1>3, <1>4, FS_Intersection, FS_CardinalityType
<1>7. Cardinality(S) <= Cardinality(T \cup U)
  BY <1>2, <1>5, FS_Subset
<1>8. QED
  BY <1>1, <1>3, <1>4, <1>5, <1>6, <1>7

LEMMA FullRowsAreLines ==
  ASSUME NEW board
  PROVE  FullRows(board) \in SUBSET Lines
  BY DEF FullRows, Lines

\* Two cells fall to one only if they are one.
LEMMA CellsFallApart ==
  ASSUME NEW full \in SUBSET Lines, NEW y \in Lines \ full, NEW z \in Lines \ full,
         y + Below(full, y) = z + Below(full, z)
  PROVE  y = z
<1>1. y \in Int /\ z \in Int
  BY DEF Lines
<1>2. Below(full, y) \in Nat /\ Below(full, z) \in Nat
  BY BelowBounds
<1>3. ~(y < z)
  <2>1. SUFFICES ASSUME y < z PROVE FALSE
    OBVIOUS
  <2>2. y + Below(full, y) < z + Below(full, z)
    BY <2>1, RowsFallApart
  <2>3. QED
    BY <1>1, <1>2, <2>2
<1>4. ~(z < y)
  <2>1. SUFFICES ASSUME z < y PROVE FALSE
    OBVIOUS
  <2>2. z + Below(full, z) < y + Below(full, y)
    BY <2>1, RowsFallApart
  <2>3. QED
    BY <1>1, <1>2, <2>2
<1>5. QED
  BY <1>1, <1>3, <1>4

\* The cells a clear takes away are the full rows, and it leaves no full row.
LEMMA ClearCount ==
  ASSUME NEW board \in SUBSET Cells
  PROVE  /\ ClearFullRows(board) \in SUBSET Cells
         /\ Cardinality(FullRows(board)) \in Nat
         /\ Cardinality(ClearFullRows(board)) + BoardW * Cardinality(FullRows(board))
              = Cardinality(board)
         /\ FullRows(ClearFullRows(board)) = {}
<1> DEFINE full == FullRows(board)
           kept == {b \in board : b[2] \notin full}
           gone == Columns \X full
           f == [c \in kept |-> <<c[1], c[2] + Below(full, c[2])>>]
           cleared == ClearFullRows(board)
<1>1. full \in SUBSET Lines
  BY FullRowsAreLines
<1>2. IsFiniteSet(full) /\ Cardinality(full) \in Nat
  <2>1. IsFiniteSet(Lines)
    BY BoardSize, FS_Interval DEF Lines
  <2> HIDE DEF full
  <2>2. IsFiniteSet(full)
    BY <1>1, <2>1, FS_Subset
  <2>3. QED
    BY <2>2, FS_CardinalityType
<1>3. cleared = {f[c] : c \in kept}
  BY DEF ClearFullRows, Below
<1>4. \A c \in board : c[1] \in Columns /\ c[2] \in Lines /\ c = <<c[1], c[2]>>
  BY BoardSize
<1>5. gone \subseteq board
  BY DEF FullRows
<1> HIDE DEF full
<1>6. board = kept \cup gone /\ kept \cap gone = {}
  BY <1>4, <1>5
<1>7. \A c \in kept : c[1] \in Columns /\ c[2] \in Lines \ full /\ c = <<c[1], c[2]>>
  BY <1>4
<1>8. \A c \in kept : f[c] = <<c[1], c[2] + Below(full, c[2])>>
  OBVIOUS
<1>9. \A c, d \in kept : f[c] = f[d] => c = d
  <2> HIDE DEF kept, f
  <2>1. SUFFICES ASSUME NEW c \in kept, NEW d \in kept, f[c] = f[d] PROVE c = d
    OBVIOUS
  <2>2. c[1] = d[1] /\ c[2] + Below(full, c[2]) = d[2] + Below(full, d[2])
    BY <1>8, <2>1
  <2>3. c[2] = d[2]
    BY <1>1, <1>7, <2>2, CellsFallApart
  <2>4. QED
    BY <1>7, <2>2, <2>3
<1>10. IsFiniteSet(kept) /\ IsFiniteSet(gone) /\ Cardinality(gone) = BoardW * Cardinality(full)
  <2>1. IsFiniteSet(board)
    BY BoardCount
  <2>2. kept \subseteq board
    OBVIOUS
  <2> HIDE DEF kept
  <2>3. IsFiniteSet(kept)
    BY <2>1, <2>2, FS_Subset
  <2>4. QED
    BY <1>2, <2>3, BoardSize, FS_Product
<1> HIDE DEF f
<1>11. cleared \in SUBSET Cells
  <2>1. ASSUME NEW c \in kept PROVE f[c] \in Cells
    <3> HIDE DEF kept
    <3>1. c[2] \in Lines /\ c[1] \in Columns
      BY <1>7
    <3>2. c[2] + Below(full, c[2]) \in Lines
      BY <1>1, <3>1, BelowBounds
    <3>3. QED
      BY <1>8, <3>1, <3>2, BoardSize, SMTT(30)
  <2>2. QED
    BY <1>3, <2>1
<1> HIDE DEF kept, gone
<1>12. Cardinality(cleared) = Cardinality(kept)
  BY <1>3, <1>9, <1>10, ImageIsAsLarge
<1>13. Cardinality(board) = Cardinality(kept) + Cardinality(gone)
  <2>1. Cardinality(board) = Cardinality(kept) + Cardinality(gone) - Cardinality({})
    BY <1>6, <1>10, FS_Union
  <2>2. Cardinality(kept) \in Nat /\ Cardinality(gone) \in Nat /\ Cardinality({}) = 0
    BY <1>10, FS_CardinalityType, FS_EmptySet
  <2>3. QED
    BY <2>1, <2>2
<1> HIDE DEF cleared
<1>14. FullRows(cleared) = {}
  <2>1. SUFFICES ASSUME NEW y \in FullRows(cleared) PROVE FALSE
    OBVIOUS
  <2>2. \A x \in Columns : <<x, y>> \in cleared
    BY DEF FullRows
  <2>3. \A x \in Columns : \E c \in kept : f[c] = <<x, y>>
    BY <1>3, <2>2
  <2>4. \A x \in Columns : \E z \in Lines \ full : <<x, z>> \in board /\ z + Below(full, z) = y
    <3>1. SUFFICES ASSUME NEW x \in Columns
                   PROVE  \E z \in Lines \ full : <<x, z>> \in board /\ z + Below(full, z) = y
      OBVIOUS
    <3>2. PICK c \in kept : f[c] = <<x, y>>
      BY <2>3
    <3>3. c[1] = x /\ c[2] + Below(full, c[2]) = y
      BY <1>8, <3>2
    <3>4. c \in board
      BY <1>6
    <3>5. QED
      BY <1>7, <3>3, <3>4
  <2>5. 0 \in Columns
    BY BoardSize DEF Columns
  <2>6. PICK z \in Lines \ full : z + Below(full, z) = y
    BY <2>4, <2>5
  <2>7. \A x \in Columns : <<x, z>> \in board
    <3>1. SUFFICES ASSUME NEW x \in Columns PROVE <<x, z>> \in board
      OBVIOUS
    <3>2. PICK w \in Lines \ full : <<x, w>> \in board /\ w + Below(full, w) = y
      BY <2>4
    <3>3. w = z
      BY <1>1, <2>6, <3>2, CellsFallApart
    <3>4. QED
      BY <3>2, <3>3
  <2>8. z \in full
    BY <2>7 DEF full, FullRows, Lines
  <2>9. QED
    BY <2>8
<1>15. QED
  BY <1>2, <1>10, <1>11, <1>12, <1>13, <1>14 DEF full, cleared

LEMMA MoreRowsMoreCells ==
  ASSUME NEW w \in Nat, NEW n \in Nat, NEW m \in Nat, n <= m
  PROVE  w * n <= w * m /\ w * n \in Nat /\ w * m \in Nat
<1>1. w * m = w * n + w * (m - n)
  OBVIOUS
<1>2. w * (m - n) \in Nat /\ w * n \in Nat /\ w * m \in Nat
  <2>1. \A x, y \in Nat : x * y \in Nat
    OBVIOUS
  <2>2. m - n \in Nat
    OBVIOUS
  <2>3. QED
    BY <2>1, <2>2
<1>3. QED
  BY <1>1, <1>2

\* A batch brings at most its rows less a cell each, and no full row.
LEMMA PushCount ==
  ASSUME NEW board \in SUBSET Cells, FullRows(board) = {}, NEW batch \in Batch
  PROVE  /\ PushGarbage(board, batch) \in SUBSET Cells
         /\ Cardinality(PushGarbage(board, batch))
              <= Cardinality(board) + (BoardW - 1) * batch.amount
         /\ FullRows(PushGarbage(board, batch)) = {}
<1> DEFINE n == IF batch.amount < BoardH THEN batch.amount ELSE BoardH
           high == {b \in board : b[2] >= n}
           f == [c \in high |-> <<c[1], c[2] - n>>]
           raised == {f[c] : c \in high}
           holed == Columns \ {batch.holeColumn}
           bottom == BoardH - n..BoardH - 1
           pushed == holed \X bottom
           q == PushGarbage(board, batch)
<1>1. batch.amount \in Nat /\ batch.holeColumn \in Columns
  BY DEF Batch
<1>2. n \in Nat /\ n <= BoardH /\ n <= batch.amount /\ BoardH \in Nat
  BY <1>1, BoardSize
<1>3. q = raised \cup pushed
  BY DEF PushGarbage
<1>4. \A c \in board : c[1] \in Columns /\ c[2] \in Lines /\ c = <<c[1], c[2]>>
  BY BoardSize
<1> HIDE DEF n
<1>5. \A c \in high : /\ c[1] \in Columns /\ c[2] \in Lines /\ c[2] >= n
                      /\ c = <<c[1], c[2]>> /\ c \in board
  BY <1>4
<1>6. \A c \in high : f[c] = <<c[1], c[2] - n>> /\ c[2] - n \in 0..BoardH - 1 - n
  BY <1>2, <1>5 DEF Lines
<1>7. \A c, d \in high : f[c] = f[d] => c = d
  <2> HIDE DEF high, f
  <2>1. SUFFICES ASSUME NEW c \in high, NEW d \in high, f[c] = f[d] PROVE c = d
    OBVIOUS
  <2>2. c[1] = d[1] /\ c[2] - n = d[2] - n
    BY <1>6, <2>1
  <2>3. c[2] = d[2]
    BY <1>2, <1>5, <2>2 DEF Lines
  <2>4. QED
    BY <1>5, <2>2, <2>3
<1>8. IsFiniteSet(high) /\ Cardinality(high) <= Cardinality(board)
  <2>1. IsFiniteSet(board) /\ high \in SUBSET board
    BY BoardCount
  <2> HIDE DEF high
  <2>2. QED
    BY <2>1, FS_Subset
<1>9. \A y \in bottom : y \in Lines
  BY <1>2 DEF Lines
<1>10. raised \subseteq Cells /\ \A c \in raised : c[2] \in 0..BoardH - 1 - n
  <2>1. ASSUME NEW c \in high PROVE f[c] \in Cells /\ f[c][2] \in 0..BoardH - 1 - n
    <3> HIDE DEF high, f
    <3>1. c[2] - n \in Lines /\ c[1] \in Columns
      BY <1>2, <1>5, <1>6 DEF Lines
    <3>2. f[c] = <<c[1], c[2] - n>> /\ c[2] - n \in 0..BoardH - 1 - n
      BY <1>6
    <3>3. <<c[1], c[2] - n>> \in Cells
      BY <3>1, BoardSize
    <3>4. QED
      BY <3>2, <3>3
  <2>2. QED
    BY <2>1
<1> HIDE DEF high, f
<1>11. IsFiniteSet(raised) /\ Cardinality(raised) <= Cardinality(board)
  BY <1>7, <1>8, ImageIsAsLarge
<1>12. IsFiniteSet(holed) /\ Cardinality(holed) = BoardW - 1
  BY <1>1, BoardSize, FS_RemoveElement
<1>13. IsFiniteSet(bottom) /\ Cardinality(bottom) = n
  <2>1. BoardH - n \in Int /\ BoardH - 1 \in Int
    BY <1>2
  <2>2. /\ IsFiniteSet(bottom)
        /\ Cardinality(bottom) = IF BoardH - n > BoardH - 1 THEN 0
                                   ELSE (BoardH - 1) - (BoardH - n) + 1
    BY <2>1, FS_Interval
  <2>3. QED
    BY <1>2, <2>2
<1>14. q \in SUBSET Cells
  BY <1>3, <1>9, <1>10, BoardSize
<1>15. FullRows(q) = {}
  <2>1. SUFFICES ASSUME NEW y \in FullRows(q) PROVE FALSE
    OBVIOUS
  <2>2. y \in 0..BoardH - 1 /\ \A x \in Columns : <<x, y>> \in q
    BY DEF FullRows
  <2>3. CASE y \in bottom
    <3>1. <<batch.holeColumn, y>> \in q
      BY <1>1, <2>2
    <3>2. <<batch.holeColumn, y>> \notin pushed
      OBVIOUS
    <3>3. <<batch.holeColumn, y>> \in raised
      BY <1>3, <3>1, <3>2
    <3>4. y \in 0..BoardH - 1 - n
      BY <1>10, <3>3
    <3>5. QED
      BY <1>2, <2>3, <3>4
  <2>4. CASE y \notin bottom
    <3>1. \A x \in Columns : <<x, y>> \in raised
      BY <1>3, <2>2, <2>4
    <3>2. \A x \in Columns : <<x, y + n>> \in board
      <4>1. SUFFICES ASSUME NEW x \in Columns PROVE <<x, y + n>> \in board
        OBVIOUS
      <4>2. PICK c \in high : f[c] = <<x, y>>
        BY <3>1
      <4>3. c[1] = x /\ c[2] - n = y
        BY <1>6, <4>2
      <4>4. c[2] = y + n
        BY <1>2, <1>5, <4>3 DEF Lines
      <4>5. QED
        BY <1>5, <4>3, <4>4
    <3>3. y + n \in 0..BoardH - 1
      BY <1>2, <2>2, <2>4
    <3>4. y + n \in FullRows(board)
      BY <3>2, <3>3 DEF FullRows
    <3>5. QED
      BY <3>4
  <2>5. QED
    BY <2>3, <2>4
<1> HIDE DEF raised, holed, bottom, q
<1>16. IsFiniteSet(pushed) /\ Cardinality(pushed) = (BoardW - 1) * n
  BY <1>12, <1>13, FS_Product
<1> HIDE DEF pushed
<1>17. Cardinality(q) <= Cardinality(raised) + Cardinality(pushed)
  <2>1. Cardinality(q) = Cardinality(raised) + Cardinality(pushed) - Cardinality(raised \cap pushed)
    BY <1>3, <1>11, <1>16, FS_Union
  <2>2. /\ Cardinality(raised \cap pushed) \in Nat
        /\ Cardinality(raised) \in Nat /\ Cardinality(pushed) \in Nat
    BY <1>11, <1>16, FS_Intersection, FS_CardinalityType
  <2>3. QED
    BY <2>1, <2>2
<1>18. Cardinality(pushed) <= (BoardW - 1) * batch.amount /\ (BoardW - 1) * batch.amount \in Nat
  <2>1. BoardW - 1 \in Nat
    BY BoardSize
  <2>2. QED
    BY <1>1, <1>2, <1>16, <2>1, MoreRowsMoreCells
<1>19. Cardinality(q) <= Cardinality(board) + (BoardW - 1) * batch.amount
  <2> DEFINE most == (BoardW - 1) * batch.amount
  <2>1. Cardinality(pushed) <= most /\ most \in Nat
    BY <1>18
  <2> HIDE DEF most
  <2>2. Cardinality(q) \in Nat /\ Cardinality(raised) \in Nat /\ Cardinality(board) \in Nat
        /\ Cardinality(pushed) \in Nat
    BY <1>11, <1>14, <1>16, BoardCount, FS_CardinalityType
  <2>3. Cardinality(q) <= Cardinality(board) + most
    BY <1>11, <1>17, <2>1, <2>2
  <2>4. QED
    BY <2>3 DEF most
<1>20. QED
  BY <1>14, <1>15, <1>19 DEF q

-----------------------------------------------------------------------------
(* The queue of garbage: it holds one batch at most.                       *)

\* The indices of a queue of one batch, as a fold visits them.
LEMMA OneIndex ==
  ASSUME NEW b
  PROVE  /\ DOMAIN <<b>> = {1} /\ <<b>>[1] = b /\ Max({1}) = 1
         /\ \A s \in SUBSET {1} : s = {} \/ s = {1}
         /\ {1} # {} /\ {1} \ {1} = {} /\ {} \in SUBSET {1} /\ {1} \in SUBSET {1}
<1>1. Max({1}) = 1
  BY DEF Max
<1>2. \A s \in SUBSET {1} : s = {} \/ s = {1}
  OBVIOUS
<1>3. DOMAIN <<b>> = {1} /\ <<b>>[1] = b
  OBVIOUS
<1>4. QED
  BY <1>1, <1>2, <1>3

LEMMA PendingNone == Pending(<<>>) = 0
<1>1. DOMAIN <<>> = {}
  OBVIOUS
<1>2. QED
  BY <1>1 DEF Pending, FoldLeft, MapThenFoldSet

LEMMA PendingOne ==
  ASSUME NEW b, b.amount \in Nat
  PROVE  Pending(<<b>>) = b.amount
<1> DEFINE q == <<b>>
           Taken(iter, s) == IF s = {} THEN 0
                            ELSE LET x == Max(s) IN iter[s \ {x}] + q[x].amount
           Sums(iter) == iter = [s \in SUBSET DOMAIN q |-> Taken(iter, s)]
           f == [s \in SUBSET {1} |-> IF s = {} THEN 0 ELSE b.amount]
           g == CHOOSE iter : Sums(iter)
<1>1. /\ DOMAIN q = {1} /\ q[1] = b /\ Max({1}) = 1
      /\ \A s \in SUBSET {1} : s = {} \/ s = {1}
      /\ {1} # {} /\ {1} \ {1} = {} /\ {} \in SUBSET {1} /\ {1} \in SUBSET {1}
  BY OneIndex
<1>2. Pending(q) = g[DOMAIN q]
  BY DEF Pending, FoldLeft, MapThenFoldSet
<1> HIDE DEF q
<1>3. \A iter : Taken(iter, {}) = 0 /\ Taken(iter, {1}) = iter[{}] + b.amount
  BY <1>1
<1>4. f[{}] = 0 /\ f[{1}] = b.amount
  BY <1>1
<1>5. Sums(f)
  <2>1. \A s \in SUBSET {1} : f[s] = Taken(f, s)
    <3> HIDE DEF f, Taken
    <3>1. Taken(f, {}) = f[{}] /\ Taken(f, {1}) = f[{1}]
      BY <1>3, <1>4
    <3>2. QED
      BY <1>1, <3>1
  <2>2. f = [s \in SUBSET {1} |-> f[s]]
    OBVIOUS
  <2> HIDE DEF f, Taken
  <2>3. [s \in SUBSET {1} |-> f[s]] = [s \in SUBSET {1} |-> Taken(f, s)]
    BY <2>1
  <2>4. f = [s \in SUBSET DOMAIN q |-> Taken(f, s)]
    BY <1>1, <2>2, <2>3
  <2>5. QED
    BY <2>4
<1>6. Sums(g)
  <2> HIDE DEF f, Sums
  <2>1. QED
    BY <1>5
<1>7. \A iter : Sums(iter) => iter[{}] = Taken(iter, {}) /\ iter[{1}] = Taken(iter, {1})
  <2> HIDE DEF Taken
  <2>1. QED
    BY <1>1
<1>8. g[{1}] = b.amount
  <2> HIDE DEF g, Sums, Taken
  <2>1. g[{1}] = Taken(g, {1}) /\ g[{}] = Taken(g, {})
    BY <1>6, <1>7
  <2>2. QED
    BY <2>1, <1>3
<1>9. QED
  BY <1>1, <1>2, <1>8 DEF q

LEMMA CancelNone ==
  ASSUME NEW amount
  PROVE  CancelIncoming(<<>>, amount) = [left |-> amount, queue |-> <<>>]
<1>1. DOMAIN <<>> = {}
  OBVIOUS
<1>2. QED
  BY <1>1 DEF CancelIncoming, FoldLeft, MapThenFoldSet

LEMMA CancelOne ==
  ASSUME NEW b, NEW amount
  PROVE  LET taken == IF b.amount < amount THEN b.amount ELSE amount
         IN  CancelIncoming(<<b>>, amount) =
               [left |-> amount - taken,
                queue |-> IF taken = b.amount THEN <<>>
                          ELSE Append(<<>>, [b EXCEPT !.amount = @ - taken])]
<1> DEFINE q == <<b>>
           none == [left |-> amount, queue |-> <<>>]
           Take(acc, c) ==
               LET taken == IF c.amount < acc.left THEN c.amount ELSE acc.left
               IN  [left |-> acc.left - taken,
                    queue |-> IF taken = c.amount THEN acc.queue
                              ELSE Append(acc.queue, [c EXCEPT !.amount = @ - taken])]
           Taken(iter, s) == IF s = {} THEN none
                             ELSE LET x == Max(s) IN Take(iter[s \ {x}], q[x])
           Cancels(iter) == iter = [s \in SUBSET DOMAIN q |-> Taken(iter, s)]
           f == [s \in SUBSET {1} |-> IF s = {} THEN none ELSE Take(none, b)]
           g == CHOOSE iter : Cancels(iter)
<1>1. /\ DOMAIN q = {1} /\ q[1] = b /\ Max({1}) = 1
      /\ \A s \in SUBSET {1} : s = {} \/ s = {1}
      /\ {1} # {} /\ {1} \ {1} = {} /\ {} \in SUBSET {1} /\ {1} \in SUBSET {1}
  BY OneIndex
<1>2. CancelIncoming(q, amount) = g[DOMAIN q]
  BY DEF CancelIncoming, FoldLeft, MapThenFoldSet
<1>3. Take(none, b) =
        LET taken == IF b.amount < amount THEN b.amount ELSE amount
        IN  [left |-> amount - taken,
             queue |-> IF taken = b.amount THEN <<>>
                       ELSE Append(<<>>, [b EXCEPT !.amount = @ - taken])]
  OBVIOUS
<1> HIDE DEF q, none, Take
<1>4. \A iter : Taken(iter, {}) = none /\ Taken(iter, {1}) = Take(iter[{}], b)
  BY <1>1
<1>5. f[{}] = none /\ f[{1}] = Take(none, b)
  BY <1>1
<1>6. Cancels(f)
  <2>1. \A s \in SUBSET {1} : f[s] = Taken(f, s)
    <3> HIDE DEF f, Taken
    <3>1. Taken(f, {}) = f[{}] /\ Taken(f, {1}) = f[{1}]
      BY <1>4, <1>5
    <3>2. QED
      BY <1>1, <3>1
  <2>2. f = [s \in SUBSET {1} |-> f[s]]
    OBVIOUS
  <2> HIDE DEF f, Taken
  <2>3. [s \in SUBSET {1} |-> f[s]] = [s \in SUBSET {1} |-> Taken(f, s)]
    BY <2>1
  <2>4. f = [s \in SUBSET DOMAIN q |-> Taken(f, s)]
    BY <1>1, <2>2, <2>3
  <2>5. QED
    BY <2>4
<1>7. Cancels(g)
  <2> HIDE DEF f, Cancels
  <2>1. QED
    BY <1>6
<1>8. \A iter : Cancels(iter) => iter[{}] = Taken(iter, {}) /\ iter[{1}] = Taken(iter, {1})
  <2> HIDE DEF Taken
  <2>1. QED
    BY <1>1
<1>9. g[{1}] = Take(none, b)
  <2> HIDE DEF g, Cancels, Taken
  <2>1. g[{1}] = Taken(g, {1}) /\ g[{}] = Taken(g, {})
    BY <1>7, <1>8
  <2>2. QED
    BY <2>1, <1>4
<1>10. CancelIncoming(q, amount) = Take(none, b)
  BY <1>1, <1>2, <1>9
<1>11. QED
  BY <1>3, <1>10 DEF q

\* The fold that pushes what lands, batch by batch.
LEMMA PushNone ==
  ASSUME NEW board
  PROVE  FoldLeft(PushGarbage, board, <<>>) = board
<1>1. DOMAIN <<>> = {}
  OBVIOUS
<1>2. QED
  BY <1>1 DEF FoldLeft, MapThenFoldSet

LEMMA PushOne ==
  ASSUME NEW board, NEW b
  PROVE  FoldLeft(PushGarbage, board, <<b>>) = PushGarbage(board, b)
<1> DEFINE q == <<b>>
           Pushed(iter, s) == IF s = {} THEN board
                              ELSE LET x == Max(s) IN PushGarbage(iter[s \ {x}], q[x])
           Pushes(iter) == iter = [s \in SUBSET DOMAIN q |-> Pushed(iter, s)]
           f == [s \in SUBSET {1} |-> IF s = {} THEN board ELSE PushGarbage(board, b)]
           g == CHOOSE iter : Pushes(iter)
<1>1. /\ DOMAIN q = {1} /\ q[1] = b /\ Max({1}) = 1
      /\ \A s \in SUBSET {1} : s = {} \/ s = {1}
      /\ {1} # {} /\ {1} \ {1} = {} /\ {} \in SUBSET {1} /\ {1} \in SUBSET {1}
  BY OneIndex
<1>2. FoldLeft(PushGarbage, board, q) = g[DOMAIN q]
  BY DEF FoldLeft, MapThenFoldSet
<1> HIDE DEF q
<1>3. \A iter : Pushed(iter, {}) = board /\ Pushed(iter, {1}) = PushGarbage(iter[{}], b)
  BY <1>1
<1>4. f[{}] = board /\ f[{1}] = PushGarbage(board, b)
  BY <1>1
<1>5. Pushes(f)
  <2>1. \A s \in SUBSET {1} : f[s] = Pushed(f, s)
    <3> HIDE DEF f, Pushed
    <3>1. Pushed(f, {}) = f[{}] /\ Pushed(f, {1}) = f[{1}]
      BY <1>3, <1>4
    <3>2. QED
      BY <1>1, <3>1
  <2>2. f = [s \in SUBSET {1} |-> f[s]]
    OBVIOUS
  <2> HIDE DEF f, Pushed
  <2>3. [s \in SUBSET {1} |-> f[s]] = [s \in SUBSET {1} |-> Pushed(f, s)]
    BY <2>1
  <2>4. f = [s \in SUBSET DOMAIN q |-> Pushed(f, s)]
    BY <1>1, <2>2, <2>3
  <2>5. QED
    BY <2>4
<1>6. Pushes(g)
  <2> HIDE DEF f, Pushes
  <2>1. QED
    BY <1>5
<1>7. \A iter : Pushes(iter) => iter[{}] = Pushed(iter, {}) /\ iter[{1}] = Pushed(iter, {1})
  <2> HIDE DEF Pushed
  <2>1. QED
    BY <1>1
<1>8. g[{1}] = PushGarbage(board, b)
  <2> HIDE DEF g, Pushes, Pushed
  <2>1. g[{1}] = Pushed(g, {1}) /\ g[{}] = Pushed(g, {})
    BY <1>6, <1>7
  <2>2. QED
    BY <2>1, <1>3
<1>9. QED
  BY <1>1, <1>2, <1>8 DEF q

ShortQueue(q) == q = <<>> \/ \E b \in Batch : q = <<b>>

LEMMA ShortIsSeq == ASSUME NEW q, ShortQueue(q) PROVE q \in Seq(Batch)
<1>1. CASE q = <<>>
  BY <1>1
<1>2. ASSUME NEW b \in Batch, q = <<b>> PROVE q \in Seq(Batch)
  BY <1>2
<1>3. QED
  BY <1>1, <1>2 DEF ShortQueue

\* What an attack cancels goes from the queue, and what is left of it found the
\* queue empty.
LEMMA CancelKeepsShort ==
  ASSUME NEW q, ShortQueue(q), NEW amount \in Nat
  PROVE  LET c == CancelIncoming(q, amount)
         IN  /\ c.left \in 0..amount /\ ShortQueue(c.queue)
             /\ c.left > 0 => c.queue = <<>>
<1> DEFINE c == CancelIncoming(q, amount)
<1>1. CASE q = <<>>
  <2>1. c = [left |-> amount, queue |-> <<>>]
    BY <1>1, CancelNone
  <2> HIDE DEF c
  <2>2. QED
    BY <1>1, <2>1 DEF ShortQueue, c
<1>2. ASSUME NEW b \in Batch, q = <<b>>
      PROVE  c.left \in 0..amount /\ ShortQueue(c.queue) /\ (c.left > 0 => c.queue = <<>>)
  <2> DEFINE taken == IF b.amount < amount THEN b.amount ELSE amount
             rest == [b EXCEPT !.amount = @ - taken]
  <2>1. c = [left |-> amount - taken,
             queue |-> IF taken = b.amount THEN <<>> ELSE Append(<<>>, rest)]
    BY <1>2, CancelOne
  <2>2. b.amount \in Nat /\ taken \in Nat /\ taken <= b.amount /\ taken <= amount
        /\ (taken < amount => taken = b.amount)
    BY DEF Batch
  <2>3. taken # b.amount => rest \in Batch
    BY <2>2 DEF Batch
  <2> HIDE DEF c, taken, rest
  <2>4. Append(<<>>, rest) = <<rest>>
    OBVIOUS
  <2>5. QED
    BY <2>1, <2>2, <2>3, <2>4 DEF ShortQueue
<1> HIDE DEF c
<1>3. QED
  BY <1>1, <1>2 DEF ShortQueue, c

LEMMA ReceiveKeepsShort ==
  ASSUME NEW q, ShortQueue(q), NEW b \in Batch
  PROVE  ShortQueue(Receive(q, b))
<1> DEFINE c == CancelIncoming(q, b.amount)
           rest == [b EXCEPT !.amount = c.left]
<1>1. b.amount \in Nat
  BY DEF Batch
<1>2. c.left \in 0..b.amount /\ ShortQueue(c.queue) /\ (c.left > 0 => c.queue = <<>>)
  BY <1>1, CancelKeepsShort
<1>3. Receive(q, b) = IF c.left = 0 THEN c.queue ELSE Append(c.queue, rest)
  BY DEF Receive
<1> HIDE DEF c
<1>4. CASE c.left = 0
  BY <1>2, <1>3, <1>4
<1>5. CASE c.left # 0
  <2>1. rest \in Batch /\ c.queue = <<>>
    BY <1>1, <1>2, <1>5 DEF Batch
  <2> HIDE DEF rest
  <2>2. Append(<<>>, rest) = <<rest>>
    OBVIOUS
  <2>3. QED
    BY <1>3, <1>5, <2>1, <2>2 DEF ShortQueue
<1>6. QED
  BY <1>4, <1>5

\* A lock without a clear lets in what is due: all of the queue or none of it.
LEMMA DueIsAllOrNone ==
  ASSUME NEW q, ShortQueue(q), frame \in Nat
  PROVE  LET due == DueCount(q, frame)
             front == SubSeq(q, 1, due)
             back == SubSeq(q, due + 1, Len(q))
         IN  (front = <<>> /\ back = q) \/ (front = q /\ back = <<>>)
<1> DEFINE Due(n) == /\ \A i \in 1..n : q[i].readyAtFrame <= frame
                     /\ n < Len(q) => q[n + 1].readyAtFrame > frame
           due == DueCount(q, frame)
           front == SubSeq(q, 1, due)
           back == SubSeq(q, due + 1, Len(q))
<1>1. due = CHOOSE n \in 0..Len(q) : Due(n)
  BY DEF DueCount
<1>2. q \in Seq(Batch)
  BY ShortIsSeq
<1>3. (front = <<>> /\ back = q) \/ (front = q /\ back = <<>>)
  <2>1. CASE q = <<>>
    <3>1. Due(0) /\ 0..Len(q) = {0}
      BY <2>1
    <3> HIDE DEF Due
    <3>2. due = 0
      BY <1>1, <3>1
    <3> HIDE DEF due
    <3>3. QED
      BY <1>2, <2>1, <3>2, SubSeqEmpty, SubSeqFull
  <2>2. ASSUME NEW b \in Batch, q = <<b>>
        PROVE  (front = <<>> /\ back = q) \/ (front = q /\ back = <<>>)
    <3>1. Len(q) = 1 /\ q[1] = b /\ b.readyAtFrame \in Nat
      BY <2>2 DEF Batch
    <3>2. Due(0) \/ Due(1)
      BY <3>1
    <3>3. 0..Len(q) = {0, 1}
      BY <3>1
    <3> HIDE DEF Due
    <3>4. due = 0 \/ due = 1
      BY <1>1, <3>2, <3>3
    <3> HIDE DEF due
    <3>5. SubSeq(q, 1, 0) = <<>> /\ SubSeq(q, 1, 1) = q /\ SubSeq(q, 2, 1) = <<>>
      BY <1>2, <3>1, SubSeqEmpty, SubSeqFull
    <3>6. due + 1 = IF due = 0 THEN 1 ELSE 2
      BY <3>4
    <3>7. CASE due = 0
      <4>1. front = SubSeq(q, 1, 0) /\ back = SubSeq(q, 1, 1)
        BY <3>1, <3>6, <3>7
      <4>2. QED
        BY <3>5, <4>1
    <3>8. CASE due = 1
      <4>1. front = SubSeq(q, 1, 1) /\ back = SubSeq(q, 2, 1)
        BY <3>1, <3>6, <3>8
      <4>2. QED
        BY <3>5, <4>1
    <3>9. QED
      BY <3>4, <3>7, <3>8
  <2>3. QED
    BY <2>1, <2>2 DEF ShortQueue
<1>4. QED
  BY <1>3

-----------------------------------------------------------------------------
(* What a clear sends.                                                     *)

LEMMA ComboFacts == ASSUME NEW n \in Int PROVE ComboBonus(n) \in Nat
<1>1. CASE n <= 0
  BY <1>1 DEF ComboBonus
<1>2. CASE n > 0
  <2> DEFINE i == IF n < 13 THEN n + 1 ELSE 14
  <2>1. i \in 1..14
    BY <1>2
  <2>2. ComboBonus(n) = ComboTable[i]
    BY <1>2 DEF ComboBonus
  <2> HIDE DEF i
  <2>3. ComboTable[i] \in Nat
    <3>1. \/ i = 1 \/ i = 2 \/ i = 3 \/ i = 4 \/ i = 5 \/ i = 6 \/ i = 7
          \/ i = 8 \/ i = 9 \/ i = 10 \/ i = 11 \/ i = 12 \/ i = 13 \/ i = 14
      BY <2>1
    <3>2. QED
      BY <3>1 DEF ComboTable
  <2>4. QED
    BY <2>2, <2>3
<1>3. QED
  BY <1>1, <1>2

LEMMA AttackIsNat ==
  ASSUME NEW lines \in Nat \ {0}, NEW tspin \in BOOLEAN, NEW mini \in BOOLEAN, NEW b2b \in BOOLEAN,
         NEW combo \in Int, NEW perfect \in BOOLEAN
  PROVE  AttackFor(ClassifyClear(lines, tspin, mini), b2b, combo, perfect) \in Nat
<1> DEFINE kind == ClassifyClear(lines, tspin, mini)
<1>1. (IF lines < 3 THEN lines ELSE 3) \in 1..3 /\ (IF lines < 4 THEN lines ELSE 4) \in 1..4
  OBVIOUS
<1>2. kind \in ClearKinds
  <2>1. "tspin-mini" \in ClearKinds
    BY DEF ClearKinds
  <2>2. \A i \in 1..3 : SpinKinds[i] \in ClearKinds
    BY DEF ClearKinds
  <2>3. \A i \in 1..4 : PlainKinds[i] \in ClearKinds
    BY DEF ClearKinds
  <2>4. QED
    BY <1>1, <2>1, <2>2, <2>3 DEF ClassifyClear
<1> HIDE DEF kind
<1>3. BaseAttack[kind] \in Nat
  <2>1. \/ kind \in {"single", "tspin-mini"} \/ kind = "double"
        \/ kind \in {"triple", "tspin-single"} \/ kind \in {"tetris", "tspin-double"}
        \/ kind = "tspin-triple"
    <3>1. \A i \in 1..4 : PlainKinds[i] \in {"single", "double", "triple", "tetris"}
      BY DEF PlainKinds
    <3>2. \A i \in 1..3 : SpinKinds[i] \in {"tspin-single", "tspin-double", "tspin-triple"}
      BY DEF SpinKinds
    <3>3. QED
      BY <1>2, <3>1, <3>2 DEF ClearKinds
  <2>2. QED
    BY <1>2, <2>1 DEF BaseAttack
<1>4. ComboBonus(combo) \in Nat
  BY ComboFacts
<1>5. AttackFor(kind, b2b, combo, perfect) \in Nat
  BY <1>3, <1>4 DEF AttackFor, B2BBonus, PerfectClearBonus
<1>6. QED
  BY <1>5 DEF kind

-----------------------------------------------------------------------------
(* A lock and the cells of the board.                                      *)

\* With n pieces locked: their cells and those of the garbage are on the board,
\* went with a cleared row, or are over the top.
Balanced(p, n) ==
    LET placed == Cardinality(p.board) + BoardW * p.linesCleared + p.over
        brought == 4 * n + (BoardW - 1) * p.landed
    IN  placed <= brought /\ (p.landed = 0 => placed = brought) /\ FullRows(p.board) = {}

LEMMA BalancedFrame ==
  ASSUME NEW p, NEW q, NEW n, Balanced(p, n), q.board = p.board, q.linesCleared = p.linesCleared,
         q.over = p.over, q.landed = p.landed
  PROVE  Balanced(q, n)
  BY DEF Balanced

\* What a lock leaves alone.
Settles(p, q) ==
    /\ q \in Player /\ ~InPlay(q) /\ ShortQueue(q.garbageQueue)
    /\ q.alive = p.alive /\ q.hold = p.hold /\ q.bagIndex = p.bagIndex

LEMMA LockedType ==
  ASSUME NEW p \in Player, NEW board \in SUBSET Cells, NEW ticks \in Nat, NEW kick \in Int,
         NEW over \in Nat
  PROVE  [p EXCEPT !.board = board, !.active = NoPiece, !.spawnTicks = ticks,
                   !.lastAction = "none", !.lastKickIndex = kick, !.over = over] \in Player
  BY DEF Player, LastActions

LEMMA MissedType ==
  ASSUME NEW p \in Player, NEW combo \in Int
  PROVE  [p EXCEPT !.combo = combo] \in Player
  BY DEF Player

LEMMA LockSum ==
  ASSUME NEW were \in Int, NEW are \in Int, NEW gone \in Int, NEW go \in Int, NEW came \in Int,
         NEW over \in Int, NEW out \in Int, NEW n \in Int, are + go + out = were + 4
  PROVE  /\ were + gone + over <= 4 * n + came
              => are + (gone + go) + (over + out) <= 4 * (n + 1) + came
         /\ were + gone + over = 4 * n + came
              => are + (gone + go) + (over + out) = 4 * (n + 1) + came
  OBVIOUS

LEMMA ProductIsNat == \A x, y \in Nat : x * y \in Nat
  OBVIOUS

LEMMA Distributes ==
  ASSUME NEW w \in Int, NEW a \in Int, NEW b \in Int
  PROVE  w * (a + b) = w * a + w * b
  OBVIOUS

LEMMA TSpinType ==
  ASSUME NEW p
  PROVE  TSpin(p).tspin \in BOOLEAN /\ TSpin(p).mini \in BOOLEAN
  BY DEF TSpin

\* A clear scores; what it sends is a number, and it leaves the board alone.
LEMMA ScoreClearSettles ==
  ASSUME NEW p, p \in Player, ~InPlay(p), ShortQueue(p.garbageQueue),
         NEW lines \in Nat \ {0}, NEW spin, spin.tspin \in BOOLEAN, spin.mini \in BOOLEAN
  PROVE  LET q == ScoreClear(p, lines, spin)
         IN  /\ Settles(p, q) /\ q.board = p.board /\ q.over = p.over /\ q.landed = p.landed
             /\ q.linesCleared = p.linesCleared + lines
<1> DEFINE kind == ClassifyClear(lines, spin.tspin, spin.mini)
           amount == AttackFor(kind, p.backToBack, p.combo + 1, p.board = {})
           cancel == CancelIncoming(p.garbageQueue, amount)
           b2b == IsB2BClear(kind) \/ (p.backToBack /\ ~BreaksB2B(kind))
           q == ScoreClear(p, lines, spin)
<1>1. p.backToBack \in BOOLEAN /\ p.combo + 1 \in Int /\ p.attackSent \in Nat
      /\ p.linesCleared + lines \in Nat
  BY SMTT(30) DEF Player
<1>2. amount \in Nat
  <2>1. (p.board = {}) \in BOOLEAN
    OBVIOUS
  <2>2. QED
    BY <1>1, <2>1, AttackIsNat
<1>3. q = [p EXCEPT !.linesCleared = p.linesCleared + lines, !.combo = p.combo + 1,
                    !.backToBack = b2b, !.garbageQueue = cancel.queue,
                    !.attackSent = p.attackSent + cancel.left]
  BY DEF ScoreClear
<1>4. b2b \in BOOLEAN
  OBVIOUS
<1> HIDE DEF kind, amount, b2b
<1>5. cancel.left \in Nat /\ ShortQueue(cancel.queue)
  <2>1. cancel.left \in 0..amount /\ ShortQueue(cancel.queue)
    BY <1>2, CancelKeepsShort
  <2> HIDE DEF cancel
  <2>2. QED
    BY <1>2, <2>1
<1> HIDE DEF cancel
<1>6. cancel.queue \in Seq(Batch) /\ p.attackSent + cancel.left \in Nat
  BY <1>1, <1>5, ShortIsSeq
<1> HIDE DEF q
<1>7. q \in Player
  BY <1>1, <1>3, <1>4, <1>6 DEF Player
<1>8. /\ q.active = p.active /\ q.garbageQueue = cancel.queue /\ q.alive = p.alive
      /\ q.hold = p.hold /\ q.bagIndex = p.bagIndex /\ q.board = p.board /\ q.over = p.over
      /\ q.landed = p.landed /\ q.linesCleared = p.linesCleared + lines
  BY <1>3 DEF Player
<1>9. QED
  BY <1>5, <1>7, <1>8 DEF Settles, InPlay, q

\* Garbage that is due comes up, and keeps the balance.
LEMMA ApplySettles ==
  ASSUME frame \in Nat, NEW p, p \in Player, ~InPlay(p), ShortQueue(p.garbageQueue),
         NEW n \in Int, Balanced(p, n)
  PROVE  LET q == ApplyReadyGarbage(p)
         IN  Settles(p, q) /\ Balanced(q, n)
<1> DEFINE due == DueCount(p.garbageQueue, frame)
           front == SubSeq(p.garbageQueue, 1, due)
           back == SubSeq(p.garbageQueue, due + 1, Len(p.garbageQueue))
           board == FoldLeft(PushGarbage, p.board, front)
           q == ApplyReadyGarbage(p)
<1>1. (front = <<>> /\ back = p.garbageQueue) \/ (front = p.garbageQueue /\ back = <<>>)
  BY DueIsAllOrNone
<1>2. q = [p EXCEPT !.board = board, !.garbageQueue = back, !.landed = p.landed + Pending(front)]
  BY DEF ApplyReadyGarbage
<1> HIDE DEF front, back
<1>3. ShortQueue(front) /\ ShortQueue(back)
  BY <1>1 DEF ShortQueue
<1>4. p.board \in SUBSET Cells /\ p.landed \in Nat /\ FullRows(p.board) = {}
  BY DEF Player, Balanced
<1>5. BoardW - 1 \in Nat
  BY BoardSize
<1>6. /\ board \in SUBSET Cells /\ FullRows(board) = {} /\ Pending(front) \in Nat
      /\ Cardinality(board) <= Cardinality(p.board) + (BoardW - 1) * Pending(front)
      /\ Pending(front) = 0 => board = p.board
  <2>1. CASE front = <<>>
    <3>1. board = p.board /\ Pending(front) = 0
      BY <2>1, PushNone, PendingNone
    <3>2. Cardinality(p.board) \in Nat
      BY <1>4, BoardCount
    <3> HIDE DEF board
    <3>3. QED
      BY <1>4, <1>5, <3>1, <3>2
  <2>2. ASSUME NEW b \in Batch, front = <<b>>
        PROVE  /\ board \in SUBSET Cells /\ FullRows(board) = {} /\ Pending(front) \in Nat
               /\ Cardinality(board) <= Cardinality(p.board) + (BoardW - 1) * Pending(front)
               /\ Pending(front) = 0 => board = p.board
    <3>1. b.amount \in Nat /\ b.amount # 0
      BY DEF Batch
    <3>2. board = PushGarbage(p.board, b) /\ Pending(front) = b.amount
      BY <2>2, <3>1, PushOne, PendingOne
    <3> HIDE DEF board
    <3>3. QED
      BY <1>4, <3>1, <3>2, PushCount
  <2>3. QED
    BY <1>3, <2>1, <2>2 DEF ShortQueue
<1> HIDE DEF board, q
<1>7. back \in Seq(Batch) /\ p.landed + Pending(front) \in Nat
  BY <1>3, <1>4, <1>6, ShortIsSeq
<1>8. q \in Player
  BY <1>2, <1>6, <1>7 DEF Player
<1>9. /\ q.active = p.active /\ q.garbageQueue = back /\ q.alive = p.alive
      /\ q.hold = p.hold /\ q.bagIndex = p.bagIndex /\ q.board = board /\ q.over = p.over
      /\ q.landed = p.landed + Pending(front) /\ q.linesCleared = p.linesCleared
  BY <1>2 DEF Player
<1>10. Balanced(q, n)
  <2> DEFINE cells == Cardinality(board)
             were == Cardinality(p.board)
             gone == BoardW * p.linesCleared
             came == (BoardW - 1) * p.landed
             come == (BoardW - 1) * Pending(front)
             all == (BoardW - 1) * (p.landed + Pending(front))
  <2>1. cells \in Nat /\ were \in Nat
    BY <1>4, <1>6, BoardCount
  <2>2. gone \in Nat /\ came \in Nat /\ come \in Nat /\ all \in Nat
    BY <1>4, <1>5, <1>6, <1>7, BoardSize, ProductIsNat DEF Player
  <2>3. all = came + come
    BY <1>4, <1>5, <1>6, Distributes
  <2>4. cells <= were + come /\ p.over \in Nat
    BY <1>6 DEF Player
  <2>5. were + gone + p.over <= 4 * n + came
    BY DEF Balanced
  <2>6. p.landed = 0 => were + gone + p.over = 4 * n + came
    BY DEF Balanced
  <2>7. q.landed = 0 => cells = were /\ come = 0 /\ p.landed = 0
    <3>1. q.landed = 0 => Pending(front) = 0 /\ p.landed = 0
      BY <1>4, <1>6, <1>9
    <3>2. (BoardW - 1) * 0 = 0
      BY <1>5
    <3>3. QED
      BY <1>6, <3>1, <3>2
  <2>8. Cardinality(q.board) = cells /\ BoardW * q.linesCleared = gone
        /\ (BoardW - 1) * q.landed = all /\ q.over = p.over /\ FullRows(q.board) = {}
    BY <1>6, <1>9
  <2> HIDE DEF cells, were, gone, came, come, all
  <2>9. /\ cells + gone + p.over <= 4 * n + all
        /\ q.landed = 0 => cells + gone + p.over = 4 * n + all
    BY <2>1, <2>2, <2>3, <2>4, <2>5, <2>6, <2>7
  <2>10. QED
    BY <2>8, <2>9 DEF Balanced
<1>11. QED
  BY <1>3, <1>8, <1>9, <1>10 DEF Settles, InPlay, q

\* A lock accounts for its piece, for the rows it clears, and for what comes up.
LEMMA ResolveLockSettles ==
  ASSUME frame \in Nat, NEW p, Playing(p), Good(p), ShortQueue(p.garbageQueue),
         NEW n \in Int, Balanced(p, n)
  PROVE  Settles(p, ResolveLock(p)) /\ Balanced(ResolveLock(p), n + 1)
<1> DEFINE stamped == LockPiece(p.board, p.active)
           lines == Cardinality(FullRows(stamped))
           out == Cardinality(PieceCells(p.active) \ Cells)
           cleared == ClearFullRows(stamped)
           locked == [p EXCEPT !.board = cleared, !.active = NoPiece,
                               !.spawnTicks = SpawnDelay,
                               !.lastAction = "none", !.lastKickIndex = -1,
                               !.over = p.over + out]
           missed == [locked EXCEPT !.combo = -1]
<1>1. ResolveLock(p) = IF lines > 0 THEN ScoreClear(locked, lines, TSpin(p))
                       ELSE ApplyReadyGarbage(missed)
  BY DEF ResolveLock
<1>2. p.active \in Piece /\ ~Collides(p.board, p.active) /\ p.board \in SUBSET Cells
  BY PlayingPiece DEF Playing, Good, Safe, Player
<1>3. /\ stamped \in SUBSET Cells /\ out \in Nat
      /\ Cardinality(stamped) + out = Cardinality(p.board) + 4
  BY <1>2, LockCount
<1> HIDE DEF stamped
<1>4. /\ cleared \in SUBSET Cells /\ lines \in Nat /\ FullRows(cleared) = {}
      /\ Cardinality(cleared) + BoardW * lines = Cardinality(stamped)
  BY <1>3, ClearCount
<1> HIDE DEF lines, out, cleared
<1>5. p.over + out \in Nat /\ SpawnDelay \in Nat
  <2>1. p.over \in Nat
    BY DEF Playing, Player
  <2>2. SpawnDelay \in Nat
    BY PlayfieldAssumption
  <2>3. QED
    BY <1>3, <2>1, <2>2
<1>6. locked \in Player
  <2>1. -1 \in Int
    OBVIOUS
  <2>2. p \in Player
    BY DEF Playing
  <2> HIDE DEF cleared
  <2>3. QED
    BY <1>4, <1>5, <2>1, <2>2, LockedType
<1>7. /\ locked.board = cleared /\ locked.active = NoPiece /\ locked.over = p.over + out
      /\ locked.linesCleared = p.linesCleared /\ locked.landed = p.landed
      /\ locked.garbageQueue = p.garbageQueue /\ locked.alive = p.alive
      /\ locked.hold = p.hold /\ locked.bagIndex = p.bagIndex
  BY DEF Playing, Player
<1> HIDE DEF locked
<1>8. missed \in Player
  <2>1. -1 \in Int
    OBVIOUS
  <2>2. QED
    BY <1>6, <2>1, MissedType
<1>9. /\ missed.board = cleared /\ missed.active = NoPiece /\ missed.over = p.over + out
      /\ missed.linesCleared = p.linesCleared /\ missed.landed = p.landed
      /\ missed.garbageQueue = p.garbageQueue /\ missed.alive = p.alive
      /\ missed.hold = p.hold /\ missed.bagIndex = p.bagIndex
  BY <1>6, <1>7 DEF Player
<1> HIDE DEF missed
<1>10. FullRows(p.board) = {}
  BY DEF Balanced
\* The sum with the piece and the cleared rows.
<1> DEFINE were == Cardinality(p.board)
           are == Cardinality(cleared)
           gone == BoardW * p.linesCleared
           go == BoardW * lines
           all == BoardW * (p.linesCleared + lines)
           came == (BoardW - 1) * p.landed
<1>11. were \in Nat /\ are \in Nat /\ gone \in Nat /\ go \in Nat /\ all \in Nat /\ came \in Nat
       /\ p.over \in Nat /\ p.linesCleared \in Nat
  <2>1. p.over \in Nat /\ p.linesCleared \in Nat /\ p.landed \in Nat
    BY DEF Playing, Player
  <2>2. BoardW \in Nat /\ BoardW - 1 \in Nat /\ p.linesCleared + lines \in Nat
    BY <1>4, <2>1, BoardSize
  <2>3. were \in Nat /\ are \in Nat
    BY <1>2, <1>4, BoardCount
  <2>4. QED
    BY <1>4, <2>1, <2>2, <2>3, ProductIsNat
<1>12. all = gone + go
  BY <1>4, <1>11, BoardSize, Distributes
<1>13. are + go + out = were + 4
  BY <1>3, <1>4
<1>14. were + gone + p.over <= 4 * n + came /\ (p.landed = 0 => were + gone + p.over = 4 * n + came)
  BY DEF Balanced
<1>15. /\ are + all + (p.over + out) <= 4 * (n + 1) + came
       /\ p.landed = 0 => are + all + (p.over + out) = 4 * (n + 1) + came
  <2> HIDE DEF were, are, gone, go, all, came
  <2>1. /\ were \in Int /\ are \in Int /\ gone \in Int /\ go \in Int /\ came \in Int
        /\ p.over \in Int /\ out \in Int
    BY <1>3, <1>11
  <2>2. /\ were + gone + p.over <= 4 * n + came
             => are + (gone + go) + (p.over + out) <= 4 * (n + 1) + came
        /\ were + gone + p.over = 4 * n + came
             => are + (gone + go) + (p.over + out) = 4 * (n + 1) + came
    BY <1>13, <2>1, LockSum
  <2>3. QED
    BY <1>12, <1>14, <2>2
<1>16. CASE lines > 0
  <2> DEFINE q == ScoreClear(locked, lines, TSpin(p))
  <2>1. /\ Settles(locked, q) /\ q.board = locked.board /\ q.over = locked.over
        /\ q.landed = locked.landed /\ q.linesCleared = locked.linesCleared + lines
    <3>1. lines \in Nat \ {0} /\ ~InPlay(locked) /\ ShortQueue(locked.garbageQueue)
      BY <1>4, <1>7, <1>16 DEF InPlay
    <3>2. QED
      BY <1>6, <3>1, TSpinType, ScoreClearSettles
  <2> HIDE DEF q
  <2>2. Settles(p, q)
    BY <1>7, <2>1 DEF Settles
  <2>3. Balanced(q, n + 1)
    BY <1>4, <1>7, <1>15, <2>1 DEF Balanced
  <2>4. QED
    BY <1>1, <1>16, <2>2, <2>3 DEF q
<1>17. CASE ~(lines > 0)
  <2> DEFINE q == ApplyReadyGarbage(missed)
  <2>1. lines = 0
    BY <1>4, <1>17
  <2>2. Balanced(missed, n + 1)
    <3>1. all = gone
      BY <1>11, <2>1
    <3>2. QED
      BY <1>4, <1>9, <1>15, <3>1 DEF Balanced
  <2>3. Settles(missed, q) /\ Balanced(q, n + 1)
    <3>1. ~InPlay(missed) /\ ShortQueue(missed.garbageQueue) /\ n + 1 \in Int
      BY <1>9 DEF InPlay
    <3>2. QED
      BY <1>8, <2>2, <3>1, ApplySettles
  <2> HIDE DEF q
  <2>4. Settles(p, q)
    BY <1>9, <2>3 DEF Settles
  <2>5. QED
    BY <1>1, <1>17, <2>3, <2>4 DEF q
<1>18. QED
  BY <1>16, <1>17

-----------------------------------------------------------------------------
(* The account of a player through a tick.                                 *)

Away(p) == (IF InPlay(p) THEN 1 ELSE 0) + (IF p.hold = Null THEN 0 ELSE 1)

\* How many pieces the player has locked.
LockedPieces(p) == p.bagIndex - Away(p)

Accounted(p) == ShortQueue(p.garbageQueue) /\ Balanced(p, LockedPieces(p))

Whole(p) ==
    /\ p \in Player /\ Good(p)
    /\ InPlay(p) => p.alive = TRUE
    /\ p.alive = TRUE => Accounted(p)

LEMMA LockedPiecesType ==
  ASSUME NEW p \in Player
  PROVE  LockedPieces(p) \in Int /\ Away(p) \in 0..2 /\ p.bagIndex \in Nat
  BY SMTT(30) DEF Player, LockedPieces, Away

LEMMA MovesKeepsWhole ==
  ASSUME NEW p, NEW q, Playing(p), Whole(p), Moves(p, q), Good(q)
  PROVE  Whole(q) /\ Playing(q)
<1>1. LockedPieces(q) = LockedPieces(p)
  BY DEF LockedPieces, Away, Moves, Same, Playing
<1>2. Accounted(p) /\ p.alive = TRUE
  BY DEF Whole, Playing
<1>3. Balanced(q, LockedPieces(q))
  BY <1>1, <1>2, BalancedFrame DEF Accounted, Moves, Same
<1>4. Accounted(q) /\ q.alive = TRUE
  BY <1>2, <1>3 DEF Accounted, Moves, Same
<1>5. QED
  BY <1>4 DEF Whole, Moves, Playing

LEMMA LockKeepsWhole ==
  ASSUME frame \in Nat, NEW p, Playing(p), Whole(p)
  PROVE  Whole(ResolveLock(p))
<1> DEFINE q == ResolveLock(p)
<1>1. Accounted(p) /\ p.alive = TRUE /\ Good(p) /\ p \in Player
  BY DEF Whole, Playing
<1>2. LockedPieces(p) \in Int /\ p.bagIndex \in Nat
  BY <1>1, LockedPiecesType
<1>3. Settles(p, q) /\ Balanced(q, LockedPieces(p) + 1)
  BY <1>1, <1>2, ResolveLockSettles DEF Accounted
<1>4. Good(q)
  BY <1>1, ResolveLockGood
<1> HIDE DEF q
<1>5. LockedPieces(q) = LockedPieces(p) + 1
  BY <1>2, <1>3 DEF LockedPieces, Away, Settles, Playing
<1>6. Accounted(q)
  BY <1>3, <1>5 DEF Accounted, Settles
<1>7. QED
  BY <1>3, <1>4, <1>6 DEF Whole, Settles, q

\* What the exchange sees of two states of a player is the same.
Kept(p, q) ==
    /\ q.garbageQueue = p.garbageQueue /\ q.combo = p.combo /\ q.backToBack = p.backToBack
    /\ q.linesCleared = p.linesCleared /\ q.attackSent = p.attackSent
    /\ q.landed = p.landed /\ q.spawnTicks = p.spawnTicks

LEMMA MovesKeeps ==
  ASSUME NEW p, NEW q, Moves(p, q)
  PROVE  Kept(p, q)
  BY DEF Moves, Same, Kept

LEMMA KeptThen ==
  ASSUME NEW p, NEW q, NEW r, Kept(p, q), Kept(q, r)
  PROVE  Kept(p, r)
  BY DEF Kept

\* A steered piece is where it was moved to, or locks there.
EndsWith(p, r, q) ==
    Whole(r) /\ Playing(r) /\ Kept(p, r) /\ (q = r \/ q = ResolveLock(r))

LEMMA HardDropEnds ==
  ASSUME NEW p, Playing(p), Whole(p)
  PROVE  \E r : EndsWith(p, r, HardDrop(p))
<1> DEFINE d == FreeDistance(p.board, p.active, 0, 1)
           dropped == SetLast([p EXCEPT !.active = Shifted(@, 0, d)], "hardDrop", -1)
<1>1. d > 0 => Good(dropped)
  BY DroppedGood DEF Whole
<1>2. Moves(p, dropped)
  <2>1. d \in Nat /\ "hardDrop" \in LastActions
    BY FreeDistanceFits DEF LastActions
  <2> HIDE DEF d
  <2>2. QED
    BY <2>1, DropMoves
<1>3. HardDrop(p) = ResolveLock(IF d > 0 THEN dropped ELSE p)
  BY DEF HardDrop
<1> HIDE DEF d, dropped
<1>4. d > 0 => Whole(dropped) /\ Playing(dropped)
  BY <1>1, <1>2, MovesKeepsWhole
<1>5. Kept(p, dropped) /\ Kept(p, p)
  BY <1>2, MovesKeeps DEF Kept
<1>6. CASE d > 0
  BY <1>3, <1>4, <1>5, <1>6 DEF EndsWith
<1>7. CASE ~(d > 0)
  BY <1>3, <1>5, <1>7 DEF EndsWith
<1>8. QED
  BY <1>6, <1>7

LEMMA RestEnds ==
  ASSUME NEW p, Playing(p), Whole(p)
  PROVE  \E r : EndsWith(p, r, Rest(p))
<1> DEFINE free == [p EXCEPT !.lockTicks = 0]
           waited == [p EXCEPT !.lockTicks = @ + 1]
<1>1. p.lockTicks + 1 \in Nat
  BY SMTT(30) DEF Playing, Player
<1>2. Moves(p, free) /\ Moves(p, waited)
  BY <1>1, CountersMove
<1>3. Good(free) /\ Good(waited)
  <2>1. /\ IsPlayer(free) /\ free.board = p.board /\ free.active = p.active
        /\ IsPlayer(waited) /\ waited.board = p.board /\ waited.active = p.active
        /\ Timed(free) /\ Timed(waited)
    BY DEF Whole, Good, IsPlayer, Fields, Timed
  <2>2. QED
    BY <2>1, GoodFrame DEF Whole
<1>4. Rest(p) = IF ~Collides(p.board, Shifted(p.active, 0, 1)) THEN free
                ELSE IF waited.lockTicks >= LockDelay THEN ResolveLock(waited) ELSE waited
  BY DEF Rest
<1> HIDE DEF free, waited
<1>5. Whole(free) /\ Playing(free) /\ Whole(waited) /\ Playing(waited)
  BY <1>2, <1>3, MovesKeepsWhole
<1>6. Kept(p, free) /\ Kept(p, waited)
  BY <1>2, MovesKeeps
<1>7. EndsWith(p, free, free) /\ EndsWith(p, waited, waited)
      /\ EndsWith(p, waited, ResolveLock(waited))
  BY <1>5, <1>6 DEF EndsWith
<1>8. QED
  BY <1>4, <1>7

LEMMA SteerEnds ==
  ASSUME NEW p, NEW input, Playing(p), Whole(p)
  PROVE  \E r : EndsWith(p, r, Steer(p, input))
<1> DEFINE turned == Turn(p, input)
           aimed == Sideways(turned, input)
           fallen == Fall(aimed, input)
<1>1. Whole(turned) /\ Playing(turned) /\ Kept(p, turned)
  <2>1. Moves(p, turned) /\ Good(turned)
    BY TurnMoves, TurnGood DEF Whole
  <2> HIDE DEF turned
  <2>2. QED
    BY <2>1, MovesKeepsWhole, MovesKeeps
<1> HIDE DEF turned
<1>2. Whole(aimed) /\ Playing(aimed) /\ Kept(p, aimed)
  <2>1. Moves(turned, aimed) /\ Good(aimed)
    BY <1>1, SidewaysMoves, SidewaysGood DEF Whole
  <2> HIDE DEF aimed
  <2>2. QED
    BY <1>1, <2>1, MovesKeepsWhole, MovesKeeps, KeptThen
<1>3. Steer(p, input) = IF "hardDrop" \in input.pressed THEN HardDrop(aimed) ELSE Rest(fallen)
  BY DEF Steer, turned
<1> HIDE DEF aimed
<1>4. Whole(fallen) /\ Playing(fallen) /\ Kept(p, fallen)
  <2>1. Moves(aimed, fallen) /\ Good(fallen)
    BY <1>2, FallMoves, FallGood DEF Whole
  <2> HIDE DEF fallen
  <2>2. QED
    BY <1>2, <2>1, MovesKeepsWhole, MovesKeeps, KeptThen
<1> HIDE DEF fallen
<1>5. PICK r : EndsWith(aimed, r, HardDrop(aimed))
  BY <1>2, HardDropEnds
<1>6. PICK s : EndsWith(fallen, s, Rest(fallen))
  BY <1>4, RestEnds
<1>7. EndsWith(p, r, HardDrop(aimed)) /\ EndsWith(p, s, Rest(fallen))
  BY <1>2, <1>4, <1>5, <1>6, KeptThen DEF EndsWith
<1>8. QED
  BY <1>3, <1>7

\* What a spawn leaves alone.
Spawns(p, q) ==
    /\ q \in Player /\ q.board = p.board /\ q.hold = p.hold
    /\ q.garbageQueue = p.garbageQueue /\ q.combo = p.combo /\ q.backToBack = p.backToBack
    /\ q.linesCleared = p.linesCleared /\ q.attackSent = p.attackSent
    /\ q.landed = p.landed /\ q.over = p.over /\ q.spawnTicks = p.spawnTicks
    /\ q.alive \in BOOLEAN
    /\ InPlay(q) <=> q.alive = TRUE

LEMMA SpawnSpawns ==
  ASSUME NEW p \in Player, p.alive = TRUE, NEW type \in PieceTypes
  PROVE  Spawns(p, Spawn(p, type)) /\ Spawn(p, type).bagIndex = p.bagIndex
<1> DEFINE piece == SpawnPiece(type)
           fresh == [p EXCEPT !.active = piece, !.holdUsed = FALSE, !.gravityTicks = 0,
                              !.lockTicks = 0, !.lockResets = 0,
                              !.lastAction = "none", !.lastKickIndex = -1]
           dead == [fresh EXCEPT !.alive = FALSE, !.active = NoPiece]
           q == Spawn(p, type)
<1>1. piece \in Piece
  <2>1. BoxSize(type) \in Int /\ BoardW \in Int /\ Hidden \in Int
    BY PlayfieldAssumption DEF BoxSize
  <2>2. (BoardW - BoxSize(type)) \div 2 \in Int
    BY <2>1
  <2>3. Hidden - 3 \in Int /\ Hidden - 2 \in Int /\ 0 \in Rotations
    BY <2>1 DEF Rotations
  <2>4. QED
    BY <2>2, <2>3 DEF SpawnPiece, Piece
<1>2. Spawn(p, type) = IF Collides(p.board, piece) THEN dead ELSE fresh
  BY DEF Spawn
<1> HIDE DEF piece
<1>3. fresh \in Player
  <2>1. -1 \in Int /\ "none" \in LastActions
    BY DEF LastActions
  <2>2. ASSUME NEW kick \in Int, NEW last \in LastActions
        PROVE  [p EXCEPT !.active = piece, !.holdUsed = FALSE, !.gravityTicks = 0,
                         !.lockTicks = 0, !.lockResets = 0,
                         !.lastAction = last, !.lastKickIndex = kick] \in Player
    BY <1>1 DEF Player
  <2>3. QED
    BY <2>1, <2>2
<1>4. /\ fresh.active = piece /\ fresh.alive = TRUE /\ fresh.board = p.board
      /\ fresh.hold = p.hold /\ fresh.garbageQueue = p.garbageQueue
      /\ fresh.linesCleared = p.linesCleared /\ fresh.landed = p.landed
      /\ fresh.over = p.over /\ fresh.bagIndex = p.bagIndex /\ fresh.combo = p.combo
      /\ fresh.backToBack = p.backToBack /\ fresh.attackSent = p.attackSent
      /\ fresh.spawnTicks = p.spawnTicks
  BY DEF Player
<1> HIDE DEF fresh
<1>5. dead \in Player
  BY <1>3 DEF Player
<1>6. /\ dead.active = NoPiece /\ dead.alive = FALSE /\ dead.board = fresh.board
      /\ dead.hold = fresh.hold /\ dead.garbageQueue = fresh.garbageQueue
      /\ dead.linesCleared = fresh.linesCleared /\ dead.landed = fresh.landed
      /\ dead.over = fresh.over /\ dead.bagIndex = fresh.bagIndex /\ dead.combo = fresh.combo
      /\ dead.backToBack = fresh.backToBack /\ dead.attackSent = fresh.attackSent
      /\ dead.spawnTicks = fresh.spawnTicks
  BY <1>3 DEF Player
<1> HIDE DEF dead, q
<1>7. piece # NoPiece
  BY <1>1, PieceIsNoNull
<1>8. Spawns(p, fresh)
  BY <1>3, <1>4, <1>7 DEF Spawns, InPlay
<1>9. Spawns(p, dead)
  BY <1>4, <1>5, <1>6 DEF Spawns, InPlay
<1>10. QED
  BY <1>2, <1>4, <1>6, <1>8, <1>9

\* The pieces the seed determines are there up to the bound.
Dealt == sequence \in [1..MaxPieces -> Types]

LEMMA SpawnNextSpawns ==
  ASSUME Dealt, NEW p \in Player, p.alive = TRUE, p.bagIndex + 1 <= MaxPieces
  PROVE  Spawns(p, SpawnNext(p)) /\ SpawnNext(p).bagIndex = p.bagIndex + 1
<1> DEFINE q == [p EXCEPT !.bagIndex = @ + 1]
           type == sequence[p.bagIndex + 1]
<1>1. p.bagIndex \in Nat
  BY DEF Player
<1>2. type \in PieceTypes
  <2>1. p.bagIndex + 1 \in 1..MaxPieces
    BY <1>1, PlayfieldAssumption, SMTT(30)
  <2>2. QED
    BY <2>1, PlayfieldAssumption DEF Dealt
<1>3. q \in Player
  <2>1. p.bagIndex + 1 \in Nat
    BY <1>1
  <2>2. \A n \in Nat : [p EXCEPT !.bagIndex = n] \in Player
    BY DEF Player
  <2>3. QED
    BY <2>1, <2>2
<1>4. /\ q.board = p.board /\ q.hold = p.hold /\ q.garbageQueue = p.garbageQueue
      /\ q.linesCleared = p.linesCleared /\ q.landed = p.landed /\ q.over = p.over
      /\ q.combo = p.combo /\ q.backToBack = p.backToBack /\ q.attackSent = p.attackSent
      /\ q.spawnTicks = p.spawnTicks /\ q.alive = p.alive /\ q.bagIndex = p.bagIndex + 1
  BY DEF Player
<1>5. SpawnNext(p) = Spawn(q, type)
  BY DEF SpawnNext
<1> HIDE DEF q, type
<1>6. Spawns(q, Spawn(q, type)) /\ Spawn(q, type).bagIndex = q.bagIndex
  BY <1>2, <1>3, <1>4, SpawnSpawns
<1>7. QED
  BY <1>4, <1>5, <1>6 DEF Spawns

\* A spawn brings the next piece into play: it is dealt, and not locked.
LEMMA SpawnKeepsWhole ==
  ASSUME Dealt, NEW p, Whole(p), p.alive = TRUE, ~InPlay(p), p.bagIndex + 1 <= MaxPieces
  PROVE  /\ Whole(SpawnNext(p)) /\ SpawnNext(p).hold = p.hold
         /\ SpawnNext(p).bagIndex = p.bagIndex + 1
         /\ SpawnNext(p).alive = TRUE => Playing(SpawnNext(p))
<1> DEFINE q == SpawnNext(p)
<1>1. p \in Player /\ Good(p) /\ Accounted(p)
  BY DEF Whole
<1>2. Spawns(p, q) /\ q.bagIndex = p.bagIndex + 1
  BY <1>1, SpawnNextSpawns
<1>3. Good(q)
  BY <1>1, SpawnNextGood
<1>4. p.bagIndex \in Nat
  BY <1>1 DEF Player
<1> HIDE DEF q
<1>5. q.alive = TRUE => LockedPieces(q) = LockedPieces(p)
  BY <1>2, <1>4 DEF LockedPieces, Away, Spawns
<1>6. q.alive = TRUE => Accounted(q)
  BY <1>1, <1>2, <1>5, BalancedFrame DEF Accounted, Spawns
<1>7. QED
  BY <1>2, <1>3, <1>6 DEF Whole, Spawns, Playing, q

\* A swap puts the piece in play away, and brings in the one held or the next.
LEMMA HoldKeepsWhole ==
  ASSUME Dealt, NEW p, Whole(p), Playing(p), p.hold = Null => p.bagIndex + 1 <= MaxPieces
  PROVE  Whole(DoHold(p)) /\ (DoHold(p).alive = TRUE => Playing(DoHold(p)))
<1> DEFINE held == [p EXCEPT !.hold = p.active.type]
           swapped == IF p.hold = Null THEN SpawnNext(held) ELSE Spawn(held, p.hold)
           spent == [swapped EXCEPT !.holdUsed = TRUE]
           q == SetLast(spent, "hold", -1)
<1>1. p \in Player /\ Good(p) /\ Accounted(p) /\ p.alive = TRUE /\ p.bagIndex \in Nat
  BY DEF Whole, Playing, Player
<1>2. p.active.type \in PieceTypes /\ p.active.type # Null
  <2>1. p.active.type \in PieceTypes
    BY PlayingPiece DEF Piece
  <2>2. QED
    BY <2>1, PlayfieldAssumption
<1>3. DoHold(p) = IF p.holdUsed THEN p ELSE q
  BY DEF DoHold
<1>4. held \in Player
  BY <1>1, <1>2 DEF Player
<1>5. /\ held.board = p.board /\ held.garbageQueue = p.garbageQueue
      /\ held.linesCleared = p.linesCleared /\ held.landed = p.landed /\ held.over = p.over
      /\ held.alive = TRUE /\ held.bagIndex = p.bagIndex /\ held.hold = p.active.type
  BY <1>1 DEF Player
<1> HIDE DEF held
<1>6. CASE p.holdUsed
  BY <1>3, <1>6
<1>7. CASE ~p.holdUsed
  <2>1. /\ Spawns(held, swapped)
        /\ swapped.bagIndex = IF p.hold = Null THEN p.bagIndex + 1 ELSE p.bagIndex
    <3>1. CASE p.hold = Null
      BY <1>4, <1>5, <3>1, SpawnNextSpawns
    <3>2. CASE p.hold # Null
      <4>1. p.hold \in PieceTypes
        BY <1>1, <3>2 DEF Player
      <4>2. QED
        BY <1>4, <1>5, <3>2, <4>1, SpawnSpawns
    <3>3. QED
      BY <3>1, <3>2
  <2> HIDE DEF swapped
  <2>2. spent \in Player
    BY <2>1 DEF Spawns, Player
  <2>3. /\ spent.board = swapped.board /\ spent.garbageQueue = swapped.garbageQueue
        /\ spent.linesCleared = swapped.linesCleared /\ spent.landed = swapped.landed
        /\ spent.over = swapped.over /\ spent.alive = swapped.alive
        /\ spent.bagIndex = swapped.bagIndex /\ spent.hold = swapped.hold
        /\ spent.active = swapped.active
    BY <2>1 DEF Spawns, Player
  <2> HIDE DEF spent
  <2>4. q \in Player
    <3>1. -1 \in Int /\ "hold" \in LastActions
      BY DEF LastActions
    <3>2. ASSUME NEW kick \in Int, NEW last \in LastActions
          PROVE  SetLast(spent, last, kick) \in Player
      BY <2>2 DEF SetLast, Player
    <3>3. QED
      BY <3>1, <3>2
  <2>5. /\ q.board = spent.board /\ q.garbageQueue = spent.garbageQueue
        /\ q.linesCleared = spent.linesCleared /\ q.landed = spent.landed
        /\ q.over = spent.over /\ q.alive = spent.alive
        /\ q.bagIndex = spent.bagIndex /\ q.hold = spent.hold
        /\ q.active = spent.active
    BY <2>2 DEF SetLast, Player
  <2>6. Good(q)
    BY <1>1, <1>3, <1>7, DoHoldGood
  <2> HIDE DEF q
  <2>7. q.alive = swapped.alive /\ (InPlay(q) <=> q.alive = TRUE)
    BY <2>1, <2>3, <2>5 DEF Spawns, InPlay
  <2>8. q.alive = TRUE => LockedPieces(q) = LockedPieces(p)
    BY <1>1, <1>2, <1>5, <2>1, <2>3, <2>5, <2>7 DEF LockedPieces, Away, Spawns, Playing
  <2>9. q.alive = TRUE => Accounted(q)
    <3>1. /\ q.board = p.board /\ q.linesCleared = p.linesCleared /\ q.over = p.over
          /\ q.landed = p.landed /\ q.garbageQueue = p.garbageQueue
      BY <1>5, <2>1, <2>3, <2>5 DEF Spawns
    <3>2. QED
      BY <1>1, <2>8, <3>1, BalancedFrame DEF Accounted
  <2>10. QED
    BY <1>3, <1>7, <2>4, <2>6, <2>7, <2>9 DEF Whole, Playing
<1>8. QED
  BY <1>6, <1>7

\* A tick.
\* A swap changes nothing of the exchange.
LEMMA HoldKeeps ==
  ASSUME Dealt, NEW p, Whole(p), Playing(p), p.hold = Null => p.bagIndex + 1 <= MaxPieces
  PROVE  /\ Kept(p, DoHold(p))
         /\ DoHold(p).alive = TRUE \/ ~InPlay(DoHold(p))
<1> DEFINE held == [p EXCEPT !.hold = p.active.type]
           swapped == IF p.hold = Null THEN SpawnNext(held) ELSE Spawn(held, p.hold)
           q == SetLast([swapped EXCEPT !.holdUsed = TRUE], "hold", -1)
<1>1. p \in Player /\ p.alive = TRUE
  BY DEF Whole, Playing
<1>2. p.active.type \in PieceTypes
  BY PlayingPiece DEF Piece
<1>3. DoHold(p) = IF p.holdUsed THEN p ELSE q
  BY DEF DoHold
<1>4. held \in Player
  BY <1>1, <1>2 DEF Player
<1>5. Kept(p, held) /\ held.alive = TRUE /\ held.bagIndex = p.bagIndex
  BY <1>1 DEF Player, Kept
<1> HIDE DEF held
<1>6. Spawns(held, swapped)
  <2>1. CASE p.hold = Null
    BY <1>4, <1>5, <2>1, SpawnNextSpawns
  <2>2. CASE p.hold # Null
    <3>1. p.hold \in PieceTypes
      BY <1>1, <2>2 DEF Player
    <3>2. QED
      BY <1>4, <1>5, <2>2, <3>1, SpawnSpawns
  <2>3. QED
    BY <2>1, <2>2
<1> HIDE DEF swapped
<1>7. Kept(swapped, q) /\ q.alive = swapped.alive /\ q.active = swapped.active
  BY <1>6 DEF Spawns, Kept, SetLast, Player
<1>8. Kept(held, swapped) /\ (swapped.alive = TRUE \/ ~InPlay(swapped))
  BY <1>6 DEF Spawns, Kept
<1> HIDE DEF q
<1>9. Kept(p, q) /\ (q.alive = TRUE \/ ~InPlay(q))
  BY <1>5, <1>7, <1>8, KeptThen DEF InPlay
<1>10. Kept(p, p)
  BY DEF Kept
<1>11. QED
  BY <1>1, <1>3, <1>9, <1>10

\* A piece is in play or comes into play in this tick.
MayPlay(p) == InPlay(p) \/ ~(p.spawnTicks > 0)

\* The ways a tick ends: waiting for the next piece, topping out, or with a piece
\* that is in play or has locked.
LEMMA StepEnds ==
  ASSUME frame \in Nat, Dealt, NEW p, NEW input, Whole(p), p.alive = TRUE,
         p.bagIndex + (IF InPlay(p) THEN 0 ELSE 1)
           + (IF "hold" \in input.pressed /\ p.hold = Null THEN 1 ELSE 0) <= MaxPieces
  PROVE  LET q == StepPlayer(p, input)
         IN  \/ ~MayPlay(p) /\ q = [p EXCEPT !.spawnTicks = @ - 1]
             \/ MayPlay(p) /\ Whole(q) /\ Kept(p, q) /\ q.alive = FALSE /\ ~InPlay(q)
             \/ MayPlay(p) /\ \E r : EndsWith(p, r, q)
<1> DEFINE spawned == IF InPlay(p) THEN p ELSE SpawnNext(p)
           held == IF "hold" \in input.pressed THEN DoHold(spawned) ELSE spawned
           waiting == [p EXCEPT !.spawnTicks = @ - 1]
           q == StepPlayer(p, input)
<1>1. p \in Player /\ p.bagIndex \in Nat /\ MaxPieces \in Nat
  BY PlayfieldAssumption DEF Whole, Player
<1>2. q = IF ~p.alive THEN p
          ELSE IF ~InPlay(p) /\ p.spawnTicks > 0 THEN waiting
          ELSE IF ~spawned.alive THEN spawned
          ELSE IF ~held.alive THEN held
          ELSE Steer(held, input)
  BY DEF StepPlayer
<1>3. /\ Whole(spawned) /\ (spawned.alive = TRUE => Playing(spawned)) /\ spawned.alive \in BOOLEAN
      /\ "hold" \in input.pressed /\ spawned.hold = Null => spawned.bagIndex + 1 <= MaxPieces
      /\ Kept(p, spawned) /\ (spawned.alive = FALSE => ~InPlay(spawned))
  <2>1. CASE InPlay(p)
    BY <1>1, <2>1, SMTT(30) DEF Playing, Player, Kept
  <2>2. CASE ~InPlay(p)
    <3>1. p.bagIndex + 1 <= MaxPieces
      BY <1>1, <2>2
    <3>2. /\ Whole(spawned) /\ spawned.hold = p.hold /\ spawned.bagIndex = p.bagIndex + 1
          /\ spawned.alive = TRUE => Playing(spawned)
      BY <2>2, <3>1, SpawnKeepsWhole
    <3>3. Spawns(p, spawned)
      BY <1>1, <2>2, <3>1, SpawnNextSpawns
    <3> HIDE DEF spawned
    <3>4. Kept(p, spawned) /\ (spawned.alive = FALSE => ~InPlay(spawned))
      BY <3>3 DEF Spawns, Kept
    <3>5. QED
      BY <1>1, <2>2, <3>2, <3>4 DEF Whole, Player
  <2>3. QED
    BY <2>1, <2>2
<1> HIDE DEF spawned, waiting
<1>4. spawned.alive = TRUE => /\ Whole(held) /\ held.alive \in BOOLEAN /\ Kept(p, held)
                              /\ held.alive = TRUE => Playing(held)
                              /\ held.alive = FALSE => ~InPlay(held)
  <2> SUFFICES ASSUME spawned.alive = TRUE
               PROVE  /\ Whole(held) /\ held.alive \in BOOLEAN /\ Kept(p, held)
                      /\ held.alive = TRUE => Playing(held)
                      /\ held.alive = FALSE => ~InPlay(held)
    OBVIOUS
  <2>1. Whole(held) /\ (held.alive = TRUE => Playing(held)) /\ Kept(spawned, held)
    <3>1. CASE "hold" \in input.pressed
      BY <1>3, <3>1, HoldKeepsWhole, HoldKeeps
    <3>2. CASE "hold" \notin input.pressed
      BY <1>3, <3>2 DEF Kept
    <3>3. QED
      BY <3>1, <3>2
  <2> HIDE DEF held
  <2>2. Kept(p, held)
    BY <1>3, <2>1, KeptThen
  <2>3. QED
    BY <2>1, <2>2 DEF Whole, Player
<1> HIDE DEF held, q
<1>5. CASE ~MayPlay(p)
  <2>1. q = waiting
    BY <1>2, <1>5 DEF MayPlay
  <2>2. QED
    BY <1>5, <2>1 DEF waiting, q
<1>6. CASE MayPlay(p)
  <2>1. CASE spawned.alive = FALSE
    <3>1. q = spawned
      BY <1>2, <1>6, <2>1 DEF MayPlay
    <3>2. QED
      BY <1>3, <1>6, <2>1, <3>1 DEF q
  <2>2. CASE spawned.alive = TRUE /\ held.alive = FALSE
    <3>1. q = held
      BY <1>2, <1>6, <2>2 DEF MayPlay
    <3>2. QED
      BY <1>4, <1>6, <2>2, <3>1 DEF q
  <2>3. CASE spawned.alive = TRUE /\ held.alive = TRUE
    <3>1. q = Steer(held, input)
      BY <1>2, <1>6, <2>3 DEF MayPlay
    <3>2. PICK r : EndsWith(held, r, Steer(held, input))
      BY <1>4, <2>3, SteerEnds
    <3>3. EndsWith(p, r, q)
      BY <1>4, <2>3, <3>1, <3>2, KeptThen DEF EndsWith
    <3>4. QED
      BY <1>6, <3>3 DEF q
  <2>4. QED
    BY <1>3, <1>4, <2>1, <2>2, <2>3
<1>7. QED
  BY <1>5, <1>6

LEMMA StepKeepsWhole ==
  ASSUME frame \in Nat, Dealt, NEW p, NEW input, Whole(p), p.alive = TRUE,
         p.bagIndex + (IF InPlay(p) THEN 0 ELSE 1)
           + (IF "hold" \in input.pressed /\ p.hold = Null THEN 1 ELSE 0) <= MaxPieces
  PROVE  Whole(StepPlayer(p, input))
<1> DEFINE waiting == [p EXCEPT !.spawnTicks = @ - 1]
           q == StepPlayer(p, input)
<1>1. p \in Player
  BY DEF Whole
<1>2. \/ ~MayPlay(p) /\ q = waiting
      \/ MayPlay(p) /\ Whole(q)
      \/ \E r : EndsWith(p, r, q)
  BY StepEnds
<1> HIDE DEF q
<1>3. CASE ~MayPlay(p) /\ q = waiting
  <2>0. ~InPlay(p) /\ p.spawnTicks > 0
    BY <1>3 DEF MayPlay
  <2>1. waiting \in Player
    <3>1. p.spawnTicks \in Nat
      BY <1>1 DEF Player
    <3>2. p.spawnTicks - 1 \in Nat
      BY <2>0, <3>1
    <3>3. \A n \in Nat : [p EXCEPT !.spawnTicks = n] \in Player
      BY <1>1 DEF Player
    <3>4. QED
      BY <3>2, <3>3
  <2>2. /\ waiting.board = p.board /\ waiting.active = p.active /\ waiting.hold = p.hold
        /\ waiting.garbageQueue = p.garbageQueue /\ waiting.bagIndex = p.bagIndex
        /\ waiting.linesCleared = p.linesCleared /\ waiting.landed = p.landed
        /\ waiting.over = p.over /\ waiting.alive = p.alive
    BY <1>1 DEF Player
  <2>3. Good(waiting)
    <3>1. IsPlayer(waiting) /\ Timed(waiting)
      BY DEF Whole, Good, IsPlayer, Fields, Timed
    <3> HIDE DEF waiting
    <3>2. QED
      BY <2>2, <3>1, GoodFrame DEF Whole
  <2> HIDE DEF waiting
  <2>4. LockedPieces(waiting) = LockedPieces(p)
    BY <2>2 DEF LockedPieces, Away, InPlay
  <2>5. Accounted(waiting)
    BY <2>2, <2>4, BalancedFrame DEF Accounted, Whole
  <2>6. Whole(waiting)
    <3>1. ~InPlay(waiting)
      BY <2>0, <2>2 DEF InPlay
    <3>2. QED
      BY <2>1, <2>3, <2>5, <3>1, Zenon DEF Whole
  <2>7. QED
    BY <1>3, <2>6 DEF q
<1>4. ASSUME NEW r, EndsWith(p, r, q)
      PROVE  Whole(q)
  BY <1>4, LockKeepsWhole DEF EndsWith
<1>5. QED
  BY <1>2, <1>3, <1>4 DEF q

-----------------------------------------------------------------------------
(* The account of a match.                                                 *)

\* The strengthened invariant: the types, the queue and the account of the player.
PlayerWhole == frame \in 0..MaxFrame /\ Dealt /\ Whole(player)

LEMMA BoardIsEmpty == FullRows({}) = {} /\ Cardinality({}) = 0
<1>1. \E x : x \in Columns
  BY BoardSize DEF Columns
<1>2. QED
  BY <1>1, FS_EmptySet DEF FullRows

LEMMA InitWhole == Init => PlayerWhole
<1> SUFFICES ASSUME Init PROVE PlayerWhole
  OBVIOUS
<1>1. frame \in 0..MaxFrame /\ Dealt
  BY PlayfieldAssumption DEF Init, Dealt
<1>2. Good(player)
  BY InitGood DEF PlayerGood
<1>3. NewPlayer \in Player
  <2>1. SpawnDelay \in Nat /\ -1 \in Int /\ "none" \in LastActions /\ <<>> \in Seq(Batch)
    BY PlayfieldAssumption DEF LastActions
  <2>2. QED
    BY <2>1 DEF NewPlayer, Player
<1>4. player = NewPlayer
  BY DEF Init
<1>5. ~InPlay(player) /\ player.alive = TRUE /\ player.garbageQueue = <<>>
  BY <1>4 DEF NewPlayer, InPlay
<1>6. Balanced(player, LockedPieces(player))
  <2>1. LockedPieces(player) = 0
    BY <1>4, <1>5 DEF LockedPieces, Away, NewPlayer
  <2>2. BoardW * 0 = 0 /\ (BoardW - 1) * 0 = 0
    BY BoardSize
  <2>3. player.board = {} /\ player.linesCleared = 0 /\ player.over = 0 /\ player.landed = 0
    BY <1>4 DEF NewPlayer
  <2>4. QED
    BY <2>1, <2>2, <2>3, BoardIsEmpty DEF Balanced
<1>7. QED
  BY <1>1, <1>2, <1>3, <1>4, <1>5, <1>6 DEF PlayerWhole, Whole, Accounted, ShortQueue

LEMMA HitWhole ==
  ASSUME NEW p, Whole(p), NEW q, ShortQueue(q)
  PROVE  Whole([p EXCEPT !.garbageQueue = q])
<1> DEFINE hit == [p EXCEPT !.garbageQueue = q]
<1>1. q \in Seq(Batch)
  BY ShortIsSeq
<1>2. p \in Player /\ Good(p)
  BY DEF Whole
<1>3. hit \in Player
  BY <1>1, <1>2 DEF Player
<1>4. /\ hit.board = p.board /\ hit.active = p.active /\ hit.hold = p.hold
      /\ hit.garbageQueue = q /\ hit.bagIndex = p.bagIndex
      /\ hit.linesCleared = p.linesCleared /\ hit.landed = p.landed
      /\ hit.over = p.over /\ hit.alive = p.alive
  BY <1>2 DEF Player
<1>5. Good(hit)
  <2>1. IsPlayer(hit) /\ Timed(hit)
    BY <1>2 DEF Good, IsPlayer, Fields, Timed
  <2> HIDE DEF hit
  <2>2. QED
    BY <1>2, <1>4, <2>1, GoodFrame
<1> HIDE DEF hit
<1>6. LockedPieces(hit) = LockedPieces(p)
  BY <1>4 DEF LockedPieces, Away, InPlay
<1>7. p.alive = TRUE => Accounted(hit)
  BY <1>4, <1>6, BalancedFrame DEF Accounted, Whole
<1>8. QED
  BY <1>3, <1>4, <1>5, <1>7 DEF Whole, InPlay, hit

LEMMA NextWhole == PlayerWhole /\ [Next]_vars => PlayerWhole'
<1> SUFFICES ASSUME PlayerWhole, [Next]_vars
             PROVE  PlayerWhole'
  OBVIOUS
<1>1. CASE UNCHANGED vars
  <2>1. player' = player /\ frame' = frame /\ sequence' = sequence
    BY <1>1 DEF vars
  <2>2. Whole(player')
    BY <2>1 DEF PlayerWhole
  <2>3. QED
    BY <2>1, <2>2 DEF PlayerWhole, Dealt, Whole
<1>2. ASSUME NEW input \in Inputs, Tick(input)
      PROVE  PlayerWhole'
  <2> DEFINE stepped == StepPlayer(player, input)
  <2>1. player.alive = TRUE /\ Whole(player) /\ frame \in 0..MaxFrame /\ Dealt
    BY <1>2 DEF Tick, PlayerWhole, Whole, Player
  <2>2. frame \in Nat /\ MaxFrame \in Nat
    BY <2>1, PlayfieldAssumption
  <2>3. Whole(stepped)
    BY <1>2, <2>1, <2>2, StepKeepsWhole DEF Tick, Deals
  <2>4. \/ player' = stepped
        \/ /\ stepped.alive
           /\ \E amount \in Attacks, hole \in Columns :
                player' = [stepped EXCEPT !.garbageQueue =
                               Receive(@, [amount |-> amount, holeColumn |-> hole,
                                           readyAtFrame |-> frame + GarbageDelay])]
    BY <1>2 DEF Tick
  <2> HIDE DEF stepped
  <2>5. Whole(player')
    <3>1. CASE player' = stepped
      BY <2>3, <3>1
    <3>2. ASSUME stepped.alive, NEW amount \in Attacks, NEW hole \in Columns,
                 player' = [stepped EXCEPT !.garbageQueue =
                                Receive(@, [amount |-> amount, holeColumn |-> hole,
                                            readyAtFrame |-> frame + GarbageDelay])]
          PROVE  Whole(player')
      <4> DEFINE b == [amount |-> amount, holeColumn |-> hole,
                       readyAtFrame |-> frame + GarbageDelay]
      <4>1. GarbageDelay \in Nat /\ amount \in Nat \ {0}
        BY PlayfieldAssumption
      <4>2. b \in Batch
        BY <2>2, <4>1 DEF Batch
      <4>3. stepped.alive = TRUE /\ ShortQueue(stepped.garbageQueue)
        BY <2>3, <3>2 DEF Whole, Accounted, Player
      <4> DEFINE q == Receive(stepped.garbageQueue, b)
      <4>4. player' = [stepped EXCEPT !.garbageQueue = q]
        BY <3>2
      <4> HIDE DEF b
      <4>5. ShortQueue(q)
        BY <4>2, <4>3, ReceiveKeepsShort
      <4> HIDE DEF q
      <4>6. QED
        BY <2>3, <4>4, <4>5, HitWhole
    <3>3. QED
      BY <2>4, <3>1, <3>2
  <2>6. frame' \in 0..MaxFrame
    <3>1. frame' = Capped(frame + 1)
      BY <1>2 DEF Tick
    <3>2. QED
      BY <2>1, <2>2, <3>1 DEF Capped
  <2>7. sequence' = sequence
    BY <1>2 DEF Tick
  <2>8. QED
    BY <2>1, <2>5, <2>6, <2>7 DEF PlayerWhole, Dealt, Whole
<1>3. QED
  BY <1>1, <1>2 DEF Next

\* match.ts: the player has the fields and the types of the source, whatever happens.
THEOREM PlayfieldIsTyped == Spec => []TypeOK
<1>1. PlayerWhole => TypeOK
  BY DEF PlayerWhole, Dealt, Whole, TypeOK
<1>2. QED
  BY <1>1, InitWhole, NextWhole, PTL DEF Spec

\* match.ts, board.ts: every cell of a locked piece is on the board, went with a
\* cleared row or stuck out above it, garbage adds no more than it brings, and no
\* full row outlives the lock that filled it.
THEOREM NoCellIsLost == Spec => []CellsConserved
<1>1. PlayerWhole => CellsConserved
  BY DEF PlayerWhole, Whole, Accounted, Balanced, LockedPieces, Away, CellsConserved
<1>2. QED
  BY <1>1, InitWhole, NextWhole, PTL DEF Spec

\* match.ts: a piece whose player lets go of every key locks, in at most the time
\* that gravity takes to the floor and the lock delay, whatever was done before.
THEOREM ThePieceLocks == Spec => []IdlePieceLocks
<1> DEFINE Inv == PlayerWhole /\ PlayerGood /\ AtRest(player)
<1>1. Inv => IdlePieceLocks
  <2>1. PlayerWhole /\ AtRest(player) /\ InPlay(player) => Idling(player)
    BY DEF PlayerWhole, Whole, Idling, Playing
  <2>2. QED
    BY <2>1, IdlingLocks DEF PlayerWhole
<1>2. Init => Inv
  <2>1. Init => AtRest(player)
    BY DEF Init, NewPlayer, AtRest
  <2>2. QED
    BY <2>1, InitWhole, InitGood
<1>3. Inv /\ [Next]_vars => Inv'
  BY NextWhole, NextGood, NextTimes
<1> HIDE DEF Inv
<1>4. QED
  BY <1>1, <1>2, <1>3, PTL DEF Spec

-----------------------------------------------------------------------------
(* A tick is a play of Duel.                                               *)

-----------------------------------------------------------------------------
(* The rules of the exchange, as Duel states them and as the board has them. *)

LEMMA SameAttack ==
  ASSUME NEW lines, NEW tspin, NEW mini
  PROVE  D!ClassifyClear(lines, tspin, mini) = ClassifyClear(lines, tspin, mini)
  BY DEF D!ClassifyClear, ClassifyClear, D!SpinKinds, SpinKinds, D!PlainKinds, PlainKinds

LEMMA SameB2B ==
  ASSUME NEW kind
  PROVE  D!IsB2BClear(kind) = IsB2BClear(kind) /\ D!BreaksB2B(kind) = BreaksB2B(kind)
  BY DEF D!IsB2BClear, IsB2BClear, D!BreaksB2B, BreaksB2B, D!SpinKinds, SpinKinds

LEMMA SameAmount ==
  ASSUME NEW kind, NEW b2b, NEW combo, NEW perfect
  PROVE  D!AttackFor(kind, b2b, combo, perfect) = AttackFor(kind, b2b, combo, perfect)
<1>1. D!BaseAttack = BaseAttack
  BY DEF D!BaseAttack, BaseAttack, D!ClearKinds, ClearKinds, D!SpinKinds, SpinKinds,
         D!PlainKinds, PlainKinds
<1>2. D!ComboBonus(combo) = ComboBonus(combo)
  BY DEF D!ComboBonus, ComboBonus, D!ComboTable, ComboTable
<1>3. D!IsB2BClear(kind) = IsB2BClear(kind)
  BY SameB2B
<1>4. D!B2BBonus = B2BBonus /\ D!PerfectClearBonus = PerfectClearBonus
  BY DEF D!B2BBonus, B2BBonus, D!PerfectClearBonus, PerfectClearBonus
<1>5. QED
  BY <1>1, <1>2, <1>3, <1>4 DEF D!AttackFor, AttackFor

LEMMA SamePending ==
  ASSUME NEW q
  PROVE  D!Pending(q) = Pending(q)
  BY DEF D!Pending, Pending, D!FoldLeft, FoldLeft, D!MapThenFoldSet, MapThenFoldSet, D!Max, Max

LEMMA SameCancel ==
  ASSUME NEW q, NEW amount
  PROVE  D!CancelIncoming(q, amount) = CancelIncoming(q, amount)
  BY DEF D!CancelIncoming, CancelIncoming, D!FoldLeft, FoldLeft, D!MapThenFoldSet, MapThenFoldSet,
         D!Max, Max

LEMMA SameReceive ==
  ASSUME NEW q, NEW b
  PROVE  D!Receive(q, b) = Receive(q, b)
  BY SameCancel DEF D!Receive, Receive

LEMMA SameDue ==
  ASSUME NEW q, NEW f
  PROVE  D!DueCount(q, f) = DueCount(q, f)
  BY DEF D!DueCount, DueCount

-----------------------------------------------------------------------------
(* The queue without its holes.                                            *)

Bare(b) == [amount |-> b.amount, readyAtFrame |-> b.readyAtFrame]

Strip(q) == [i \in 1..Len(q) |-> [amount |-> q[i].amount, readyAtFrame |-> q[i].readyAtFrame]]

LEMMA StripNone == Strip(<<>>) = <<>>
  BY DEF Strip

LEMMA StripOne ==
  ASSUME NEW b
  PROVE  Strip(<<b>>) = <<Bare(b)>>
  BY DEF Strip, Bare

LEMMA StripCancel ==
  ASSUME NEW q, ShortQueue(q), NEW amount \in Nat
  PROVE  CancelIncoming(Strip(q), amount) =
           [left |-> CancelIncoming(q, amount).left,
            queue |-> Strip(CancelIncoming(q, amount).queue)]
<1>1. CASE q = <<>>
  BY <1>1, StripNone, CancelNone
<1>2. ASSUME NEW b \in Batch, q = <<b>>
      PROVE  CancelIncoming(Strip(q), amount) =
               [left |-> CancelIncoming(q, amount).left,
                queue |-> Strip(CancelIncoming(q, amount).queue)]
  <2> DEFINE taken == IF b.amount < amount THEN b.amount ELSE amount
             bare == Bare(b)
             rest == [b EXCEPT !.amount = @ - taken]
             little == [bare EXCEPT !.amount = @ - taken]
  <2>1. bare.amount = b.amount
    BY DEF Bare
  <2>2. CancelIncoming(q, amount) =
          [left |-> amount - taken,
           queue |-> IF taken = b.amount THEN <<>> ELSE Append(<<>>, rest)]
    BY <1>2, CancelOne
  <2>3. CancelIncoming(<<bare>>, amount) =
          [left |-> amount - taken,
           queue |-> IF taken = b.amount THEN <<>> ELSE Append(<<>>, little)]
    BY <2>1, CancelOne
  <2>4. Strip(q) = <<bare>>
    BY <1>2, StripOne
  <2>5. Bare(rest) = little
    BY DEF Bare, Batch
  <2> HIDE DEF taken, bare, rest, little
  <2>6. Append(<<>>, rest) = <<rest>> /\ Append(<<>>, little) = <<little>>
    OBVIOUS
  <2>7. Strip(<<rest>>) = <<little>>
    BY <2>5, StripOne
  <2>8. Strip(CancelIncoming(q, amount).queue) = CancelIncoming(<<bare>>, amount).queue
    BY <2>2, <2>3, <2>6, <2>7, StripNone
  <2>9. CancelIncoming(q, amount).left = amount - taken
    BY <2>2
  <2>10. QED
    BY <2>3, <2>4, <2>8, <2>9
<1>3. QED
  BY <1>1, <1>2 DEF ShortQueue

LEMMA StripReceive ==
  ASSUME NEW q, ShortQueue(q), NEW b \in Batch
  PROVE  Receive(Strip(q), Bare(b)) = Strip(Receive(q, b))
<1> DEFINE c == CancelIncoming(q, b.amount)
           rest == [b EXCEPT !.amount = c.left]
           little == [Bare(b) EXCEPT !.amount = c.left]
<1>1. b.amount \in Nat /\ Bare(b).amount = b.amount
  BY DEF Batch, Bare
<1>2. c.left > 0 => c.queue = <<>>
  BY <1>1, CancelKeepsShort
<1>3. c.left \in Nat
  <2>1. c.left \in 0..b.amount
    BY <1>1, CancelKeepsShort
  <2> HIDE DEF c
  <2>2. QED
    BY <1>1, <2>1
<1>4. Receive(q, b) = IF c.left = 0 THEN c.queue ELSE Append(c.queue, rest)
  BY DEF Receive
<1>5. Receive(Strip(q), Bare(b)) =
        IF c.left = 0 THEN Strip(c.queue) ELSE Append(Strip(c.queue), little)
  BY <1>1, StripCancel DEF Receive
<1>6. Bare(rest) = little
  BY DEF Bare, Batch
<1> HIDE DEF c, rest, little
<1>7. Append(<<>>, rest) = <<rest>> /\ Append(<<>>, little) = <<little>>
  OBVIOUS
<1>8. Strip(<<rest>>) = <<little>>
  BY <1>6, StripOne
<1>9. CASE c.left = 0
  BY <1>4, <1>5, <1>9
<1>10. CASE c.left # 0
  <2>1. c.queue = <<>> /\ Strip(c.queue) = <<>>
    BY <1>2, <1>3, <1>10, StripNone
  <2>2. QED
    BY <1>4, <1>5, <1>7, <1>8, <1>10, <2>1
<1>11. QED
  BY <1>9, <1>10

\* What is due, and what is not, is the same with and without the holes.
LEMMA StripDue ==
  ASSUME NEW q, ShortQueue(q), frame \in Nat
  PROVE  LET due == DueCount(q, frame)
             front == SubSeq(q, 1, due)
             back == SubSeq(q, due + 1, Len(q))
             bareDue == DueCount(Strip(q), frame)
         IN  /\ SubSeq(Strip(q), bareDue + 1, Len(Strip(q))) = Strip(back)
             /\ Pending(SubSeq(Strip(q), 1, bareDue)) = Pending(front)
<1> DEFINE due == DueCount(q, frame)
           front == SubSeq(q, 1, due)
           back == SubSeq(q, due + 1, Len(q))
           s == Strip(q)
           bareDue == DueCount(s, frame)
           bareFront == SubSeq(s, 1, bareDue)
           bareBack == SubSeq(s, bareDue + 1, Len(s))
<1>1. CASE q = <<>>
  <2>1. s = q
    BY <1>1, StripNone
  <2>2. (front = <<>> /\ back = q) \/ (front = q /\ back = <<>>)
    BY DueIsAllOrNone
  <2>3. bareFront = front /\ bareBack = back
    BY <2>1
  <2> HIDE DEF front, back, bareFront, bareBack, s
  <2>4. bareBack = Strip(back) /\ Pending(bareFront) = Pending(front)
    BY <1>1, <2>2, <2>3, StripNone
  <2>5. QED
    BY <2>4 DEF front, back, bareFront, bareBack, s
<1>2. ASSUME NEW b \in Batch, q = <<b>>
      PROVE  bareBack = Strip(back) /\ Pending(bareFront) = Pending(front)
  <2> DEFINE Due(n) == /\ \A i \in 1..n : q[i].readyAtFrame <= frame
                       /\ n < Len(q) => q[n + 1].readyAtFrame > frame
             BareDue(n) == /\ \A i \in 1..n : s[i].readyAtFrame <= frame
                           /\ n < Len(s) => s[n + 1].readyAtFrame > frame
  <2>1. due = CHOOSE n \in 0..Len(q) : Due(n)
    BY DEF DueCount
  <2>2. bareDue = CHOOSE n \in 0..Len(s) : BareDue(n)
    BY DEF DueCount
  <2>3. /\ s = <<Bare(b)>> /\ Len(s) = 1 /\ Len(q) = 1
        /\ s[1].readyAtFrame = q[1].readyAtFrame /\ q[1].readyAtFrame \in Nat
        /\ b.amount \in Nat /\ Bare(b).amount = b.amount
    BY <1>2, StripOne DEF Bare, Batch
  <2> HIDE DEF s
  <2>4. /\ (Due(0) <=> BareDue(0)) /\ (Due(1) <=> BareDue(1))
        /\ ~(Due(0) /\ Due(1)) /\ (Due(0) \/ Due(1))
    BY <2>3
  <2>5. 0..Len(q) = {0, 1} /\ 0..Len(s) = {0, 1} /\ 0..1 = {0, 1}
    BY <2>3
  <2>6. \/ due = 0 /\ Due(0)
        \/ due = 1 /\ Due(1)
    <3> HIDE DEF Due, due
    <3>1. due = CHOOSE n \in {0, 1} : Due(n)
      BY <2>1, <2>5
    <3>2. QED
      BY <2>4, <3>1
  <2>7. \/ bareDue = 0 /\ BareDue(0)
        \/ bareDue = 1 /\ BareDue(1)
    <3> HIDE DEF Due, BareDue, bareDue
    <3>1. bareDue = CHOOSE n \in {0, 1} : BareDue(n)
      BY <2>2, <2>5
    <3>2. QED
      BY <2>4, <3>1
  <2>8. bareDue = due /\ (due = 0 \/ due = 1)
    <3> HIDE DEF Due, BareDue, bareDue, due
    <3>1. QED
      BY <2>4, <2>6, <2>7
  <2> HIDE DEF due, bareDue, Due, BareDue
  <2>9. /\ SubSeq(q, 1, 0) = <<>> /\ SubSeq(q, 1, 1) = q /\ SubSeq(q, 2, 1) = <<>>
        /\ SubSeq(s, 1, 0) = <<>> /\ SubSeq(s, 1, 1) = s /\ SubSeq(s, 2, 1) = <<>>
    <3>1. q \in Seq(Batch)
      BY <1>2
    <3>2. s \in Seq({Bare(b)})
      <4>1. \A x : <<x>> \in Seq({x})
        OBVIOUS
      <4>2. QED
        BY <2>3, <4>1
    <3>3. SubSeq(q, 1, 0) = <<>> /\ SubSeq(q, 1, 1) = q /\ SubSeq(q, 2, 1) = <<>>
      <4>1. Len(q) = 1
        BY <2>3
      <4>2. QED
        BY <3>1, <4>1, SubSeqEmpty, SubSeqFull
    <3>4. SubSeq(s, 1, 0) = <<>> /\ SubSeq(s, 1, 1) = s /\ SubSeq(s, 2, 1) = <<>>
      <4>1. Len(s) = 1
        BY <2>3
      <4>2. QED
        BY <3>2, <4>1, SubSeqEmpty, SubSeqFull
    <3>5. QED
      BY <3>3, <3>4
  <2>10. Pending(q) = b.amount /\ Pending(s) = b.amount
    BY <1>2, <2>3, PendingOne
  <2>11. Strip(q) = s /\ Strip(<<>>) = <<>>
    BY StripNone DEF s
  <2>12. CASE due = 0
    <3>1. front = SubSeq(q, 1, 0) /\ back = SubSeq(q, 1, 1)
          /\ bareFront = SubSeq(s, 1, 0) /\ bareBack = SubSeq(s, 1, 1)
      BY <2>3, <2>8, <2>12
    <3> HIDE DEF front, back, bareFront, bareBack
    <3>2. QED
      BY <2>9, <2>11, <3>1
  <2>13. CASE due = 1
    <3>1. front = SubSeq(q, 1, 1) /\ back = SubSeq(q, 2, 1)
          /\ bareFront = SubSeq(s, 1, 1) /\ bareBack = SubSeq(s, 2, 1)
      BY <2>3, <2>8, <2>13
    <3> HIDE DEF front, back, bareFront, bareBack
    <3>2. QED
      BY <2>9, <2>10, <2>11, <3>1
  <2>14. QED
    BY <2>8, <2>12, <2>13
<1>3. QED
  BY <1>1, <1>2 DEF ShortQueue

\* A piece completes four rows at most.
LEMMA FourRowsAtMost ==
  ASSUME NEW board \in SUBSET Cells, FullRows(board) = {}, NEW a \in Piece
  PROVE  Cardinality(FullRows(LockPiece(board, a))) \in 0..4
<1> DEFINE cells == PieceCells(a)
           full == FullRows(LockPiece(board, a))
           RowOf == [c \in cells |-> c[2]]
           rows == {RowOf[c] : c \in cells}
<1>1. IsFiniteSet(cells) /\ Cardinality(cells) = 4
  BY PieceHasFourCells
<1>2. RowOf \in Surjection(cells, rows)
  BY DEF Surjection
<1>3. IsFiniteSet(rows) /\ Cardinality(rows) <= 4
  BY <1>1, <1>2, FS_Surjection
<1>4. \A y \in full : y \in rows
  <2> SUFFICES ASSUME NEW y \in full PROVE y \in rows
    OBVIOUS
  <2>1. y \in 0..BoardH - 1 /\ \A x \in Columns : <<x, y>> \in LockPiece(board, a)
    BY DEF FullRows
  <2>2. PICK x \in Columns : <<x, y>> \notin board
    BY <2>1 DEF FullRows
  <2>3. <<x, y>> \in cells
    BY <2>1, <2>2 DEF LockPiece
  <2>4. RowOf[<<x, y>>] = y
    BY <2>3
  <2> HIDE DEF RowOf
  <2>5. QED
    BY <2>3, <2>4
<1>5. full \in SUBSET rows
  BY <1>4
<1> HIDE DEF full, rows
<1>6. IsFiniteSet(full) /\ Cardinality(full) <= Cardinality(rows)
  BY <1>3, <1>5, FS_Subset
<1>7. Cardinality(full) \in Nat /\ Cardinality(rows) \in Nat
  BY <1>3, <1>6, FS_CardinalityType
<1>8. Cardinality(full) \in 0..4
  BY <1>3, <1>6, <1>7
<1>9. QED
  BY <1>8 DEF full

-----------------------------------------------------------------------------
(* A player as Duel sees it.                                               *)

\* With a piece in play or not.
Shown(p, active) ==
    [alive |-> p.alive, active |-> active, spawnTicks |-> p.spawnTicks,
     combo |-> p.combo, backToBack |-> p.backToBack, attackSent |-> p.attackSent,
     garbageQueue |-> Strip(p.garbageQueue), landed |-> p.landed,
     cancelled |-> 0, absorbed |-> 0]

ExchangeFields == {"alive", "active", "spawnTicks", "combo", "backToBack", "attackSent",
                   "garbageQueue", "landed", "cancelled", "absorbed"}

LEMMA ShownFields ==
  ASSUME NEW p, NEW active
  PROVE  LET v == Shown(p, active)
         IN  /\ v = [x \in ExchangeFields |-> v[x]]
             /\ v.alive = p.alive /\ v.active = active /\ v.spawnTicks = p.spawnTicks
             /\ v.combo = p.combo /\ v.backToBack = p.backToBack
             /\ v.attackSent = p.attackSent /\ v.garbageQueue = Strip(p.garbageQueue)
             /\ v.landed = p.landed /\ v.cancelled = 0 /\ v.absorbed = 0
  BY DEF Shown, ExchangeFields

LEMMA IsShown ==
  ASSUME NEW p, NEW active, NEW v, v = [x \in ExchangeFields |-> v[x]],
         v.alive = p.alive, v.active = active, v.spawnTicks = p.spawnTicks,
         v.combo = p.combo, v.backToBack = p.backToBack,
         v.attackSent = p.attackSent, v.garbageQueue = Strip(p.garbageQueue),
         v.landed = p.landed, v.cancelled = 0, v.absorbed = 0
  PROVE  v = Shown(p, active)
<1> DEFINE w == Shown(p, active)
<1>1. /\ w = [x \in ExchangeFields |-> w[x]]
      /\ w.alive = p.alive /\ w.active = active /\ w.spawnTicks = p.spawnTicks
      /\ w.combo = p.combo /\ w.backToBack = p.backToBack
      /\ w.attackSent = p.attackSent /\ w.garbageQueue = Strip(p.garbageQueue)
      /\ w.landed = p.landed /\ w.cancelled = 0 /\ w.absorbed = 0
  BY ShownFields
<1> HIDE DEF w
<1>2. \A x \in ExchangeFields : v[x] = w[x]
  BY <1>1 DEF ExchangeFields
<1>3. [x \in ExchangeFields |-> v[x]] = [x \in ExchangeFields |-> w[x]]
  BY <1>2
<1>4. v = w
  BY <1>1, <1>3
<1>5. QED
  BY <1>4 DEF w

\* The history of what was cancelled is forgotten.
LEMMA ForgottenIsShown ==
  ASSUME NEW p, NEW active, NEW u, u = [x \in ExchangeFields |-> u[x]],
         u.alive = p.alive, u.active = active, u.spawnTicks = p.spawnTicks,
         u.combo = p.combo, u.backToBack = p.backToBack,
         u.attackSent = p.attackSent, u.garbageQueue = Strip(p.garbageQueue),
         u.landed = p.landed
  PROVE  Forget(u) = Shown(p, active)
<1> DEFINE w == Forget(u)
<1>1. /\ w = [x \in ExchangeFields |-> w[x]]
      /\ w.alive = p.alive /\ w.active = active /\ w.spawnTicks = p.spawnTicks
      /\ w.combo = p.combo /\ w.backToBack = p.backToBack
      /\ w.attackSent = p.attackSent /\ w.garbageQueue = Strip(p.garbageQueue)
      /\ w.landed = p.landed /\ w.cancelled = 0 /\ w.absorbed = 0
  BY DEF ExchangeFields, Forget
<1> HIDE DEF w
<1>2. w = Shown(p, active)
  BY <1>1, IsShown
<1>3. QED
  BY <1>2 DEF w

\* A clear does to the exchange what Duel says.
LEMMA ScoreClearIsDuels ==
  ASSUME NEW p \in Player, ShortQueue(p.garbageQueue), NEW active,
         NEW lines \in 1..4, NEW spin, spin.tspin \in BOOLEAN, spin.mini \in BOOLEAN
  PROVE  LET clear == [lines |-> lines, tspin |-> spin.tspin, mini |-> spin.mini,
                       perfect |-> p.board = {}]
         IN  Forget(D!ScoreClear(Shown(p, active), clear).player)
               = Shown(ScoreClear(p, lines, spin), active)
<1> DEFINE clear == [lines |-> lines, tspin |-> spin.tspin, mini |-> spin.mini,
                     perfect |-> p.board = {}]
           kind == ClassifyClear(lines, spin.tspin, spin.mini)
           amount == AttackFor(kind, p.backToBack, p.combo + 1, p.board = {})
           cancel == CancelIncoming(p.garbageQueue, amount)
           bare == CancelIncoming(Strip(p.garbageQueue), amount)
           b2b == IsB2BClear(kind) \/ (p.backToBack /\ ~BreaksB2B(kind))
           v == Shown(p, active)
           q == ScoreClear(p, lines, spin)
<1>1. amount \in Nat
  <2>1. (p.board = {}) \in BOOLEAN /\ lines \in Nat \ {0}
    OBVIOUS
  <2>2. p.backToBack \in BOOLEAN /\ p.combo + 1 \in Int
    BY DEF Player
  <2>3. QED
    BY <2>1, <2>2, AttackIsNat
<1>2. q = [p EXCEPT !.linesCleared = p.linesCleared + lines, !.combo = p.combo + 1,
                    !.backToBack = b2b, !.garbageQueue = cancel.queue,
                    !.attackSent = p.attackSent + cancel.left]
  BY DEF ScoreClear
<1>3. /\ v.backToBack = p.backToBack /\ v.combo = p.combo /\ v.attackSent = p.attackSent
      /\ v.garbageQueue = Strip(p.garbageQueue)
  BY DEF Shown
<1>4. /\ clear.lines = lines /\ clear.tspin = spin.tspin /\ clear.mini = spin.mini
      /\ clear.perfect = (p.board = {})
  OBVIOUS
<1>5. D!ScoreClear(v, clear).player =
        [v EXCEPT !.combo = p.combo + 1, !.backToBack = b2b, !.garbageQueue = bare.queue,
                  !.attackSent = p.attackSent + bare.left,
                  !.cancelled = v.cancelled + amount - bare.left]
  <2>1. D!ClassifyClear(clear.lines, clear.tspin, clear.mini) = kind
    BY <1>4, SameAttack
  <2>2. D!AttackFor(kind, v.backToBack, v.combo + 1, clear.perfect) = amount
    BY <1>3, <1>4, SameAmount
  <2>3. D!CancelIncoming(v.garbageQueue, amount) = bare
    BY <1>3, SameCancel
  <2>4. D!IsB2BClear(kind) = IsB2BClear(kind) /\ D!BreaksB2B(kind) = BreaksB2B(kind)
    BY SameB2B
  <2> HIDE DEF clear, kind, amount, bare, v
  <2>5. D!ScoreClear(v, clear).player =
          [v EXCEPT !.combo = v.combo + 1,
                    !.backToBack = D!IsB2BClear(kind) \/ (v.backToBack /\ ~D!BreaksB2B(kind)),
                    !.garbageQueue = bare.queue,
                    !.attackSent = v.attackSent + bare.left,
                    !.cancelled = v.cancelled + amount - bare.left]
    BY <2>1, <2>2, <2>3 DEF D!ScoreClear
  <2>6. QED
    BY <1>3, <2>4, <2>5
<1>6. bare.left = cancel.left /\ bare.queue = Strip(cancel.queue)
  BY <1>1, StripCancel
<1> HIDE DEF amount, cancel, bare, b2b, clear, q
<1>7. /\ q.combo = p.combo + 1 /\ q.backToBack = b2b /\ q.garbageQueue = cancel.queue
      /\ q.attackSent = p.attackSent + cancel.left /\ q.alive = p.alive
      /\ q.spawnTicks = p.spawnTicks /\ q.landed = p.landed
  BY <1>2 DEF Player
<1>8. v = [x \in ExchangeFields |-> v[x]] /\ v.active = active /\ v.alive = p.alive
      /\ v.spawnTicks = p.spawnTicks /\ v.landed = p.landed
  BY ShownFields
<1> DEFINE u == D!ScoreClear(v, clear).player
           gone == v.cancelled + amount - bare.left
           sent == p.attackSent + cancel.left
           combo == p.combo + 1
<1>9. u = [v EXCEPT !.combo = combo, !.backToBack = b2b, !.garbageQueue = Strip(cancel.queue),
                    !.attackSent = sent, !.cancelled = gone]
  <2> HIDE DEF v
  <2>1. QED
    BY <1>5, <1>6
<1>10. q.combo = combo /\ q.attackSent = sent
  BY <1>7
<1> HIDE DEF v, u, gone, sent, combo
<1>11. /\ u = [x \in ExchangeFields |-> u[x]]
       /\ u.alive = q.alive /\ u.active = active /\ u.spawnTicks = q.spawnTicks
       /\ u.combo = q.combo /\ u.backToBack = q.backToBack
       /\ u.attackSent = q.attackSent /\ u.garbageQueue = Strip(q.garbageQueue)
       /\ u.landed = q.landed
  BY <1>7, <1>8, <1>9, <1>10 DEF ExchangeFields
<1>12. Forget(u) = Shown(q, active)
  BY <1>11, ForgottenIsShown
<1>13. QED
  BY <1>12 DEF u, v, clear, q

\* So does the garbage that comes up after a lock without a clear.
LEMMA ApplyIsDuels ==
  ASSUME frame \in Nat, NEW p \in Player, ShortQueue(p.garbageQueue), NEW active
  PROVE  D!ApplyReadyGarbage(Shown(p, active), frame) = Shown(ApplyReadyGarbage(p), active)
<1> DEFINE due == DueCount(p.garbageQueue, frame)
           front == SubSeq(p.garbageQueue, 1, due)
           back == SubSeq(p.garbageQueue, due + 1, Len(p.garbageQueue))
           bare == Strip(p.garbageQueue)
           bareDue == DueCount(bare, frame)
           bareFront == SubSeq(bare, 1, bareDue)
           bareBack == SubSeq(bare, bareDue + 1, Len(bare))
           v == Shown(p, active)
           q == ApplyReadyGarbage(p)
<1>1. bareBack = Strip(back) /\ Pending(bareFront) = Pending(front)
  BY StripDue
<1>2. v.garbageQueue = bare /\ v.landed = p.landed
  BY DEF Shown
<1>3. D!ApplyReadyGarbage(v, frame) =
        [v EXCEPT !.garbageQueue = bareBack, !.landed = p.landed + Pending(bareFront)]
  <2>1. D!DueCount(v.garbageQueue, frame) = bareDue
    BY <1>2, SameDue
  <2>2. D!Pending(bareFront) = Pending(bareFront)
    BY SamePending
  <2> HIDE DEF v, bare, bareDue
  <2>3. D!ApplyReadyGarbage(v, frame) =
          [v EXCEPT !.garbageQueue = SubSeq(v.garbageQueue, bareDue + 1, Len(v.garbageQueue)),
                    !.landed = v.landed + D!Pending(SubSeq(v.garbageQueue, 1, bareDue))]
    BY <2>1 DEF D!ApplyReadyGarbage
  <2>4. QED
    BY <1>2, <2>2, <2>3
<1>4. /\ q.garbageQueue = back /\ q.landed = p.landed + Pending(front) /\ q.alive = p.alive
      /\ q.spawnTicks = p.spawnTicks /\ q.combo = p.combo /\ q.backToBack = p.backToBack
      /\ q.attackSent = p.attackSent
  BY DEF ApplyReadyGarbage, Player
<1> HIDE DEF front, back, bareFront, bareBack, q
<1>5. D!ApplyReadyGarbage(v, frame) = Shown(q, active)
  BY <1>1, <1>3, <1>4, ZenonT(60) DEF Shown
<1>6. QED
  BY <1>5 DEF q, v

LEMMA ForgetShown ==
  ASSUME NEW p, NEW active
  PROVE  Forget(Shown(p, active)) = Shown(p, active)
<1> DEFINE v == Shown(p, active)
<1>1. /\ v = [x \in ExchangeFields |-> v[x]]
      /\ v.alive = p.alive /\ v.active = active /\ v.spawnTicks = p.spawnTicks
      /\ v.combo = p.combo /\ v.backToBack = p.backToBack
      /\ v.attackSent = p.attackSent /\ v.garbageQueue = Strip(p.garbageQueue)
      /\ v.landed = p.landed
  BY ShownFields
<1> HIDE DEF v
<1>2. Forget(v) = Shown(p, active)
  BY <1>1, ForgottenIsShown
<1>3. QED
  BY <1>2 DEF v

Spins == {"none", "full", "mini"}

SpinClears ==
    {c \in [lines : 1..4, tspin : BOOLEAN, mini : BOOLEAN, perfect : BOOLEAN] : c.mini => c.tspin}

\* The clear between two states of a player, for either way the piece was spun.
ClearOf(p, q, spin) ==
    LET lines == q.linesCleared - p.linesCleared
    IN  IF lines = 0 THEN D!NoClear
        ELSE [lines |-> lines, tspin |-> spin # "none", mini |-> spin = "mini",
              perfect |-> q.board = {}]

\* The board and the piece of a player who locks.
LEMMA LockFacts ==
  ASSUME NEW p, Playing(p), Whole(p)
  PROVE  /\ p \in Player /\ p.alive = TRUE /\ ShortQueue(p.garbageQueue)
         /\ p.linesCleared \in Nat /\ p.over \in Nat
         /\ p.board \in SUBSET Cells /\ FullRows(p.board) = {}
         /\ p.active \in Piece /\ ~Collides(p.board, p.active)
<1>1. p \in Player /\ p.alive = TRUE /\ Accounted(p) /\ Good(p)
  BY DEF Whole, Playing
<1>2. p.board \in SUBSET Cells /\ p.linesCleared \in Nat /\ p.over \in Nat
  BY <1>1 DEF Player
<1>3. QED
  BY <1>1, <1>2, PlayingPiece DEF Accounted, Balanced, Good, Safe, Playing

\* A lock does to the exchange what Duel says, with the clear it makes.
LEMMA LockIsDuels ==
  ASSUME frame \in Nat, NEW p, Playing(p), Whole(p), NEW active
  PROVE  LET q == ResolveLock(p)
         IN  /\ q.alive = TRUE /\ ~InPlay(q)
             /\ \E spin \in Spins :
                   LET clear == ClearOf(p, q, spin)
                   IN  /\ clear \in SpinClears \cup {D!NoClear}
                       /\ Forget(D!ResolveLock(Shown(p, active), clear, frame).player)
                            = Shown(q, FALSE)
<1> DEFINE stamped == LockPiece(p.board, p.active)
           lines == Cardinality(FullRows(stamped))
           over == p.over + Cardinality(PieceCells(p.active) \ Cells)
           cleared == ClearFullRows(stamped)
           locked == [p EXCEPT !.board = cleared, !.active = NoPiece,
                               !.spawnTicks = SpawnDelay,
                               !.lastAction = "none", !.lastKickIndex = -1,
                               !.over = over]
           missed == [locked EXCEPT !.combo = -1]
           v == Shown(p, active)
           no == FALSE
           w == [v EXCEPT !.active = no, !.spawnTicks = SpawnDelay]
           q == ResolveLock(p)
<1>1. q = IF lines > 0 THEN ScoreClear(locked, lines, TSpin(p)) ELSE ApplyReadyGarbage(missed)
  BY DEF ResolveLock
<1>2. /\ p \in Player /\ p.alive = TRUE /\ ShortQueue(p.garbageQueue)
      /\ p.linesCleared \in Nat /\ p.over \in Nat
      /\ p.board \in SUBSET Cells /\ FullRows(p.board) = {}
      /\ p.active \in Piece /\ ~Collides(p.board, p.active)
  BY LockFacts
<1>3. lines \in 0..4 /\ over \in Nat
  <2>1. lines \in 0..4
    BY <1>2, FourRowsAtMost
  <2>2. Cardinality(PieceCells(p.active) \ Cells) \in Nat
    BY <1>2, LockCount
  <2>3. QED
    BY <1>2, <2>1, <2>2
<1>4. cleared \in SUBSET Cells
  <2>1. stamped \in SUBSET Cells
    BY <1>2, LockCount
  <2> HIDE DEF stamped
  <2>2. QED
    BY <2>1, ClearCount
<1> HIDE DEF stamped, lines, over, cleared
<1>5. locked \in Player
  <2>1. -1 \in Int /\ SpawnDelay \in Nat
    BY PlayfieldAssumption
  <2>2. QED
    BY <1>2, <1>3, <1>4, <2>1, LockedType
<1>6. /\ locked.board = cleared /\ locked.active = NoPiece /\ locked.alive = TRUE
      /\ locked.spawnTicks = SpawnDelay /\ locked.combo = p.combo
      /\ locked.backToBack = p.backToBack /\ locked.attackSent = p.attackSent
      /\ locked.garbageQueue = p.garbageQueue /\ locked.landed = p.landed
      /\ locked.linesCleared = p.linesCleared
  BY <1>2 DEF Player
<1> HIDE DEF locked
<1>7. missed \in Player
  <2>1. -1 \in Int
    OBVIOUS
  <2>2. QED
    BY <1>5, <2>1, MissedType
<1>8. /\ missed.active = NoPiece /\ missed.alive = TRUE
      /\ missed.spawnTicks = SpawnDelay /\ missed.combo = -1
      /\ missed.backToBack = p.backToBack /\ missed.attackSent = p.attackSent
      /\ missed.garbageQueue = p.garbageQueue /\ missed.landed = p.landed
      /\ missed.linesCleared = p.linesCleared
  BY <1>5, <1>6 DEF Player
<1> HIDE DEF missed
\* What Duel makes of the player before it looks at the clear.
<1>9. /\ v = [x \in ExchangeFields |-> v[x]] /\ v.alive = p.alive
      /\ v.combo = p.combo /\ v.backToBack = p.backToBack
      /\ v.attackSent = p.attackSent /\ v.garbageQueue = Strip(p.garbageQueue)
      /\ v.landed = p.landed /\ v.cancelled = 0 /\ v.absorbed = 0
  BY ShownFields
<1> HIDE DEF v
<1>10. /\ w = [x \in ExchangeFields |-> w[x]] /\ w.alive = p.alive /\ w.active = no
       /\ w.spawnTicks = SpawnDelay /\ w.combo = p.combo /\ w.backToBack = p.backToBack
       /\ w.attackSent = p.attackSent /\ w.garbageQueue = Strip(p.garbageQueue)
       /\ w.landed = p.landed /\ w.cancelled = 0 /\ w.absorbed = 0
  BY <1>9 DEF ExchangeFields
<1>11. \A clear : D!ResolveLock(v, clear, frame) =
                    IF clear.lines > 0 THEN D!ScoreClear(w, clear)
                    ELSE [player |-> D!ApplyReadyGarbage([w EXCEPT !.combo = -1], frame),
                          sent |-> 0]
  BY DEF D!ResolveLock
<1> HIDE DEF w, q, no
<1>12. w = Shown(locked, no)
  <2>1. locked.alive = p.alive
    BY <1>2, <1>6
  <2>2. QED
    BY <1>6, <1>10, <2>1, IsShown
<1>13. CASE lines > 0
  <2> DEFINE spin == TSpin(p)
             clear == [lines |-> lines, tspin |-> spin.tspin, mini |-> spin.mini,
                       perfect |-> locked.board = {}]
             kind == IF spin.mini THEN "mini" ELSE IF spin.tspin THEN "full" ELSE "none"
  <2>1. spin.tspin \in BOOLEAN /\ spin.mini \in BOOLEAN /\ (spin.mini => spin.tspin)
    BY DEF TSpin
  <2>2. lines \in 1..4 /\ lines \in Nat \ {0} /\ ~InPlay(locked)
    BY <1>3, <1>6, <1>13 DEF InPlay
  <2>3. q = ScoreClear(locked, lines, spin)
    BY <1>1, <1>13
  <2> HIDE DEF spin
  <2>4. /\ Settles(locked, q) /\ q.board = locked.board
        /\ q.linesCleared = locked.linesCleared + lines
    BY <1>2, <1>5, <1>6, <2>1, <2>2, <2>3, ScoreClearSettles
  <2>5. q.alive = TRUE /\ ~InPlay(q) /\ q.linesCleared - p.linesCleared = lines /\ lines # 0
    BY <1>2, <1>6, <2>2, <2>4 DEF Settles
  <2>6. Forget(D!ScoreClear(Shown(locked, no), clear).player) = Shown(q, no)
    BY <1>2, <1>5, <1>6, <2>1, <2>2, <2>3, ScoreClearIsDuels
  <2>7. clear \in SpinClears
    BY <2>1, <2>2 DEF SpinClears
  <2>8. kind \in Spins /\ (kind # "none") = spin.tspin /\ (kind = "mini") = spin.mini
    BY <2>1 DEF Spins
  <2>9. clear.lines = lines
    OBVIOUS
  <2> HIDE DEF kind
  <2>10. ClearOf(p, q, kind) = clear
    BY <2>4, <2>5, <2>8 DEF ClearOf
  <2> HIDE DEF clear
  <2>11. D!ResolveLock(v, clear, frame) = D!ScoreClear(Shown(locked, no), clear)
    BY <1>11, <1>12, <1>13, <2>9
  <2>12. Forget(D!ResolveLock(v, ClearOf(p, q, kind), frame).player) = Shown(q, no)
    BY <2>6, <2>10, <2>11
  <2>13. QED
    BY <2>5, <2>7, <2>8, <2>10, <2>12 DEF v, q, no
<1>14. CASE ~(lines > 0)
  <2> DEFINE u == [w EXCEPT !.combo = -1]
  <2>1. q = ApplyReadyGarbage(missed)
    BY <1>1, <1>14
  <2>2. q.alive = TRUE /\ ~InPlay(q) /\ q.linesCleared = p.linesCleared
    BY <1>7, <1>8, <2>1 DEF ApplyReadyGarbage, Player, InPlay
  <2>3. u = Shown(missed, no)
    <3>1. /\ u = [x \in ExchangeFields |-> u[x]] /\ u.alive = p.alive /\ u.active = no
          /\ u.spawnTicks = SpawnDelay /\ u.combo = -1 /\ u.backToBack = p.backToBack
          /\ u.attackSent = p.attackSent /\ u.garbageQueue = Strip(p.garbageQueue)
          /\ u.landed = p.landed /\ u.cancelled = 0 /\ u.absorbed = 0
      BY <1>10 DEF ExchangeFields
    <3> HIDE DEF u
    <3>2. missed.alive = p.alive
      BY <1>2, <1>8
    <3>3. QED
      BY <1>8, <3>1, <3>2, IsShown
  <2>4. D!NoClear.lines = 0
    BY DEF D!NoClear
  <2>5. D!ResolveLock(v, D!NoClear, frame).player = D!ApplyReadyGarbage(u, frame)
    <3> HIDE DEF u
    <3>1. D!ResolveLock(v, D!NoClear, frame)
            = [player |-> D!ApplyReadyGarbage(u, frame), sent |-> 0]
      BY <1>11, <2>4 DEF u
    <3>2. QED
      BY <3>1
  <2> HIDE DEF u
  <2>6. D!ApplyReadyGarbage(u, frame) = Shown(q, no)
    BY <1>2, <1>7, <1>8, <2>1, <2>3, ApplyIsDuels
  <2>7. ClearOf(p, q, "none") = D!NoClear
    BY <1>2, <2>2 DEF ClearOf
  <2>8. Forget(D!ResolveLock(v, ClearOf(p, q, "none"), frame).player) = Shown(q, no)
    BY <2>5, <2>6, <2>7, ForgetShown
  <2>9. "none" \in Spins
    BY DEF Spins
  <2>10. QED
    BY <2>2, <2>7, <2>8, <2>9 DEF v, q, no
<1>15. QED
  BY <1>13, <1>14

EndFor(q) == IF ~q.alive THEN "topout" ELSE IF InPlay(q) THEN "none" ELSE "lock"

PlayFor(p, q, spin) == [end |-> EndFor(q), clear |-> ClearOf(p, q, spin)]

LEMMA PlaysAre ==
  /\ \A e \in {"none", "topout", "lock"} : [end |-> e, clear |-> D!NoClear] \in D!Plays
  /\ \A c \in SpinClears : [end |-> "lock", clear |-> c] \in D!Plays
  BY DEF D!Plays, SpinClears

\* One tick of the board is a play, with the effect Duel gives it.
Matches(p, q) ==
    \E spin \in Spins :
        /\ PlayFor(p, q, spin) \in D!Plays
        /\ Forget(D!StepPlayer(Shown(p, InPlay(p)), PlayFor(p, q, spin), frame).player)
             = Shown(q, InPlay(q))

LEMMA NothingCleared ==
  ASSUME NEW p, p \in Player, NEW q, q.linesCleared = p.linesCleared, NEW spin
  PROVE  ClearOf(p, q, spin) = D!NoClear
<1>1. p.linesCleared \in Nat
  BY DEF Player
<1>2. q.linesCleared - p.linesCleared = 0
  BY <1>1
<1>3. QED
  BY <1>2 DEF ClearOf

LEMMA WaitingMatches ==
  ASSUME NEW p, p \in Player, p.alive = TRUE, ~MayPlay(p)
  PROVE  Matches(p, [p EXCEPT !.spawnTicks = @ - 1])
<1> DEFINE ticks == p.spawnTicks - 1
           q == [p EXCEPT !.spawnTicks = @ - 1]
           spin == "none"
           idle == InPlay(p)
           v == Shown(p, idle)
           play == PlayFor(p, q, spin)
           w == [v EXCEPT !.spawnTicks = ticks]
<1>1. /\ q.alive = p.alive /\ q.active = p.active /\ q.spawnTicks = ticks /\ q.combo = p.combo
      /\ q.backToBack = p.backToBack /\ q.attackSent = p.attackSent
      /\ q.garbageQueue = p.garbageQueue /\ q.landed = p.landed
      /\ q.linesCleared = p.linesCleared
  BY DEF Player
<1>2. /\ v = [x \in ExchangeFields |-> v[x]] /\ v.alive = p.alive /\ v.active = idle
      /\ v.spawnTicks = p.spawnTicks /\ v.combo = p.combo /\ v.backToBack = p.backToBack
      /\ v.attackSent = p.attackSent /\ v.garbageQueue = Strip(p.garbageQueue)
      /\ v.landed = p.landed
  BY ShownFields
<1>3. (v.alive = TRUE) /\ ~v.active /\ v.spawnTicks > 0
  BY <1>2 DEF MayPlay
<1> HIDE DEF q, v, play
<1>4. D!StepPlayer(v, play, frame).player = [v EXCEPT !.spawnTicks = v.spawnTicks - 1]
  BY <1>3 DEF D!StepPlayer
<1>5. D!StepPlayer(v, play, frame).player = w
  BY <1>2, <1>4
<1> HIDE DEF ticks, idle
<1>6. /\ w = [x \in ExchangeFields |-> w[x]] /\ w.alive = q.alive /\ w.active = idle
      /\ w.spawnTicks = q.spawnTicks /\ w.combo = q.combo /\ w.backToBack = q.backToBack
      /\ w.attackSent = q.attackSent /\ w.garbageQueue = Strip(q.garbageQueue)
      /\ w.landed = q.landed
  BY <1>1, <1>2 DEF ExchangeFields
<1> HIDE DEF w
<1>7. Forget(w) = Shown(q, idle)
  BY <1>6, ForgottenIsShown
<1>8. play \in D!Plays
  <2>1. ClearOf(p, q, spin) = D!NoClear
    BY <1>1, NothingCleared
  <2>2. EndFor(q) \in {"none", "topout", "lock"}
    BY DEF EndFor
  <2>3. QED
    BY <2>1, <2>2, PlaysAre DEF play, PlayFor
<1>9. Shown(q, InPlay(q)) = Shown(q, idle)
  BY <1>1 DEF idle, InPlay
<1>10. Forget(D!StepPlayer(v, play, frame).player) = Shown(q, InPlay(q))
  BY <1>5, <1>7, <1>9
<1>11. spin \in Spins
  BY DEF Spins
<1>12. QED
  BY <1>8, <1>10, <1>11 DEF Matches, v, play, idle, q

LEMMA TopoutMatches ==
  ASSUME NEW p, p \in Player, p.alive = TRUE, MayPlay(p), NEW q, Kept(p, q),
         q.alive = FALSE, ~InPlay(q)
  PROVE  Matches(p, q)
<1> DEFINE spin == "none"
           idle == InPlay(p)
           no == FALSE
           v == Shown(p, idle)
           play == PlayFor(p, q, spin)
           w == [v EXCEPT !.alive = no, !.active = no]
<1>1. /\ v = [x \in ExchangeFields |-> v[x]] /\ v.alive = p.alive /\ v.active = idle
      /\ v.spawnTicks = p.spawnTicks /\ v.combo = p.combo /\ v.backToBack = p.backToBack
      /\ v.attackSent = p.attackSent /\ v.garbageQueue = Strip(p.garbageQueue)
      /\ v.landed = p.landed
  BY ShownFields
<1>2. (v.alive = TRUE) /\ ~(~v.active /\ v.spawnTicks > 0)
  BY <1>1 DEF MayPlay
<1>3. play.end = "topout" /\ ClearOf(p, q, spin) = D!NoClear
  BY NothingCleared DEF PlayFor, EndFor, Kept
<1> HIDE DEF v, play
<1>4. D!StepPlayer(v, play, frame).player = w
  BY <1>2, <1>3 DEF D!StepPlayer
<1> HIDE DEF idle, no
<1>5. /\ w = [x \in ExchangeFields |-> w[x]] /\ w.alive = no /\ w.active = no
      /\ w.spawnTicks = q.spawnTicks /\ w.combo = q.combo /\ w.backToBack = q.backToBack
      /\ w.attackSent = q.attackSent /\ w.garbageQueue = Strip(q.garbageQueue)
      /\ w.landed = q.landed
  BY <1>1 DEF ExchangeFields, Kept
<1>6. no = q.alive
  BY DEF no
<1> HIDE DEF w
<1>7. Forget(w) = Shown(q, no)
  BY <1>5, <1>6, ForgottenIsShown
<1>8. play \in D!Plays
  BY <1>3, PlaysAre DEF play, PlayFor
<1>9. InPlay(q) = no
  BY DEF no, InPlay
<1>10. Forget(D!StepPlayer(v, play, frame).player) = Shown(q, InPlay(q))
  BY <1>4, <1>7, <1>9
<1>11. spin \in Spins
  BY DEF Spins
<1>12. QED
  BY <1>8, <1>10, <1>11 DEF Matches, v, play, idle

LEMMA FallingMatches ==
  ASSUME NEW p, p \in Player, p.alive = TRUE, MayPlay(p), NEW q, Kept(p, q),
         q.alive = TRUE, InPlay(q)
  PROVE  Matches(p, q)
<1> DEFINE spin == "none"
           idle == InPlay(p)
           yes == TRUE
           v == Shown(p, idle)
           play == PlayFor(p, q, spin)
           w == [v EXCEPT !.active = yes]
<1>1. /\ v = [x \in ExchangeFields |-> v[x]] /\ v.alive = p.alive /\ v.active = idle
      /\ v.spawnTicks = p.spawnTicks /\ v.combo = p.combo /\ v.backToBack = p.backToBack
      /\ v.attackSent = p.attackSent /\ v.garbageQueue = Strip(p.garbageQueue)
      /\ v.landed = p.landed
  BY ShownFields
<1>2. (v.alive = TRUE) /\ ~(~v.active /\ v.spawnTicks > 0)
  BY <1>1 DEF MayPlay
<1>3. play.end = "none" /\ ClearOf(p, q, spin) = D!NoClear
  BY NothingCleared DEF PlayFor, EndFor, Kept
<1> HIDE DEF v, play
<1>4. D!StepPlayer(v, play, frame).player = w
  BY <1>2, <1>3 DEF D!StepPlayer
<1> HIDE DEF idle, yes
<1>5. p.alive = q.alive
  OBVIOUS
<1>6. /\ w = [x \in ExchangeFields |-> w[x]] /\ w.alive = q.alive /\ w.active = yes
      /\ w.spawnTicks = q.spawnTicks /\ w.combo = q.combo /\ w.backToBack = q.backToBack
      /\ w.attackSent = q.attackSent /\ w.garbageQueue = Strip(q.garbageQueue)
      /\ w.landed = q.landed
  BY <1>1, <1>5 DEF ExchangeFields, Kept
<1> HIDE DEF w
<1>7. Forget(w) = Shown(q, yes)
  BY <1>6, ForgottenIsShown
<1>8. play \in D!Plays
  BY <1>3, PlaysAre DEF play, PlayFor
<1>9. InPlay(q) = yes
  BY DEF yes, InPlay
<1>10. Forget(D!StepPlayer(v, play, frame).player) = Shown(q, InPlay(q))
  BY <1>4, <1>7, <1>9
<1>11. spin \in Spins
  BY DEF Spins
<1>12. QED
  BY <1>8, <1>10, <1>11 DEF Matches, v, play, idle

LEMMA LockMatches ==
  ASSUME frame \in Nat, NEW p, p \in Player, p.alive = TRUE, MayPlay(p),
         NEW r, Whole(r), Playing(r), Kept(p, r)
  PROVE  Matches(p, ResolveLock(r))
<1> DEFINE q == ResolveLock(r)
           idle == InPlay(p)
           no == FALSE
           v == Shown(p, idle)
<1>1. /\ v = [x \in ExchangeFields |-> v[x]] /\ v.alive = p.alive /\ v.active = idle
      /\ v.spawnTicks = p.spawnTicks /\ v.combo = p.combo /\ v.backToBack = p.backToBack
      /\ v.attackSent = p.attackSent /\ v.garbageQueue = Strip(p.garbageQueue)
      /\ v.landed = p.landed /\ v.cancelled = 0 /\ v.absorbed = 0
  BY ShownFields
<1>2. (v.alive = TRUE) /\ ~(~v.active /\ v.spawnTicks > 0)
  BY <1>1 DEF MayPlay
<1> HIDE DEF v, idle
<1>3. v = Shown(r, idle)
  <2>1. r.alive = p.alive
    BY DEF Whole, Playing
  <2>2. QED
    BY <1>1, <2>1, IsShown DEF Kept
<1>4. q.alive = TRUE /\ ~InPlay(q)
  BY LockIsDuels
<1>5. PICK spin \in Spins :
        /\ ClearOf(r, q, spin) \in SpinClears \cup {D!NoClear}
        /\ Forget(D!ResolveLock(Shown(r, idle), ClearOf(r, q, spin), frame).player)
             = Shown(q, FALSE)
  BY LockIsDuels
<1> HIDE DEF q
<1>6. ClearOf(p, q, spin) = ClearOf(r, q, spin)
  BY DEF ClearOf, Kept
<1> DEFINE play == PlayFor(p, q, spin)
<1>7. play.end = "lock" /\ play.clear = ClearOf(r, q, spin)
  BY <1>4, <1>6 DEF PlayFor, EndFor
<1>8. play \in D!Plays
  <2>1. play = [end |-> "lock", clear |-> ClearOf(r, q, spin)]
    BY <1>4, <1>6 DEF PlayFor, EndFor
  <2> HIDE DEF play
  <2>2. QED
    BY <1>5, <2>1, PlaysAre
<1> HIDE DEF play
<1>9. D!StepPlayer(v, play, frame) = D!ResolveLock(v, ClearOf(r, q, spin), frame)
  BY <1>2, <1>7 DEF D!StepPlayer
<1>10. Shown(q, FALSE) = Shown(q, InPlay(q))
  <2>1. InPlay(q) = FALSE
    BY <1>4 DEF InPlay
  <2>2. QED
    BY <2>1
<1>11. Forget(D!StepPlayer(v, play, frame).player) = Shown(q, InPlay(q))
  BY <1>3, <1>5, <1>9, <1>10
<1>12. QED
  BY <1>5, <1>8, <1>11 DEF Matches, v, play, idle, q

LEMMA StepMatches ==
  ASSUME frame \in Nat, Dealt, NEW p, NEW input, Whole(p), p.alive = TRUE,
         p.bagIndex + (IF InPlay(p) THEN 0 ELSE 1)
           + (IF "hold" \in input.pressed /\ p.hold = Null THEN 1 ELSE 0) <= MaxPieces
  PROVE  Matches(p, StepPlayer(p, input))
<1> DEFINE q == StepPlayer(p, input)
<1>1. \/ ~MayPlay(p) /\ q = [p EXCEPT !.spawnTicks = @ - 1]
      \/ MayPlay(p) /\ Kept(p, q) /\ q.alive = FALSE /\ ~InPlay(q)
      \/ MayPlay(p) /\ \E r : EndsWith(p, r, q)
  BY StepEnds
<1> HIDE DEF q
<1>2. p \in Player
  BY DEF Whole
<1>3. CASE ~MayPlay(p) /\ q = [p EXCEPT !.spawnTicks = @ - 1]
  BY <1>2, <1>3, WaitingMatches DEF q
<1>4. CASE MayPlay(p) /\ Kept(p, q) /\ q.alive = FALSE /\ ~InPlay(q)
  BY <1>2, <1>4, TopoutMatches DEF q
<1>5. ASSUME MayPlay(p), NEW r, EndsWith(p, r, q)
      PROVE  Matches(p, q)
  <2>1. Whole(r) /\ Playing(r) /\ Kept(p, r) /\ (q = r \/ q = ResolveLock(r))
    BY <1>5 DEF EndsWith
  <2>2. r.alive = TRUE /\ InPlay(r)
    BY <2>1 DEF Whole, Playing
  <2>3. q = r => Matches(p, q)
    BY <1>2, <1>5, <2>1, <2>2, FallingMatches
  <2>4. q = ResolveLock(r) => Matches(p, q)
    BY <1>2, <1>5, <2>1, LockMatches
  <2>5. QED
    BY <2>1, <2>3, <2>4
<1>6. QED
  BY <1>1, <1>3, <1>4, <1>5 DEF q

LEMMA ExchangeIsShown ==
  /\ Exchange = Shown(player, InPlay(player))
  /\ Exchange' = Shown(player', InPlay(player'))
  BY DEF Exchange, Shown, Strip, InPlay

LEMMA PlayIsFor ==
  ASSUME NEW spin
  PROVE  PlayOf(spin) = PlayFor(player, player', spin)
  BY DEF PlayOf, EndOf, PlayFor, EndFor, ClearOf, InPlay

\* The batch b of that size arrives at the living player p and makes it q.
Hits(p, q, b, amount) ==
    /\ p \in Player /\ p.alive /\ ShortQueue(p.garbageQueue)
    /\ amount \in Nat \ {0} /\ b \in Batch
    /\ b.amount = amount /\ b.readyAtFrame = frame + GarbageDelay
    /\ q = [p EXCEPT !.garbageQueue = Receive(@, b)]

\* What Duel delivers is what arrives at the board.
LEMMA HitIsDelivered ==
  ASSUME frame \in Nat, NEW p, NEW q, NEW b, NEW amount, Hits(p, q, b, amount),
         NEW active, NEW x, Forget(x) = Shown(p, active)
  PROVE  Forget(D!Deliver(x, amount, frame)) = Shown(q, active)
<1> DEFINE bare == [amount |-> amount, readyAtFrame |-> frame + GarbageDelay]
           v == Shown(p, active)
           absorbed == x.absorbed + amount - D!CancelIncoming(x.garbageQueue, amount).left
           queue == D!Receive(x.garbageQueue, bare)
           u == D!Deliver(x, amount, frame)
<1>0. /\ p \in Player /\ p.alive /\ ShortQueue(p.garbageQueue)
      /\ amount \in Nat \ {0} /\ b \in Batch
      /\ b.amount = amount /\ b.readyAtFrame = frame + GarbageDelay
      /\ q = [p EXCEPT !.garbageQueue = Receive(@, b)]
  BY DEF Hits
<1>1. Bare(b) = bare
  BY <1>0 DEF Bare
<1>2. /\ v = [f \in ExchangeFields |-> v[f]] /\ v.alive = p.alive /\ v.active = active
      /\ v.spawnTicks = p.spawnTicks /\ v.combo = p.combo /\ v.backToBack = p.backToBack
      /\ v.attackSent = p.attackSent /\ v.garbageQueue = Strip(p.garbageQueue)
      /\ v.landed = p.landed
  BY ShownFields
<1> HIDE DEF v
<1>3. DOMAIN x = ExchangeFields
  <2>1. DOMAIN Forget(x) = DOMAIN x
    BY DEF Forget
  <2>2. DOMAIN v = ExchangeFields
    BY <1>2
  <2>3. QED
    BY <2>1, <2>2 DEF v
<1>4. \A f \in ExchangeFields \ {"cancelled", "absorbed"} : x[f] = v[f]
  <2>1. Forget(x) = v
    BY DEF v
  <2>2. \A f \in ExchangeFields \ {"cancelled", "absorbed"} : Forget(x)[f] = x[f]
    BY <1>3 DEF Forget
  <2>3. QED
    BY <2>1, <2>2
<1>5. /\ x.alive = p.alive /\ x.active = active
      /\ x.spawnTicks = p.spawnTicks /\ x.combo = p.combo /\ x.backToBack = p.backToBack
      /\ x.attackSent = p.attackSent /\ x.garbageQueue = Strip(p.garbageQueue)
      /\ x.landed = p.landed
  BY <1>2, <1>4 DEF ExchangeFields
<1>6. u = [x EXCEPT !.garbageQueue = queue, !.absorbed = absorbed]
  <2>1. x.alive
    BY <1>0, <1>5
  <2>2. QED
    BY <1>0, <2>1 DEF D!Deliver
<1>7. queue = Strip(Receive(p.garbageQueue, b))
  <2>1. queue = Receive(Strip(p.garbageQueue), Bare(b))
    BY <1>0, <1>1, <1>5, SameReceive
  <2> HIDE DEF queue
  <2>2. QED
    BY <1>0, <1>1, <2>1, StripReceive
<1> HIDE DEF bare, queue, absorbed, u
<1>8. /\ q.alive = p.alive /\ q.spawnTicks = p.spawnTicks /\ q.combo = p.combo
      /\ q.backToBack = p.backToBack /\ q.attackSent = p.attackSent
      /\ q.garbageQueue = Receive(p.garbageQueue, b) /\ q.landed = p.landed
  BY <1>0 DEF Player
<1>9. /\ u = [f \in ExchangeFields |-> u[f]] /\ u.alive = q.alive /\ u.active = active
      /\ u.spawnTicks = q.spawnTicks /\ u.combo = q.combo /\ u.backToBack = q.backToBack
      /\ u.attackSent = q.attackSent /\ u.garbageQueue = Strip(q.garbageQueue)
      /\ u.landed = q.landed
  BY <1>3, <1>5, <1>6, <1>7, <1>8 DEF ExchangeFields
<1>10. Forget(u) = Shown(q, active)
  BY <1>9, ForgottenIsShown
<1>11. QED
  BY <1>10 DEF u

\* match.ts: whatever happens on a board in one tick is one of the plays of Duel, with
\* the same effect on the exchange: what Duel is checked for holds of real boards.
THEOREM BoardsPlayTheDuel == Spec => TicksArePlays
<1> DEFINE Played ==
             \E spin \in {"none", "full", "mini"}, amount \in Attacks \cup {0} :
                LET play == PlayOf(spin)
                IN  /\ play \in D!Plays
                    /\ Exchange' = Forget(D!Deliver(D!StepPlayer(Exchange, play, frame).player,
                                                    amount, frame))
<1>1. PlayerWhole /\ [Next]_vars => [Played]_vars
  <2> SUFFICES ASSUME PlayerWhole, NEW input \in Inputs, Tick(input)
               PROVE  Played
    BY DEF Next
  <2> DEFINE stepped == StepPlayer(player, input)
             v == Shown(player, InPlay(player))
             active == InPlay(stepped)
  <2>1. player.alive = TRUE /\ Whole(player) /\ frame \in 0..MaxFrame /\ Dealt
    BY DEF Tick, PlayerWhole, Whole, Player
  <2>2. frame \in Nat
    BY <2>1, PlayfieldAssumption
  <2>3. Whole(stepped) /\ Matches(player, stepped)
    BY <2>1, <2>2, StepKeepsWhole, StepMatches DEF Tick, Deals
  <2>4. \/ player' = stepped
        \/ /\ stepped.alive
           /\ \E amount \in Attacks, hole \in Columns :
                player' = [stepped EXCEPT !.garbageQueue =
                               Receive(@, [amount |-> amount, holeColumn |-> hole,
                                           readyAtFrame |-> frame + GarbageDelay])]
    BY DEF Tick
  <2> HIDE DEF stepped, v, active
  <2>5. PICK spin \in Spins :
          /\ PlayFor(player, stepped, spin) \in D!Plays
          /\ Forget(D!StepPlayer(v, PlayFor(player, stepped, spin), frame).player)
               = Shown(stepped, active)
    BY <2>3 DEF Matches, v, active
  <2> DEFINE play == PlayFor(player, stepped, spin)
             x == D!StepPlayer(v, play, frame).player
  <2> HIDE DEF play, x
  <2>6. play \in D!Plays /\ Forget(x) = Shown(stepped, active)
    BY <2>5 DEF play, x
  <2>7. SUFFICES ASSUME TRUE
                 PROVE  /\ PlayFor(player, player', spin) = play
                        /\ \E amount \in Attacks \cup {0} :
                              Shown(player', InPlay(player')) = Forget(D!Deliver(x, amount, frame))
    BY <2>6, ExchangeIsShown, PlayIsFor DEF Spins, v, x
  <2>8. CASE player' = stepped
    <3>1. D!Deliver(x, 0, frame) = x
      BY DEF D!Deliver
    <3>2. Shown(player', InPlay(player')) = Forget(D!Deliver(x, 0, frame))
      BY <2>6, <2>8, <3>1 DEF active
    <3>3. QED
      BY <2>8, <3>2 DEF play
  <2>9. ASSUME stepped.alive, NEW amount \in Attacks, NEW hole \in Columns,
               player' = [stepped EXCEPT !.garbageQueue =
                              Receive(@, [amount |-> amount, holeColumn |-> hole,
                                          readyAtFrame |-> frame + GarbageDelay])]
        PROVE  /\ PlayFor(player, player', spin) = play
               /\ \E n \in Attacks \cup {0} :
                     Shown(player', InPlay(player')) = Forget(D!Deliver(x, n, frame))
    <3>1. amount \in Nat \ {0}
      BY PlayfieldAssumption
    <3>2. stepped \in Player /\ stepped.alive = TRUE /\ ShortQueue(stepped.garbageQueue)
      BY <2>3, <2>9 DEF Whole, Accounted, Player
    <3>3. Forget(D!Deliver(x, amount, frame)) = Shown(player', active)
      <4> DEFINE b == [amount |-> amount, holeColumn |-> hole,
                       readyAtFrame |-> frame + GarbageDelay]
                 hit == [stepped EXCEPT !.garbageQueue = Receive(@, b)]
      <4>1. player' = hit
        BY <2>9
      <4>2. b \in Batch /\ b.amount = amount /\ b.readyAtFrame = frame + GarbageDelay
        <5>1. frame + GarbageDelay \in Nat
          BY <2>2, PlayfieldAssumption, SMTT(30)
        <5>2. QED
          BY <3>1, <5>1 DEF Batch
      <4> HIDE DEF b
      <4>3. hit = [stepped EXCEPT !.garbageQueue = Receive(@, b)]
        OBVIOUS
      <4> HIDE DEF hit
      <4>4. Hits(stepped, hit, b, amount)
        BY <3>1, <3>2, <4>2, <4>3 DEF Hits
      <4>5. Forget(x) = Shown(stepped, active)
        BY <2>6
      <4> HIDE DEF Played
      <4>6. Forget(D!Deliver(x, amount, frame)) = Shown(hit, active)
        BY <2>2, <4>4, <4>5, HitIsDelivered
      <4>7. QED
        BY <4>1, <4>6
    <3>4. /\ player'.alive = stepped.alive /\ player'.active = stepped.active
          /\ player'.linesCleared = stepped.linesCleared /\ player'.board = stepped.board
      BY <2>9, <3>2 DEF Player
    <3>5. PlayFor(player, player', spin) = play
      BY <3>4 DEF PlayFor, EndFor, ClearOf, InPlay, play
    <3>6. Shown(player', InPlay(player')) = Shown(player', active)
      BY <3>4 DEF InPlay, active
    <3>7. QED
      BY <3>3, <3>5, <3>6
  <2>10. QED
    BY <2>4, <2>8, <2>9
<1>2. QED
  BY <1>1, InitWhole, NextWhole, PTL DEF Spec, TicksArePlays

============================================================================
