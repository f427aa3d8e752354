----------------------------- MODULE Playfield -----------------------------
(***************************************************************************)
(* One player's board, packages/core/src/match.ts and board.ts: spawning,  *)
(* hold, rotation with kicks, auto-repeat, gravity, soft and hard drop,    *)
(* lock delay with its budget of resets, line clears and garbage.          *)
(*                                                                         *)
(* stepPlayer is one action, in the order of the code.  The opponent is    *)
(* whatever attack arrives at the end of a tick.  Frames past MaxFrame are *)
(* not told apart: by then gravity has stopped changing.                   *)
(***************************************************************************)
EXTENDS Attack, Garbage, Pieces, FiniteSets

CONSTANTS
    Types,              \* the pieces the seed may deal
    MaxPieces,          \* how many it deals before the exploration stops (a bound)
    BoardW, BoardH,     \* BOARD_W and BOARD_H_TOTAL
    Hidden,             \* BOARD_H_HIDDEN
    Gravity,            \* gravityAt, as a function of the frame
    MaxFrame,           \* frames are counted up to here (a bound)
    LockDelay, MaxLockResets, Das, Arr, SpawnDelay, GarbageDelay, SoftDropCells,
    Inputs,             \* the inputs a tick may bring
    Attacks,            \* the amounts of garbage that may arrive
    Null

Actions == {"left", "right", "softDrop", "hardDrop", "rotCW", "rotCCW", "rot180", "hold"}

ASSUME PlayfieldAssumption ==
    /\ Types \subseteq PieceTypes
    /\ Null \notin PieceTypes
    /\ {MaxPieces, MaxFrame, LockDelay, MaxLockResets, Das, Arr, SpawnDelay,
        GarbageDelay, SoftDropCells} \subseteq Nat
    /\ {BoardW, BoardH, Hidden} \subseteq Nat \ {0}
    /\ Gravity \in [0..MaxFrame -> Nat \ {0}]
    /\ Inputs \subseteq [pressed : SUBSET Actions, held : SUBSET Actions]
    /\ LockDelay > 0 /\ Das <= MaxFrame
    /\ Attacks \subseteq Nat \ {0}

VARIABLES
    sequence,   \* the pieces the seed determines; never changes
    frame,      \* state.frame
    player      \* state.players[id]

vars == <<sequence, frame, player>>

Columns == 0..BoardW - 1
Cells == Columns \X (0..BoardH - 1)

Piece == [type : PieceTypes, rot : Rotations, x : Int, y : Int]
NoPiece == [type |-> Null, rot |-> 0, x |-> 0, y |-> 0]
Batch == [amount : Nat \ {0}, readyAtFrame : Nat, holeColumn : Columns]
LastActions == {"none", "move", "rotate", "softDrop", "hardDrop", "hold"}

Player ==
    [board : SUBSET Cells,              \* the cells that are not 0
     active : Piece \cup {NoPiece},
     hold : PieceTypes \cup {Null},
     holdUsed : BOOLEAN,
     bagIndex : Nat,
     garbageQueue : Seq(Batch),
     combo : Int,
     backToBack : BOOLEAN,
     linesCleared : Nat,
     attackSent : Nat,
     alive : BOOLEAN,
     lastAction : LastActions,
     lastKickIndex : Int,
     gravityTicks : Nat, lockTicks : Nat, lockResets : Nat,
     dasTicks : Nat, arrTicks : Nat, spawnTicks : Nat,
     landed : Nat,                      \* history: garbage rows pushed in
     over : Nat]                        \* history: cells locked above the board, and lost

NewPlayer ==
    [board |-> {}, active |-> NoPiece, hold |-> Null, holdUsed |-> FALSE, bagIndex |-> 0,
     garbageQueue |-> <<>>, combo |-> -1, backToBack |-> FALSE, linesCleared |-> 0,
     attackSent |-> 0, alive |-> TRUE, lastAction |-> "none", lastKickIndex |-> -1,
     gravityTicks |-> 0, lockTicks |-> 0, lockResets |-> 0, dasTicks |-> 0,
     arrTicks |-> 0, spawnTicks |-> SpawnDelay, landed |-> 0, over |-> 0]

\* Counters that nothing but the length of the match limits.
Capped(n) == IF n > MaxFrame THEN MaxFrame ELSE n

InPlay(p) == p.active # NoPiece

-----------------------------------------------------------------------------
(* The board.                                                              *)

\* Beside and below the board is solid, above it is open air.
IsBlocked(board, c) == c[1] \notin Columns \/ c[2] >= BoardH \/ c \in board

PieceCells(a) == {<<a.x + o[1], a.y + o[2]>> : o \in Shapes[a.type][a.rot]}

Collides(board, a) == \E c \in PieceCells(a) : IsBlocked(board, c)

Shifted(a, dx, dy) == [a EXCEPT !.x = @ + dx, !.y = @ + dy]

\* How far a piece can go in one direction; dropDistance, and the wall of an
\* instant auto-repeat.
FreeDistance(board, a, dx, dy) ==
    LET stops == {d \in 0..BoardW + BoardH + 4 :
                     /\ \A k \in 1..d : ~Collides(board, Shifted(a, k * dx, k * dy))
                     /\ Collides(board, Shifted(a, (d + 1) * dx, (d + 1) * dy))}
    IN  IF stops = {} THEN 0 ELSE CHOOSE d \in stops : TRUE

\* lockPiece: what sticks out above the board is lost.
LockPiece(board, a) == board \cup (PieceCells(a) \cap Cells)

FullRows(board) == {y \in 0..BoardH - 1 : \A x \in Columns : <<x, y>> \in board}

\* clearFullRows: every row falls by the number of full rows below it.
ClearFullRows(board) ==
    LET full == FullRows(board)
        Fallen(c) == <<c[1], c[2] + Cardinality({y \in full : y > c[2]})>>
    IN  {Fallen(c) : c \in {b \in board : b[2] \notin full}}

\* Mutant: rows without a hole.
PushSolidGarbage(board, batch) ==
    LET n == IF batch.amount < BoardH THEN batch.amount ELSE BoardH
    IN  {<<c[1], c[2] - n>> : c \in {b \in board : b[2] >= n}}
        \cup {<<x, y>> : x \in Columns, y \in BoardH - n..BoardH - 1}

\* pushGarbage: the rows at the top are discarded.
PushGarbage(board, batch) ==
    LET n == IF batch.amount < BoardH THEN batch.amount ELSE BoardH
    IN  {<<c[1], c[2] - n>> : c \in {b \in board : b[2] >= n}}
        \cup {<<x, y>> : x \in Columns \ {batch.holeColumn}, y \in BoardH - n..BoardH - 1}

-----------------------------------------------------------------------------
(* Pieces: spawning, moving, turning, holding.                             *)

SetLast(p, action, kick) == [p EXCEPT !.lastAction = action, !.lastKickIndex = kick]

SpawnPiece(type) ==
    [type |-> type, rot |-> 0, x |-> (BoardW - BoxSize(type)) \div 2,
     y |-> IF type = "I" THEN Hidden - 3 ELSE Hidden - 2]

\* A spawn of the given type that is blocked tops the player out.
Spawn(p, type) ==
    LET piece == SpawnPiece(type)
        fresh == [p EXCEPT !.active = piece, !.holdUsed = FALSE, !.gravityTicks = 0,
                           !.lockTicks = 0, !.lockResets = 0,
                           !.lastAction = "none", !.lastKickIndex = -1]
    IN  IF Collides(p.board, piece)
        THEN [fresh EXCEPT !.alive = FALSE, !.active = NoPiece]
        ELSE fresh

\* The next piece of the sequence.
SpawnNext(p) == Spawn([p EXCEPT !.bagIndex = @ + 1], sequence[p.bagIndex + 1])

TryMove(p, dx, dy) ==
    LET moved == Shifted(p.active, dx, dy)
    IN  IF Collides(p.board, moved) THEN p ELSE [p EXCEPT !.active = moved]

TryResetLock(p) ==
    IF p.lockTicks > 0 /\ p.lockResets < MaxLockResets
    THEN [p EXCEPT !.lockTicks = 0, !.lockResets = @ + 1]
    ELSE p

Kicked(a, to, i) ==
    LET kick == KicksFor(a.type, a.rot, to)[i]
    IN  [a EXCEPT !.rot = to, !.x = @ + kick[1], !.y = @ + kick[2]]

\* Mutant: the piece is turned in place, unseen.
UncheckedKick(board, a, to) == {1}

\* The first kick that fits: a set of one number, or none.
FirstKick(board, a, to) ==
    {i \in 1..Len(KicksFor(a.type, a.rot, to)) :
        /\ ~Collides(board, Kicked(a, to, i))
        /\ \A j \in 1..i - 1 : Collides(board, Kicked(a, to, j))}

TryRotate(p, to) ==
    LET first == FirstKick(p.board, p.active, to)
        i == CHOOSE i \in first : TRUE
    IN  IF first = {} THEN p
        ELSE TryResetLock(SetLast([p EXCEPT !.active = Kicked(@, to, i)], "rotate", i - 1))

\* One hold per piece: the piece it brings cannot be held again.
DoHold(p) ==
    LET held == [p EXCEPT !.hold = p.active.type]
        swapped == IF p.hold = Null THEN SpawnNext(held) ELSE Spawn(held, p.hold)
    IN  IF p.holdUsed THEN p
        ELSE SetLast([swapped EXCEPT !.holdUsed = TRUE], "hold", -1)

\* detectTSpin, asked at the moment of a lock.
TSpin(p) ==
    LET a == p.active
        Blocked(offsets) == {o \in offsets : IsBlocked(p.board, <<a.x + TCenter[1] + o[1],
                                                                  a.y + TCenter[2] + o[2]>>)}
        tspin == /\ a.type = "T" /\ p.lastAction = "rotate"
                 /\ Cardinality(Blocked(TCorners)) >= 3
        full == Blocked(TFrontCorners(a.rot)) = TFrontCorners(a.rot) \/ p.lastKickIndex = 4
    IN  [tspin |-> tspin, mini |-> tspin /\ ~full]

-----------------------------------------------------------------------------
(* Locking.                                                                *)

\* Mutant: nothing is cancelled.
ScoreClearUncancelled(p, lines, spin) ==
    LET kind == ClassifyClear(lines, spin.tspin, spin.mini)
        amount == AttackFor(kind, p.backToBack, p.combo + 1, p.board = {})
    IN  [p EXCEPT !.linesCleared = @ + lines, !.combo = @ + 1,
                  !.backToBack = IsB2BClear(kind) \/ (@ /\ ~BreaksB2B(kind)),
                  !.attackSent = @ + amount]

\* A clear scores and cancels the player's own queue.
ScoreClear(p, lines, spin) ==
    LET kind == ClassifyClear(lines, spin.tspin, spin.mini)
        amount == AttackFor(kind, p.backToBack, p.combo + 1, p.board = {})
        cancel == CancelIncoming(p.garbageQueue, amount)
    IN  [p EXCEPT !.linesCleared = @ + lines, !.combo = @ + 1,
                  !.backToBack = IsB2BClear(kind) \/ (@ /\ ~BreaksB2B(kind)),
                  !.garbageQueue = cancel.queue, !.attackSent = @ + cancel.left]

\* A lock that cleared nothing lets in the garbage that is due.
ApplyReadyGarbage(p) ==
    LET due == DueCount(p.garbageQueue, frame)
        landing == SubSeq(p.garbageQueue, 1, due)
    IN  [p EXCEPT !.board = FoldLeft(PushGarbage, @, landing),
                  !.garbageQueue = SubSeq(@, due + 1, Len(@)),
                  !.landed = @ + Pending(landing)]

ResolveLock(p) ==
    LET stamped == LockPiece(p.board, p.active)
        lines == Cardinality(FullRows(stamped))
        locked == [p EXCEPT !.board = ClearFullRows(stamped), !.active = NoPiece,
                            !.spawnTicks = SpawnDelay,
                            !.lastAction = "none", !.lastKickIndex = -1,
                            !.over = @ + Cardinality(PieceCells(p.active) \ Cells)]
    IN  IF lines > 0 THEN ScoreClear(locked, lines, TSpin(p))
        ELSE ApplyReadyGarbage([locked EXCEPT !.combo = -1])

-----------------------------------------------------------------------------
(* One tick of a player with a piece, in the order of the code.            *)

Turn(p, input) ==
    LET cw == IF "rotCW" \in input.pressed THEN TryRotate(p, RotateCW(p.active.rot)) ELSE p
        ccw == IF "rotCCW" \in input.pressed THEN TryRotate(cw, RotateCCW(cw.active.rot)) ELSE cw
    IN  IF "rot180" \in input.pressed THEN TryRotate(ccw, Rotate180(ccw.active.rot)) ELSE ccw

\* A sideways move of d cells that are known to be free.
Slide(p, dir, d) ==
    IF d = 0 THEN p
    ELSE TryResetLock(SetLast([p EXCEPT !.active = Shifted(@, dir * d, 0)], "move", -1))

SlideOne(p, dir) == Slide(p, dir, IF Collides(p.board, Shifted(p.active, dir, 0)) THEN 0 ELSE 1)

\* Delayed auto-shift, then auto-repeat; both keys held cancel out.
Sideways(p, input) ==
    LET left == "left" \in input.held
        right == "right" \in input.held
        dir == IF left THEN -1 ELSE 1
        tapped == ("left" \in input.pressed) # ("right" \in input.pressed)
        waited == [p EXCEPT !.dasTicks = Capped(@ + 1)]
    IN  IF left = right THEN [p EXCEPT !.dasTicks = 0, !.arrTicks = 0]
        ELSE IF tapped THEN SlideOne([p EXCEPT !.dasTicks = 0, !.arrTicks = 0], dir)
        ELSE IF waited.dasTicks < Das THEN waited
        ELSE IF Arr = 0 THEN Slide(waited, dir, FreeDistance(p.board, p.active, dir, 0))
        ELSE IF p.arrTicks + 1 < Arr THEN [waited EXCEPT !.arrTicks = @ + 1]
        ELSE SlideOne([waited EXCEPT !.arrTicks = 0], dir)

HardDrop(p) ==
    LET d == FreeDistance(p.board, p.active, 0, 1)
        dropped == SetLast([p EXCEPT !.active = Shifted(@, 0, d)], "hardDrop", -1)
    IN  ResolveLock(IF d > 0 THEN dropped ELSE p)

\* Mutant: the gravity counter is never advanced.
FallNever(p, input) ==
    LET free == FreeDistance(p.board, p.active, 0, 1)
        d == IF free < SoftDropCells THEN free ELSE SoftDropCells
    IN  IF "softDrop" \in input.held /\ d > 0
        THEN SetLast([p EXCEPT !.active = Shifted(@, 0, d)], "softDrop", -1)
        ELSE p

Fall(p, input) ==
    LET free == FreeDistance(p.board, p.active, 0, 1)
        d == IF free < SoftDropCells THEN free ELSE SoftDropCells
    IN  IF "softDrop" \in input.held
        THEN IF d = 0 THEN p
             ELSE [SetLast([p EXCEPT !.active = Shifted(@, 0, d)], "softDrop", -1)
                      EXCEPT !.gravityTicks = 0]
        ELSE IF p.gravityTicks + 1 >= Gravity[frame]
        THEN TryMove([p EXCEPT !.gravityTicks = 0], 0, 1)
        ELSE [p EXCEPT !.gravityTicks = @ + 1]

\* Mutants: a timer survives the fall; garbage lands beside a falling piece.
RestTimerKept(p) ==
    LET waited == [p EXCEPT !.lockTicks = @ + 1]
    IN  IF ~Collides(p.board, Shifted(p.active, 0, 1)) THEN p
        ELSE IF waited.lockTicks >= LockDelay THEN ResolveLock(waited) ELSE waited
\* The lock delay runs while the piece rests on something.
Rest(p) ==
    IF ~Collides(p.board, Shifted(p.active, 0, 1)) THEN [p EXCEPT !.lockTicks = 0]
    ELSE LET waited == [p EXCEPT !.lockTicks = @ + 1]
         IN  IF waited.lockTicks >= LockDelay THEN ResolveLock(waited) ELSE waited

Steer(p, input) ==
    LET aimed == Sideways(Turn(p, input), input)
    IN  IF "hardDrop" \in input.pressed THEN HardDrop(aimed) ELSE Rest(Fall(aimed, input))

\* stepPlayer.
StepPlayer(p, input) ==
    LET spawned == IF InPlay(p) THEN p ELSE SpawnNext(p)
        held == IF "hold" \in input.pressed THEN DoHold(spawned) ELSE spawned
    IN  IF ~p.alive THEN p
        ELSE IF ~InPlay(p) /\ p.spawnTicks > 0 THEN [p EXCEPT !.spawnTicks = @ - 1]
        ELSE IF ~spawned.alive THEN spawned
        ELSE IF ~held.alive THEN held
        ELSE Steer(held, input)

-----------------------------------------------------------------------------

Init ==
    /\ sequence \in [1..MaxPieces -> Types]
    /\ frame = 0
    /\ player = NewPlayer

\* The bound: a tick deals at most two pieces (a spawn, then a hold).
Deals(input) == player.bagIndex + (IF InPlay(player) THEN 0 ELSE 1)
                    + (IF "hold" \in input.pressed /\ player.hold = Null THEN 1 ELSE 0)

\* A tick; an attack of the opponent may be delivered at its end.
Tick(input) ==
    /\ player.alive
    /\ Deals(input) <= MaxPieces
    /\ \E stepped \in {StepPlayer(player, input)} :
        \/ player' = stepped
        \/ /\ stepped.alive /\ frame + GarbageDelay <= MaxFrame
           /\ \E amount \in Attacks, hole \in Columns :
                player' = [stepped EXCEPT !.garbageQueue =
                               Receive(@, [amount |-> amount, holeColumn |-> hole,
                                           readyAtFrame |-> frame + GarbageDelay])]
    /\ frame' = Capped(frame + 1)
    /\ UNCHANGED sequence

Next == \E input \in Inputs : Tick(input)

Spec == Init /\ [][Next]_vars

Idle == [pressed |-> {}, held |-> {}]

-----------------------------------------------------------------------------
(* Properties.                                                             *)

\* The state has the shape the code gives it.
TypeOK ==
    /\ sequence \in [1..MaxPieces -> Types]
    /\ frame \in 0..MaxFrame
    /\ player \in Player

\* The piece in play never overlaps the stack, a wall or the floor: not after a
\* kick, an instant slide, a spawn, a swap, nor when garbage raises the stack.
PieceNeverOverlaps == InPlay(player) => ~Collides(player.board, player.active)

\* No cell is lost or made up: what was dealt and is neither in play nor held is
\* on the board, went with a cleared row or was locked above the top, and garbage
\* brings a row less one cell.  Only what garbage pushes out vanishes, and a full row does
\* not outlive the lock that fills it, also when garbage follows.
CellsConserved ==
    LET p == player
        away == (IF InPlay(p) THEN 1 ELSE 0) + (IF p.hold = Null THEN 0 ELSE 1)
        placed == Cardinality(p.board) + BoardW * p.linesCleared + p.over
        brought == 4 * (p.bagIndex - away) + (BoardW - 1) * p.landed
    IN  p.alive => /\ placed <= brought
                   /\ p.landed = 0 => placed = brought
                   /\ FullRows(p.board) = {}

\* The lock delay runs only while the piece rests, and never past its end: no
\* order of moves, swaps and drops leaves a timer from an earlier position.
LockTimerOnlyAtRest ==
    InPlay(player) /\ player.lockTicks > 0 =>
        /\ Collides(player.board, Shifted(player.active, 0, 1))
        /\ player.lockTicks < LockDelay
        /\ player.lockResets <= MaxLockResets

\* A piece whose player lets go of every key falls, rests and locks within the
\* time gravity takes to the floor and the lock delay, whatever was done to it before.
IdlePieceLocks ==
    LET limit == Gravity[frame] * (BoardH - 1 - player.active.y) + LockDelay
        LeftAlone[n \in 0..limit] ==
            IF n = 0 THEN player
            ELSE LET before == LeftAlone[n - 1]
                 IN  IF InPlay(before) THEN StepPlayer(before, Idle) ELSE before
    IN  InPlay(player) => ~InPlay(LeftAlone[limit])

=============================================================================
