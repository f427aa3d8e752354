------------------------------- MODULE Pieces -------------------------------
(***************************************************************************)
(* Piece geometry, packages/core/src/pieces.ts: the cells of each piece in *)
(* each rotation and the offsets its rotations try, with y growing         *)
(* downward.  A cell or an offset is a pair <<x, y>>.                      *)
(***************************************************************************)
EXTENDS Integers, Sequences

PieceTypes == {"I", "J", "L", "O", "S", "T", "Z"}
Rotations == 0..3

\* The side of the box a piece turns in.
BoxSize(type) == CASE type = "I" -> 4 [] type = "O" -> 2 [] type \notin {"I", "O"} -> 3

SpawnShape ==
    [I |-> {<<0, 1>>, <<1, 1>>, <<2, 1>>, <<3, 1>>},
     J |-> {<<0, 0>>, <<0, 1>>, <<1, 1>>, <<2, 1>>},
     L |-> {<<2, 0>>, <<0, 1>>, <<1, 1>>, <<2, 1>>},
     O |-> {<<0, 0>>, <<1, 0>>, <<0, 1>>, <<1, 1>>},
     S |-> {<<1, 0>>, <<2, 0>>, <<0, 1>>, <<1, 1>>},
     T |-> {<<1, 0>>, <<0, 1>>, <<1, 1>>, <<2, 1>>},
     Z |-> {<<0, 0>>, <<1, 0>>, <<1, 1>>, <<2, 1>>}]

\* SHAPES: every row of the table is the row before it turned clockwise.
Turned(type, cells) == {<<BoxSize(type) - 1 - c[2], c[1]>> : c \in cells}

Shapes ==
    [type \in PieceTypes |->
        LET up == SpawnShape[type]
            right == Turned(type, up)
            down == Turned(type, right)
            left == Turned(type, down)
        IN  [r \in Rotations |-> CASE r = 0 -> up [] r = 1 -> right [] r = 2 -> down [] r = 3 -> left]]

RotateCW(r) == (r + 1) % 4
RotateCCW(r) == (r + 3) % 4
Rotate180(r) == (r + 2) % 4

Opposite(kicks) == [i \in 1..Len(kicks) |-> <<-kicks[i][1], -kicks[i][2]>>]

\* The half turns, the same for every piece but O.
HalfTurn(from) ==
    IF from \in {0, 1} THEN <<<<0, 0>>, <<0, -1>>, <<1, 0>>, <<-1, 0>>>>
    ELSE <<<<0, 0>>, <<0, -1>>, <<-1, 0>>, <<1, 0>>>>

\* KICKS_JLSTZ: to and from the piece turned right or left, whichever way it came.
KicksJLSTZ(from, to) ==
    LET toRight == <<<<0, 0>>, <<-1, 0>>, <<-1, -1>>, <<0, 2>>, <<-1, 2>>>>
        toLeft == <<<<0, 0>>, <<1, 0>>, <<1, -1>>, <<0, 2>>, <<1, 2>>>>
    IN  CASE to = 1 -> toRight
          [] from = 1 -> Opposite(toRight)
          [] to = 3 -> toLeft
          [] from = 3 -> Opposite(toLeft)

\* KICKS_I: two lists and their opposites.
KicksI(from, to) ==
    LET a == <<<<0, 0>>, <<-2, 0>>, <<1, 0>>, <<-2, 1>>, <<1, -2>>>>
        b == <<<<0, 0>>, <<-1, 0>>, <<2, 0>>, <<-1, -2>>, <<2, 1>>>>
    IN  CASE <<from, to>> \in {<<0, 1>>, <<3, 2>>} -> a
          [] <<from, to>> \in {<<1, 0>>, <<2, 3>>} -> Opposite(a)
          [] <<from, to>> \in {<<1, 2>>, <<0, 3>>} -> b
          [] <<from, to>> \in {<<2, 1>>, <<3, 0>>} -> Opposite(b)

KicksFor(type, from, to) ==
    IF type = "O" THEN <<<<0, 0>>>>
    ELSE IF to = Rotate180(from) THEN HalfTurn(from)
    ELSE IF type = "I" THEN KicksI(from, to)
    ELSE KicksJLSTZ(from, to)

\* The corners of the box around a T, as offsets from its centre, and the two
\* in front of it.
TCenter == <<1, 1>>
TCorners == {<<-1, -1>>, <<1, -1>>, <<-1, 1>>, <<1, 1>>}
TFrontCorners(rot) ==
    {c \in TCorners : CASE rot = 0 -> c[2] = -1
                        [] rot = 1 -> c[1] = 1
                        [] rot = 2 -> c[2] = 1
                        [] rot = 3 -> c[1] = -1}

=============================================================================
