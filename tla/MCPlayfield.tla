---------------------------- MODULE MCPlayfield ----------------------------
(* An instance of Playfield for TLC: every way to move a piece (taps,       *)
(* auto-repeat, turns, drops and a swap), aiming and dropping in one tick,  *)
(* gravity that grows after two ticks, and attacks of a row each.           *)
EXTENDS PlayfieldDuel

Press(pressed, held) == [pressed |-> pressed, held |-> held]

MCInputs ==
    {Idle, Press({"left"}, {"left"}), Press({}, {"right"}), Press({"rotCW"}, {}),
     Press({"rot180"}, {}), Press({}, {"softDrop"}), Press({"hardDrop"}, {}), Press({"hold"}, {}),
     Press({"left", "hardDrop"}, {"left"}), Press({"right", "hardDrop"}, {"right"})}

MCGravity == [f \in 0..MaxFrame |-> IF f < 2 THEN 2 ELSE 1]

=============================================================================
