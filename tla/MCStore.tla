------------------------------ MODULE MCStore ------------------------------
(* Two accounts and a guest: a win between the accounts, a draw, a match     *)
(* against a guest, and a forfeit in a match of one account against itself   *)
(* (two tabs).  q can lose down to the floor and below it.                   *)
EXTENDS Store, TLC

CONSTANTS p, q, d1, d2

\* Elo on a small scale: the expected score is half at equal ratings, and all
\* or nothing from a difference of two.
MCRatingDelta(rating, opponent, score) ==
    score - (IF rating >= opponent + 2 THEN 2 ELSE IF rating + 2 <= opponent THEN 0 ELSE 1)

Match(s0, s1, winner, reason, day) ==
    [sides |-> [n \in Seats |-> IF n = 0 THEN s0 ELSE s1], winner |-> winner,
     reason |-> reason, day |-> day]

MCOutcomes == {Match(p, q, 0, "topout", d1), Match(q, p, Nobody, "topout", d2),
               Match(Guest, p, 0, "topout", d2), Match(q, q, 1, "forfeit", d1)}
=============================================================================
