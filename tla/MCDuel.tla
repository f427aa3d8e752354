------------------------------- MODULE MCDuel -------------------------------
(* Instances of Duel for TLC.                                              *)
EXTENDS Duel

Clear(n, spin, mn, pc) == [lines |-> n, tspin |-> spin, mini |-> mn, perfect |-> pc]

\* A double and a tetris: the one starts no chain and the other does, and
\* with combos they send different amounts, so queues are cancelled in part.
TwoClears == {Clear(2, FALSE, FALSE, FALSE), Clear(4, FALSE, FALSE, FALSE)}

=============================================================================
