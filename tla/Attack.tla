------------------------------- MODULE Attack -------------------------------
(***************************************************************************)
(* Scoring of a line clear into outgoing garbage, packages/core/src/       *)
(* attack.ts: pure functions of the clear, the back-to-back chain and the  *)
(* combo.                                                                  *)
(***************************************************************************)
EXTENDS Integers, Sequences

PlainKinds == <<"single", "double", "triple", "tetris">>
SpinKinds == <<"tspin-single", "tspin-double", "tspin-triple">>
ClearKinds == {PlainKinds[i] : i \in 1..4} \cup {SpinKinds[i] : i \in 1..3} \cup {"tspin-mini"}

\* What a clear is called; only asked of a lock that cleared at least one line.
ClassifyClear(lines, tspin, mini) ==
    IF tspin /\ mini /\ lines = 1 THEN "tspin-mini"
    ELSE IF tspin THEN SpinKinds[IF lines < 3 THEN lines ELSE 3]
    ELSE PlainKinds[IF lines < 4 THEN lines ELSE 4]

BaseAttack ==
    [k \in ClearKinds |->
        CASE k \in {"single", "tspin-mini"} -> 0
          [] k = "double" -> 1
          [] k \in {"triple", "tspin-single"} -> 2
          [] k \in {"tetris", "tspin-double"} -> 4
          [] k = "tspin-triple" -> 6]

PerfectClearBonus == 10
B2BBonus == 1
ComboTable == <<0, 0, 1, 1, 1, 2, 2, 3, 3, 4, 4, 4, 4, 5>>

IsB2BClear(kind) == kind = "tetris" \/ kind = "tspin-mini" \/ \E i \in 1..3 : kind = SpinKinds[i]

\* No clear is of kind 'perfect-clear', so every other kind breaks the chain.
BreaksB2B(kind) == ~IsB2BClear(kind)

\* The table is indexed from 0 in the source and clamped at its last entry.
ComboBonus(combo) ==
    IF combo <= 0 THEN 0 ELSE ComboTable[IF combo < 13 THEN combo + 1 ELSE 14]

AttackFor(kind, b2bActive, combo, perfect) ==
    BaseAttack[kind] + (IF b2bActive /\ IsB2BClear(kind) THEN B2BBonus ELSE 0)
                     + ComboBonus(combo)
                     + (IF perfect THEN PerfectClearBonus ELSE 0)

=============================================================================
