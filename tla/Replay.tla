------------------------------- MODULE Replay -------------------------------
(***************************************************************************)
(* packages/core/src/replay.ts: the inputs of a match as one word a tick   *)
(* and the words as runs.  A varint is one item: its bytes are left out.   *)
(***************************************************************************)
EXTENDS Integers, Sequences, FiniteSetsExt

CONSTANTS
    Actions,       \* a set of ActionName
    BitOf          \* BIT_OF: its position in REPLAY_ACTIONS

ASSUME ReplayAssumption ==
    /\ BitOf \in [Actions -> 0..7]
    /\ \A a, b \in Actions : BitOf[a] = BitOf[b] => a = b

\* maskOf and actionsOf: a bit for each action.
Bit(actions, b) == IF \E a \in actions : BitOf[a] = b THEN 1 ELSE 0

MaskOf(actions) ==
    Bit(actions, 0) + 2 * Bit(actions, 1) + 2 ^ 2 * Bit(actions, 2) + 2 ^ 3 * Bit(actions, 3)
    + 2 ^ 4 * Bit(actions, 4) + 2 ^ 5 * Bit(actions, 5) + 2 ^ 6 * Bit(actions, 6)
    + 2 ^ 7 * Bit(actions, 7)

ActionsOf(mask) == {a \in Actions : (mask \div 2 ^ BitOf[a]) % 2 = 1}

\* packTick and unpackTick: the two seats' inputs in one word of 32 bits.
PackTick(inputs) ==
    MaskOf(inputs[0].pressed) + 2 ^ 8 * MaskOf(inputs[0].held)
    + 2 ^ 16 * MaskOf(inputs[1].pressed) + 2 ^ 24 * MaskOf(inputs[1].held)

UnpackTick(word) ==
    LET byte(k) == (word \div 2 ^ (8 * k)) % 2 ^ 8 IN
    [p \in {0, 1} |-> [pressed |-> ActionsOf(byte(2 * p)), held |-> ActionsOf(byte(2 * p + 1))]]

\* The words after the first i that are the same as the next one.
RunAfter(words, i) ==
    Max({n \in 1..Len(words) - i : \A k \in i + 1..i + n : words[k] = words[i + 1]})

\* MUTANT: a word that comes again later belongs to the run.
RunsOfAnyWord(words) ==
    LET from[i \in 0..Len(words)] ==
            IF i = Len(words) THEN <<>>
            ELSE LET run == Cardinality({k \in i + 1..Len(words) : words[k] = words[i + 1]})
                 IN  <<words[i + 1], run>> \o from[i + run]
    IN  <<Len(words)>> \o from[0]

\* encodeReplay
EncodeReplay(words) ==
    LET from[i \in 0..Len(words)] ==
            IF i = Len(words) THEN <<>>
            ELSE LET run == RunAfter(words, i) IN <<words[i + 1], run>> \o from[i + run]
    IN  <<Len(words)>> \o from[0]

Malformed == <<-1>>   \* decodeReplay throws; no word is negative

\* decodeReplay
DecodeReplay(body) ==
    LET ticks == body[1]
        from[c \in 2..Len(body) + 1] == [i \in 0..ticks |->
            IF i = ticks THEN IF c = Len(body) + 1 THEN <<>> ELSE Malformed
            ELSE IF c + 1 > Len(body) THEN Malformed
            ELSE LET run == body[c + 1] IN
                 IF run = 0 \/ i + run > ticks THEN Malformed
                 ELSE [k \in 1..run |-> body[c]] \o from[c + 2][i + run]]
    IN  from[2][0]

\* replayInputs
ReplayInputs(words) == [i \in DOMAIN words |-> UnpackTick(words[i])]
=============================================================================
