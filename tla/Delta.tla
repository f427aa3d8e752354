------------------------------- MODULE Delta -------------------------------
(***************************************************************************)
(* packages/core/src/serialize.ts and delta.ts: a match state as bytes, and*)
(* a run-length diff of two snapshots.                                     *)
(*                                                                         *)
(* A state is reduced to a record of one player: what comes before the     *)
(* garbage queue, the queue, which makes snapshots differ in length, and   *)
(* what comes after it.  A varint is one item of a frame: its width and    *)
(* the packing of its bits are left out.                                   *)
(***************************************************************************)
EXTENDS Integers, Sequences, FiniteSetsExt, SequencesExt

\* serialize, writePlayer: fixed fields, the length of the queue, its rows,
\* more fixed fields.
Serialize(state) ==
    state.board \o <<Len(state.queue)>> \o state.queue \o <<state.alive>>

Undefined == -1

\* Reader.u8: past the end of the buffer it returns undefined.
ByteAt(bytes, i) == IF i \in DOMAIN bytes THEN bytes[i] ELSE Undefined

\* deserialize, readPlayer.  The board has a fixed number of cells.
Deserialize(bytes, cells) ==
    LET rows == ByteAt(bytes, cells + 1) IN
    [board |-> [i \in 1..cells |-> ByteAt(bytes, i)],
     queue |-> [i \in 1..rows |-> ByteAt(bytes, cells + 1 + i)],
     alive |-> ByteAt(bytes, cells + rows + 2)]

-----------------------------------------------------------------------------
(* Encoding *)

\* encodeFullFrame
FullFrame(next) == [full |-> TRUE, body |-> next]

\* How many bytes after the first i are those of the base ...
SameRun(base, next, i) ==
    LET shared == Min({Len(base), Len(next)}) IN
    Max({n \in 0..Len(next) : i + n <= shared /\ \A k \in i + 1..i + n : base[k] = next[k]}
        \cup {0})

\* ... and how many are not, or lie beyond it.
DiffRun(base, next, i) ==
    Max({n \in 0..Len(next) - i :
            \A k \in i + 1..i + n : k > Len(base) \/ base[k] # next[k]})

\* The runs that describe next from its byte i + 1 on.
Runs(base, next) ==
    LET from[i \in 0..Len(next)] ==
            LET same == SameRun(base, next, i)
                j    == i + same
                diff == DiffRun(base, next, j)
            IN  CASE i = Len(next) -> <<>>
                  [] i < Len(next) /\ j = Len(next) -> <<same>>
                  [] OTHER -> <<same, diff>> \o SubSeq(next, j + 1, j + diff) \o from[j + diff]
    IN  from[0]

\* encodeSnapshotFrame: a diff that is not shorter than the snapshot is not sent.
SnapshotFrame(base, next) ==
    LET body == <<Len(next)>> \o Runs(base, next) IN
    IF base = <<>> \/ Len(body) >= Len(next) THEN FullFrame(next)
    ELSE [full |-> FALSE, body |-> body]

-----------------------------------------------------------------------------
(* Decoding: a sequence of bytes, or Failed where the code throws *)

Failed == <<-2>>   \* no byte is negative

\* What is decoded from item c of the body on, when i bytes are there.
Decoded(base, body, length) ==
    LET shared == Min({Len(base), length})
        rest[c \in 2..Len(body) + 1] == [i \in 0..length |->
            IF i = length THEN <<>>
            ELSE IF c > Len(body) THEN Failed
            ELSE LET j == i + body[c] IN
                 IF body[c] > 0 /\ j > shared THEN Failed
                 ELSE SubSeq(base, i + 1, j) \o
                      (IF j = length THEN <<>>
                       ELSE IF c = Len(body) THEN Failed
                       ELSE LET diff == body[c + 1]
                                tail == c + 2 + diff
                            IN  IF diff = 0 \/ j + diff > length \/ tail > Len(body) + 1
                                THEN Failed
                                ELSE SubSeq(body, c + 2, tail - 1) \o rest[tail][j + diff])]
        bytes == rest[2][0]
    IN  IF bytes # <<>> /\ Last(bytes) = Failed[1] THEN Failed ELSE bytes

\* decodeSnapshotFrame.  No baseline is the empty sequence.
DecodeFrame(base, frame) ==
    IF frame.full THEN frame.body
    ELSE IF base = <<>> THEN Failed
    ELSE Decoded(base, frame.body, frame.body[1])
=============================================================================
