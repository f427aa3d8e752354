------------------------------ MODULE Garbage ------------------------------
(***************************************************************************)
(* The queue of garbage waiting for one player, packages/core/src/         *)
(* match.ts: cancelled from its head, extended at its end, and released    *)
(* from its head once the telegraph of a batch is over.  A batch is a      *)
(* record with at least an amount and a readyAtFrame.                      *)
(***************************************************************************)
EXTENDS Integers, Sequences, SequencesExt

Pending(queue) == FoldLeft(LAMBDA sum, b : sum + b.amount, 0, queue)

\* cancelIncoming: what is left of the amount, and of the queue.
CancelIncoming(queue, amount) ==
    LET Take(acc, b) ==
            LET taken == IF b.amount < acc.left THEN b.amount ELSE acc.left
            IN  [left |-> acc.left - taken,
                 queue |-> IF taken = b.amount THEN acc.queue
                           ELSE Append(acc.queue, [b EXCEPT !.amount = @ - taken])]
    IN  FoldLeft(Take, [left |-> amount, queue |-> <<>>], queue)

\* An attack arrives: it too cancels, and only its remainder waits.
Receive(queue, batch) ==
    LET cancel == CancelIncoming(queue, batch.amount)
    IN  IF cancel.left = 0 THEN cancel.queue
        ELSE Append(cancel.queue, [batch EXCEPT !.amount = cancel.left])

\* How many batches applyReadyGarbage takes: it looks no further than the first
\* one whose telegraph is not over.
DueCount(queue, frame) ==
    CHOOSE n \in 0..Len(queue) :
        /\ \A i \in 1..n : queue[i].readyAtFrame <= frame
        /\ n < Len(queue) => queue[n + 1].readyAtFrame > frame

=============================================================================
