----------------------------- MODULE WriteQueue -----------------------------
(***************************************************************************)
(* The deferred writes of the store, packages/store/src/queue.ts.  A push  *)
(* is an append; a timer, a full batch or a stop takes everything that     *)
(* waits and hands it to flush.  The code keeps numbers of what became of  *)
(* the items, the model keeps the items.                                   *)
(*                                                                         *)
(* A drain is two steps, its start and the return (or the exception) of    *)
(* flush, because flush belongs to somebody else: it can fail, the process *)
(* can end in it, and it may push.                                         *)
(***************************************************************************)
EXTENDS Integers, Sequences

CONSTANTS
    MaxBatch,    \* maxBatch: a backlog of this size is drained at once
    MaxPending   \* maxPending: the oldest beyond this are dropped

ASSUME QueueAssumption ==
    /\ MaxBatch \in Nat \ {0}
    /\ MaxPending \in Nat \ {0}

VARIABLES
    pending,   \* what waits, oldest first
    batch,     \* what flush has been given, <<>> unless it is running
    timer,     \* whether the interval is set
    log,       \* history: everything pushed, in order
    written,   \* what flush returned from
    dropped,   \* what was dropped at the limit
    failed     \* what flush threw away

queueVars == <<pending, batch, timer, log, written, dropped, failed>>

Draining == batch # <<>>

QueueInit ==
    /\ pending = <<>> /\ batch = <<>> /\ timer = FALSE
    /\ log = <<>> /\ written = <<>> /\ dropped = <<>> /\ failed = <<>>

\* Mutant: what has been handed over still waits.
DrainOfCopy(q) ==
    IF Draining \/ q = <<>>
    THEN pending' = q /\ batch' = batch
    ELSE pending' = q /\ batch' = q

\* drain with q waiting: nothing while a flush is running or when q is empty.
DrainOf(q) ==
    IF Draining \/ q = <<>>
    THEN pending' = q /\ batch' = batch
    ELSE pending' = <<>> /\ batch' = q

\* Mutant: a full batch is drained one item late.
PushLate(x) ==
    LET all == Append(pending, x)
        excess == IF Len(all) > MaxPending THEN Len(all) - MaxPending ELSE 0
        kept == SubSeq(all, excess + 1, Len(all))
    IN  /\ log' = Append(log, x)
        /\ dropped' = dropped \o SubSeq(all, 1, excess)
        /\ IF Len(kept) > MaxBatch THEN DrainOf(kept) ELSE pending' = kept /\ batch' = batch
        /\ UNCHANGED <<timer, written, failed>>

Push(x) ==
    LET all == Append(pending, x)
        excess == IF Len(all) > MaxPending THEN Len(all) - MaxPending ELSE 0
        kept == SubSeq(all, excess + 1, Len(all))
    IN  /\ log' = Append(log, x)
        /\ dropped' = dropped \o SubSeq(all, 1, excess)
        /\ IF Len(kept) >= MaxBatch THEN DrainOf(kept) ELSE pending' = kept /\ batch' = batch
        /\ UNCHANGED <<timer, written, failed>>

Drain ==
    /\ ~Draining /\ pending # <<>>
    /\ DrainOf(pending)
    /\ UNCHANGED <<timer, log, written, dropped, failed>>

FlushReturns ==
    /\ Draining
    /\ written' = written \o batch
    /\ batch' = <<>>
    /\ UNCHANGED <<pending, timer, log, dropped, failed>>

\* A batch that threw is not tried again.
FlushThrows ==
    /\ Draining
    /\ failed' = failed \o batch
    /\ batch' = <<>>
    /\ UNCHANGED <<pending, timer, log, written, dropped>>

Start ==
    /\ timer' = TRUE
    /\ UNCHANGED <<pending, batch, log, written, dropped, failed>>

\* Mutant: the interval is cleared and the backlog left.
StopOnly ==
    /\ timer' = FALSE
    /\ UNCHANGED <<pending, batch, log, written, dropped, failed>>

Stop ==
    /\ timer' = FALSE
    /\ DrainOf(pending)
    /\ UNCHANGED <<log, written, dropped, failed>>
=============================================================================
