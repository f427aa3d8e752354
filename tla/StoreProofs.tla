---------------------------- MODULE StoreProofs ----------------------------
(***************************************************************************)
(* What the store promises about its backlog, about where its results are  *)
(* and about its leaderboard, for any limits, results and ratings.  The    *)
(* backlog is a matter of the queue, the phase and the two places where    *)
(* they meet, a drain and close (IInv).  To follow every result, the       *)
(* invariant adds the order of all places a result can be in (Placed), and *)
(* what the match table and the running transaction have of the batch      *)
(* (Tabled).  For the leaderboard it adds what has been counted of the     *)
(* last row at each statement (Tallied); the ratings, a recursive function *)
(* of the match list, are followed by induction over it.                   *)
(***************************************************************************)
EXTENDS Store, SequenceTheorems, FiniteSetTheorems, WellFoundedInduction, TLAPS

\* The backlog and the log are sequences, and the pending part of the backlog
\* stays below a batch, also behind a batch that is being written.
Backlog ==
    /\ pending \in Seq(Result) /\ batch \in Seq(Result) /\ log \in Seq(Result)
    /\ written \in Seq(Result) /\ dropped \in Seq(Result) /\ failed \in Seq(Result)
    /\ made \in Nat /\ atClose \in Nat
    /\ Draining => pending = <<>>
    /\ MaxBatch <= MaxPending => dropped = <<>> /\ Len(pending) < MaxBatch

\* What is owed at each point of close.
Closing ==
    /\ phase \in {"open", "closing", "closed", "down"}
    /\ phase = "closing" => pending = <<>> /\ Len(log) = atClose
    /\ phase = "closed" => Len(pending) + Len(batch) <= Len(log) - atClose

IInv == Backlog /\ Closing

\* The names of what a push computes.
All(x) == Append(pending, x)
Excess(x) == IF Len(All(x)) > MaxPending THEN Len(All(x)) - MaxPending ELSE 0
Kept(x) == SubSeq(All(x), Excess(x) + 1, Len(All(x)))

-----------------------------------------------------------------------------
\* A push keeps at most the limit and, below it, everything.
LEMMA KeptFacts ==
    ASSUME NEW x \in Result, pending \in Seq(Result), MaxPending \in Nat \ {0}
    PROVE  /\ Kept(x) \in Seq(Result)
           /\ SubSeq(All(x), 1, Excess(x)) \in Seq(Result)
           /\ Len(Kept(x)) = Len(pending) + 1 - Excess(x)
           /\ Excess(x) \in Nat
           /\ Len(pending) < MaxPending =>
                  Excess(x) = 0 /\ SubSeq(All(x), 1, Excess(x)) = <<>>
<1>1. All(x) \in Seq(Result) /\ Len(All(x)) = Len(pending) + 1
  BY DEF All
<1>2. Excess(x) \in Nat /\ Excess(x) <= Len(All(x))
  BY <1>1 DEF Excess
<1>3. Len(pending) < MaxPending => Excess(x) = 0
  BY <1>1 DEF Excess
<1>4. Kept(x) \in Seq(Result) /\ Len(Kept(x)) = Len(pending) + 1 - Excess(x)
  BY <1>1, <1>2 DEF Kept
<1>5. SubSeq(All(x), 1, Excess(x)) \in Seq(Result)
  BY <1>1, <1>2
<1>6. Excess(x) = 0 => SubSeq(All(x), 1, Excess(x)) = <<>>
  BY <1>1
<1> QED
  BY <1>2, <1>3, <1>4, <1>5, <1>6

\* A drain moves the backlog or leaves it.
LEMMA DrainOfFacts ==
    ASSUME NEW q \in Seq(Result), batch \in Seq(Result), DrainOf(q)
    PROVE  /\ pending' \in Seq(Result) /\ batch' \in Seq(Result)
           /\ ~Draining => pending' = <<>>
           /\ pending' = q \/ pending' = <<>>
           /\ Len(pending') + Len(batch') <= Len(q) + Len(batch)
           /\ Draining => pending' = q /\ batch' = batch
BY DEF DrainOf, Draining

\* Nothing joined to nothing.
LEMMA DroppedNothing == <<>> \o <<>> = <<>>
OBVIOUS

\* A result pushed outside a flush, as recordMatch does.
LEMMA PushFacts ==
    ASSUME NEW x \in Result, Backlog, ~Draining, Push(x)
    PROVE  /\ pending' \in Seq(Result) /\ batch' \in Seq(Result) /\ dropped' \in Seq(Result)
           /\ log' \in Seq(Result) /\ Len(log') = Len(log) + 1
           /\ Draining' => pending' = <<>>
           /\ MaxBatch <= MaxPending => dropped' = <<>> /\ Len(pending') < MaxBatch
           /\ Len(pending') + Len(batch') <= Len(pending) + Len(batch) + 1
           /\ UNCHANGED <<timer, written, failed>>
<1>1. MaxBatch \in Nat \ {0} /\ MaxPending \in Nat \ {0}
  BY QueueAssumption DEF QueueAssumption
<1>2. pending \in Seq(Result) /\ batch = <<>> /\ dropped \in Seq(Result) /\ log \in Seq(Result)
  BY DEF Backlog, Draining
<1>3. /\ log' = Append(log, x)
      /\ dropped' = dropped \o SubSeq(All(x), 1, Excess(x))
      /\ IF Len(Kept(x)) >= MaxBatch THEN DrainOf(Kept(x))
         ELSE pending' = Kept(x) /\ batch' = batch
      /\ UNCHANGED <<timer, written, failed>>
  BY DEF Push, All, Excess, Kept
<1>4. /\ Kept(x) \in Seq(Result) /\ SubSeq(All(x), 1, Excess(x)) \in Seq(Result)
      /\ Len(Kept(x)) = Len(pending) + 1 - Excess(x) /\ Excess(x) \in Nat
      /\ Len(pending) < MaxPending => SubSeq(All(x), 1, Excess(x)) = <<>>
  BY <1>1, <1>2, KeptFacts
<1>5. log' \in Seq(Result) /\ Len(log') = Len(log) + 1
  BY <1>2, <1>3
<1>6. dropped' \in Seq(Result)
  BY <1>2, <1>3, <1>4
<1>7. MaxBatch <= MaxPending => dropped' = <<>>
  <2>1. HAVE MaxBatch <= MaxPending
  <2>2. dropped = <<>> /\ Len(pending) < MaxPending
    BY <1>1, <1>2, <2>1 DEF Backlog
  <2> QED
    BY <1>3, <1>4, <2>2, DroppedNothing
<1>8. CASE Len(Kept(x)) >= MaxBatch
  <2>1. pending' = <<>> /\ batch' = Kept(x)
    <3>1. Kept(x) # <<>>
      BY <1>1, <1>4, <1>8
    <3> QED
      BY <1>2, <1>3, <1>8, <3>1 DEF DrainOf, Draining
  <2>2. /\ pending' \in Seq(Result) /\ batch' \in Seq(Result)
        /\ Len(pending') = 0 /\ Len(batch') <= Len(pending) + Len(batch) + 1
    BY <2>1, <1>2, <1>4
  <2> QED
    BY <2>1, <2>2, <1>1, <1>2, <1>3, <1>5, <1>6, <1>7
<1>9. CASE Len(Kept(x)) < MaxBatch
  <2>1. pending' = Kept(x) /\ batch' = <<>>
    BY <1>1, <1>2, <1>3, <1>4, <1>9
  <2>2. /\ pending' \in Seq(Result) /\ batch' \in Seq(Result)
        /\ Len(pending') < MaxBatch /\ Len(pending') + Len(batch') <= Len(pending) + Len(batch) + 1
    BY <2>1, <1>1, <1>2, <1>4, <1>9
  <2>3. ~Draining'
    BY <2>1 DEF Draining
  <2> QED
    BY <2>2, <2>3, <1>3, <1>5, <1>6, <1>7
<1> QED
  BY <1>1, <1>4, <1>8, <1>9

-----------------------------------------------------------------------------
\* A step of a transaction other than its end leaves the queue alone; its end
\* empties the batch.
LEMMA TransactionFacts ==
    ASSUME IInv, Transaction
    PROVE  IInv'
<1>1. CASE InsertMatch \/ (\E p \in Seats : BumpSeat(p)) \/ CountDay
  <2>1. UNCHANGED <<queueVars, made, phase, atClose>>
    BY <1>1 DEF InsertMatch, BumpSeat, CountDay, Running
  <2> QED
    BY <2>1 DEF IInv, Backlog, Closing, Draining, queueVars
<1>2. CASE Commit \/ Throw
  <2>1. /\ batch' = <<>> /\ UNCHANGED <<pending, log, dropped, made, phase, atClose>>
        /\ written' = written \o batch \/ written' = written
        /\ failed' = failed \o batch \/ failed' = failed
    BY <1>2 DEF Commit, Throw, FlushReturns, FlushThrows
  <2>2. written' \in Seq(Result) /\ failed' \in Seq(Result)
    <3>1. batch \in Seq(Result) /\ written \in Seq(Result) /\ failed \in Seq(Result)
      BY DEF IInv, Backlog
    <3>2. written \o batch \in Seq(Result) /\ failed \o batch \in Seq(Result)
      BY <3>1
    <3> QED
      BY <2>1, <3>1, <3>2
  <2>3. Backlog'
    BY <2>1, <2>2 DEF IInv, Backlog, Draining
  <2>4. Closing'
    BY <2>1 DEF IInv, Closing, Backlog
  <2> QED
    BY <2>3, <2>4 DEF IInv
<1> QED
  BY <1>1, <1>2 DEF Transaction

\* recordMatch pushes a result.
LEMMA RecordFacts ==
    ASSUME IInv, NEW o \in Outcomes, RecordMatch(o)
    PROVE  IInv'
<1> DEFINE x == [id |-> made + 1, sides |-> o.sides, winner |-> o.winner,
                 reason |-> o.reason, day |-> o.day]
<1>1. x \in Result
  BY StoreAssumption DEF StoreAssumption, Outcome, Result, RecordMatch, IInv, Backlog
<1>2. /\ ~Draining /\ Push(x) /\ made' = made + 1
      /\ phase \in {"open", "closed"} /\ UNCHANGED <<phase, atClose>>
  BY DEF RecordMatch
<1> HIDE DEF x
<1>3. /\ pending' \in Seq(Result) /\ batch' \in Seq(Result) /\ dropped' \in Seq(Result)
      /\ log' \in Seq(Result) /\ Len(log') = Len(log) + 1
      /\ Draining' => pending' = <<>>
      /\ MaxBatch <= MaxPending => dropped' = <<>> /\ Len(pending') < MaxBatch
      /\ Len(pending') + Len(batch') <= Len(pending) + Len(batch) + 1
      /\ UNCHANGED <<timer, written, failed>>
  BY <1>1, <1>2, PushFacts DEF IInv
<1>4. Backlog'
  BY <1>2, <1>3 DEF IInv, Backlog
<1>5. Closing'
  BY <1>2, <1>3 DEF IInv, Closing, Backlog
<1> QED
  BY <1>4, <1>5 DEF IInv

\* The timer, the operator's flush and close drain what waits.
LEMMA DrainFacts ==
    ASSUME IInv, TimerFires \/ Flush \/ Close
    PROVE  IInv'
<1>1. /\ DrainOf(pending) /\ ~Draining
      /\ UNCHANGED <<log, written, dropped, failed, made>>
  BY DEF TimerFires, Flush, Close, Drain, Stop, storeVars
<1>2. /\ pending' \in Seq(Result) /\ batch' \in Seq(Result) /\ pending' = <<>>
      /\ Len(pending') + Len(batch') <= Len(pending) + Len(batch)
  BY <1>1, DrainOfFacts DEF IInv, Backlog
<1>3. \/ phase' = phase /\ atClose' = atClose
      \/ phase' = "closing" /\ atClose' = Len(log)
  <2>1. TimerFires \/ Flush => phase' = phase /\ atClose' = atClose
    BY DEF TimerFires, Flush, storeVars
  <2>2. Close => phase' = "closing" /\ atClose' = Len(log)
    BY DEF Close
  <2> QED
    BY <2>1, <2>2
<1>4. Backlog'
  <2>1. atClose' \in Nat
    BY <1>3 DEF IInv, Backlog
  <2>2. MaxBatch <= MaxPending => Len(pending') < MaxBatch
    BY <1>2, QueueAssumption DEF QueueAssumption
  <2> QED
    BY <1>1, <1>2, <2>1, <2>2 DEF IInv, Backlog
<1>5. Closing'
  BY <1>1, <1>2, <1>3 DEF IInv, Closing, Backlog
<1> QED
  BY <1>4, <1>5 DEF IInv

\* The end of close, and the ends and starts of processes.
LEMMA LifeFacts ==
    ASSUME IInv, CloseDatabase \/ Crash \/ Restart
    PROVE  IInv'
<1>1. CASE CloseDatabase
  <2>1. /\ phase = "closing" /\ batch = <<>> /\ phase' = "closed"
        /\ UNCHANGED <<pending, batch, log, written, dropped, failed, made, atClose>>
    BY <1>1 DEF CloseDatabase, Draining, queueVars
  <2>2. Len(pending) + Len(batch) <= Len(log) - atClose
    BY <2>1 DEF IInv, Closing, Backlog
  <2> QED
    BY <2>1, <2>2 DEF IInv, Backlog, Closing, Draining
<1>2. CASE Crash
  <2>1. /\ pending' = <<>> /\ batch' = <<>> /\ log' = <<>> /\ written' = <<>>
        /\ dropped' = <<>> /\ failed' = <<>> /\ atClose' = 0 /\ phase' = "down" /\ made' = made
    BY <1>2 DEF Crash
  <2> QED
    BY <2>1, QueueAssumption DEF QueueAssumption, IInv, Backlog, Closing, Draining
<1>3. CASE Restart
  <2>1. /\ phase' = "open"
        /\ UNCHANGED <<pending, batch, log, written, dropped, failed, made, atClose>>
    BY <1>3 DEF Restart, Start
  <2> QED
    BY <2>1 DEF IInv, Backlog, Closing, Draining
<1> QED
  BY <1>1, <1>2, <1>3

\* The backlog and close keep their invariant.
LEMMA IInvInvariant == Spec => []IInv
<1>1. Init => IInv
  BY QueueAssumption DEF QueueAssumption, Init, FreshQueue, IInv, Backlog, Closing, Draining
<1>2. IInv /\ [Next]_vars => IInv'
  <2> SUFFICES ASSUME IInv, [Next]_vars PROVE IInv'
    OBVIOUS
  <2>1. CASE UNCHANGED vars
    BY <2>1 DEF vars, queueVars, storeVars, IInv, Backlog, Closing, Draining
  <2> QED
    BY <2>1, TransactionFacts, RecordFacts, DrainFacts, LifeFacts DEF Next
<1> QED
  BY <1>1, <1>2, PTL DEF Spec

\* Whatever throws, and also behind a closed database, no result is dropped for
\* want of room when the limit is at least a batch: push drains (queue.ts) as
\* soon as a batch waits, and a drain empties the backlog.
THEOREM NothingIsDroppedTheorem == Spec => []NothingIsDropped
<1>1. IInv => NothingIsDropped
  BY DEF IInv, Backlog, NothingIsDropped
<1> QED
  BY <1>1, IInvInvariant, PTL

\* After close, only what was pushed after it can still be waiting: stop drains,
\* and no push comes between that and the end of close.
THEOREM CloseTheorem == Spec => []CloseLeavesNothingBehind
<1>1. IInv => CloseLeavesNothingBehind
  BY DEF IInv, Closing, CloseLeavesNothingBehind
<1> QED
  BY <1>1, IInvInvariant, PTL

-----------------------------------------------------------------------------
(* Where a result is.                                                      *)

Items(s) == {s[i] : i \in 1..Len(s)}
Before(s, t) == \A x \in Items(s), y \in Items(t) : x.id < y.id
Increasing(s) == \A i, j \in 1..Len(s) : i < j => s[i].id < s[j].id
IsSeq(s) == \E S : s \in Seq(S)

\* Every result pushed is somewhere, and every place is in the order of the ids.
Placed ==
    /\ Len(log) = Len(pending) + Len(batch) + Len(written) + Len(dropped) + Len(failed)
    /\ Items(log) \subseteq Items(pending) \cup Items(batch) \cup Items(written)
                            \cup Items(dropped) \cup Items(failed)
    /\ Increasing(pending) /\ Increasing(batch) /\ Increasing(dropped) /\ Increasing(failed)
    /\ Before(batch, pending)
    /\ Before(dropped, batch) /\ Before(dropped, pending)
    /\ Before(failed, batch) /\ Before(failed, pending)
    /\ \A x \in Items(pending) \cup Items(batch) \cup Items(dropped) \cup Items(failed) :
          x.id <= made

\* How many rows the running transaction has inserted.
Inserted == IF pc.at = "match" THEN pc.item - 1 ELSE pc.item

\* The match table: the rows of earlier processes and then the written results;
\* a transaction has added, so far, a prefix of its batch.
Tabled ==
    /\ DOMAIN db = {"rows", "players", "days"} /\ DOMAIN tx = {"rows", "players", "days"}
    /\ IsSeq(db.rows) /\ IsSeq(tx.rows) /\ IsSeq(earlier)
    /\ Len(db.rows) = Len(earlier) + Len(written)
    /\ \A i \in 1..Len(earlier) : db.rows[i] = earlier[i]
    /\ \A i \in 1..Len(written) : db.rows[Len(earlier) + i].result = written[i]
    /\ \A i, j \in 1..Len(db.rows) : i < j => db.rows[i].result.id < db.rows[j].result.id
    /\ \A i \in 1..Len(db.rows) :
          /\ db.rows[i].result \in Result /\ db.rows[i].result.id <= made
          /\ \A x \in Items(batch) \cup Items(pending) : db.rows[i].result.id < x.id
    /\ pc \in [item : Nat \ {0}, at : {"match", "seat0", "seat1", "day"}]
    /\ Inserted <= Len(batch)
    /\ Len(tx.rows) = Len(db.rows) + Inserted
    /\ \A i \in 1..Len(db.rows) : tx.rows[i] = db.rows[i]
    /\ \A i \in 1..Inserted : tx.rows[Len(db.rows) + i].result = batch[i]

Accounted == IInv /\ Placed /\ Tabled

-----------------------------------------------------------------------------
(* Sequences in order.                                                     *)

\* A sequence cut in two has the items of its parts.
LEMMA ItemsOfParts ==
  ASSUME NEW s \in Seq(Result), NEW e \in 0..Len(s)
  PROVE  Items(s) = Items(SubSeq(s, 1, e)) \cup Items(SubSeq(s, e + 1, Len(s)))
<1> DEFINE t == SubSeq(s, 1, e)
           u == SubSeq(s, e + 1, Len(s))
<1>1. /\ Len(t) = e /\ \A i \in 1..e : t[i] = s[i]
      /\ Len(u) = Len(s) - e /\ \A i \in 1..(Len(s) - e) : u[i] = s[e + i]
  OBVIOUS
<1> HIDE DEF t, u
<1>2. \A i \in 1..Len(s) : i \in 1..e \/ (i - e \in 1..(Len(s) - e) /\ i = e + (i - e))
  OBVIOUS
<1>3. \A i \in 1..(Len(s) - e) : e + i \in 1..Len(s)
  OBVIOUS
<1>4. Items(s) \subseteq Items(t) \cup Items(u)
  <2>1. SUFFICES ASSUME NEW i \in 1..Len(s) PROVE s[i] \in Items(t) \cup Items(u)
    BY DEF Items
  <2>2. CASE i \in 1..e
    BY <1>1, <2>2 DEF Items
  <2>3. CASE i - e \in 1..(Len(s) - e) /\ i = e + (i - e)
    <3>1. s[i] = u[i - e]
      BY <1>1, <2>3
    <3>2. QED
      BY <1>1, <2>3, <3>1 DEF Items
  <2>4. QED
    BY <1>2, <2>2, <2>3
<1>5. Items(t) \cup Items(u) \subseteq Items(s)
  BY <1>1, <1>3 DEF Items
<1>6. QED
  BY <1>4, <1>5 DEF t, u

\* Two sequences joined have the items of both.
LEMMA ItemsOfJoined ==
  ASSUME NEW s \in Seq(Result), NEW t \in Seq(Result)
  PROVE  Items(s \o t) = Items(s) \cup Items(t)
<1> DEFINE u == s \o t
<1>1. /\ Len(u) = Len(s) + Len(t)
      /\ \A i \in 1..Len(s) : u[i] = s[i]
      /\ \A i \in 1..Len(t) : u[Len(s) + i] = t[i]
      /\ \A i \in 1..Len(u) : i \in 1..Len(s) \/ (i - Len(s) \in 1..Len(t) /\ u[i] = t[i - Len(s)])
  OBVIOUS
<1> HIDE DEF u
<1>2. Items(u) \subseteq Items(s) \cup Items(t)
  BY <1>1 DEF Items
<1>3. Items(s) \subseteq Items(u)
  BY <1>1 DEF Items
<1>4. Items(t) \subseteq Items(u)
  <2>1. \A i \in 1..Len(t) : Len(s) + i \in 1..Len(u)
    BY <1>1
  <2>2. QED
    BY <1>1, <2>1 DEF Items
<1>5. QED
  BY <1>2, <1>3, <1>4 DEF u

LEMMA JoinedIncreases ==
  ASSUME NEW s \in Seq(Result), NEW t \in Seq(Result),
         Increasing(s), Increasing(t), Before(s, t)
  PROVE  Increasing(s \o t)
<1> DEFINE u == s \o t
<1>1. /\ Len(u) = Len(s) + Len(t)
      /\ \A i \in 1..Len(s) : u[i] = s[i]
      /\ \A i \in 1..Len(u) : i \in 1..Len(s) \/ (i - Len(s) \in 1..Len(t) /\ u[i] = t[i - Len(s)])
  OBVIOUS
<1> HIDE DEF u
<1>2. ASSUME NEW i \in 1..Len(u), NEW j \in 1..Len(u), i < j
      PROVE  u[i].id < u[j].id
  <2>1. CASE j \in 1..Len(s)
    BY <1>1, <1>2, <2>1 DEF Increasing
  <2>2. CASE i \in 1..Len(s) /\ j \notin 1..Len(s)
    BY <1>1, <1>2, <2>2 DEF Before, Items
  <2>3. CASE i \notin 1..Len(s)
    <3>1. /\ i - Len(s) \in 1..Len(t) /\ j - Len(s) \in 1..Len(t)
          /\ i - Len(s) < j - Len(s)
      BY <1>1, <1>2, <2>3
    <3>2. u[i] = t[i - Len(s)] /\ u[j] = t[j - Len(s)]
      BY <1>1, <1>2, <2>3
    <3>3. t[i - Len(s)].id < t[j - Len(s)].id
      BY <3>1 DEF Increasing
    <3>4. QED
      BY <3>2, <3>3
  <2>4. QED
    BY <2>1, <2>2, <2>3
<1>3. QED
  BY <1>2 DEF Increasing, u

LEMMA PartsIncrease ==
  ASSUME NEW s \in Seq(Result), NEW e \in 0..Len(s), Increasing(s)
  PROVE  /\ Increasing(SubSeq(s, 1, e)) /\ Increasing(SubSeq(s, e + 1, Len(s)))
         /\ Before(SubSeq(s, 1, e), SubSeq(s, e + 1, Len(s)))
<1> DEFINE t == SubSeq(s, 1, e)
           u == SubSeq(s, e + 1, Len(s))
<1>1. /\ Len(t) = e /\ \A i \in 1..e : t[i] = s[i]
      /\ Len(u) = Len(s) - e /\ \A i \in 1..(Len(s) - e) : u[i] = s[e + i]
  OBVIOUS
<1> HIDE DEF t, u
<1>2. Increasing(t)
  BY <1>1 DEF Increasing
<1>3. Increasing(u)
  BY <1>1 DEF Increasing
<1>4. Before(t, u)
  BY <1>1 DEF Increasing, Before, Items
<1>5. QED
  BY <1>2, <1>3, <1>4 DEF t, u

LEMMA ItemsOfOneMore ==
  ASSUME NEW s \in Seq(Result), NEW x \in Result
  PROVE  Items(Append(s, x)) = Items(s) \cup {x} /\ Len(Append(s, x)) = Len(s) + 1
<1>1. /\ Len(Append(s, x)) = Len(s) + 1
      /\ \A i \in 1..Len(s) : Append(s, x)[i] = s[i]
      /\ Append(s, x)[Len(s) + 1] = x
      /\ 1..(Len(s) + 1) = (1..Len(s)) \cup {Len(s) + 1}
  OBVIOUS
<1>2. QED
  BY <1>1 DEF Items

LEMMA OneMoreIncreases ==
  ASSUME NEW s \in Seq(Result), NEW x \in Result, Increasing(s),
         \A i \in 1..Len(s) : s[i].id < x.id
  PROVE  Increasing(Append(s, x))
<1>1. /\ Len(Append(s, x)) = Len(s) + 1
      /\ \A i \in 1..Len(s) : Append(s, x)[i] = s[i]
      /\ Append(s, x)[Len(s) + 1] = x
      /\ 1..(Len(s) + 1) = (1..Len(s)) \cup {Len(s) + 1}
  OBVIOUS
<1>2. QED
  BY <1>1 DEF Increasing

LEMMA NothingIsInOrder ==
  Increasing(<<>>) /\ Items(<<>>) = {} /\ Len(<<>>) = 0
BY DEF Increasing, Items

-----------------------------------------------------------------------------
\* What an action does to the queue alone.

\* A result that is newer than all others goes to the end of what waits; what is
\* dropped is older than what is kept.
LEMMA PushPlaced ==
  ASSUME Backlog, Placed, ~Draining, NEW x \in Result, x.id = made + 1, made' = made + 1,
         Push(x)
  PROVE  /\ Placed'
         /\ Items(pending') \cup Items(batch') \subseteq Items(pending) \cup {x}
<1> DEFINE all == All(x)
           e == Excess(x)
           kept == Kept(x)
           gone == SubSeq(all, 1, e)
<1>1. /\ pending \in Seq(Result) /\ dropped \in Seq(Result) /\ log \in Seq(Result)
      /\ written \in Seq(Result) /\ failed \in Seq(Result) /\ batch = <<>> /\ made \in Nat
  BY DEF Backlog, Draining
<1>2. /\ log' = Append(log, x) /\ dropped' = dropped \o gone
      /\ UNCHANGED <<written, failed>>
      /\ (pending' = <<>> /\ batch' = kept) \/ (pending' = kept /\ batch' = <<>>)
  BY <1>1 DEF Push, All, Excess, Kept, DrainOf, Draining
<1>3. all \in Seq(Result) /\ e \in 0..Len(all) /\ Len(all) = Len(pending) + 1
  BY <1>1, QueueAssumption DEF All, Excess
<1>4. kept = SubSeq(all, e + 1, Len(all))
  BY DEF Kept
<1>5. \A y \in Items(pending) \cup Items(dropped) \cup Items(failed) : y.id < x.id
  <2>1. Items(pending) \cup Items(dropped) \cup Items(failed) \subseteq Result
    BY <1>1 DEF Items
  <2>2. \A y \in Result : y.id \in Nat
    BY StoreAssumption DEF Result
  <2>3. QED
    BY <1>1, <2>1, <2>2 DEF Placed
<1>6. Increasing(all) /\ Items(all) = Items(pending) \cup {x}
  <2>1. \A i \in 1..Len(pending) : pending[i].id < x.id
    BY <1>5 DEF Items
  <2>2. QED
    BY <1>1, <2>1, OneMoreIncreases, ItemsOfOneMore DEF All, Placed
<1> HIDE DEF all, e, kept
<1>7. /\ Increasing(gone) /\ Increasing(kept) /\ Before(gone, kept)
      /\ Items(all) = Items(gone) \cup Items(kept)
  BY <1>3, <1>4, <1>6, PartsIncrease, ItemsOfParts
<1>8. /\ gone \in Seq(Result) /\ kept \in Seq(Result) /\ Len(gone) + Len(kept) = Len(pending) + 1
      /\ Len(gone) \in Nat /\ Len(kept) \in Nat
  <2>1. gone \in Seq(Result) /\ Len(gone) = e
    BY <1>3
  <2>2. kept \in Seq(Result) /\ Len(kept) = Len(all) - e
    BY <1>3, <1>4
  <2> HIDE DEF gone
  <2>3. QED
    BY <1>1, <1>3, <2>1, <2>2
<1> HIDE DEF gone
<1>9. Before(dropped, all) /\ Before(failed, all)
  BY <1>5, <1>6 DEF Placed, Before
<1>10. Items(dropped') = Items(dropped) \cup Items(gone) /\ Len(dropped') = Len(dropped) + Len(gone)
  BY <1>1, <1>2, <1>8, ItemsOfJoined
<1>11. Increasing(dropped')
  <2>1. Before(dropped, gone)
    BY <1>7, <1>9 DEF Before
  <2>2. QED
    BY <1>1, <1>2, <1>7, <1>8, <2>1, JoinedIncreases DEF Placed
<1>12. Before(dropped', kept) /\ Before(failed', kept)
  BY <1>2, <1>7, <1>9, <1>10 DEF Before
<1>13. Items(log') = Items(log) \cup {x} /\ Len(log') = Len(log) + 1
  BY <1>1, <1>2, ItemsOfOneMore
<1>14. /\ Items(pending') \cup Items(batch') = Items(kept)
       /\ Len(pending') + Len(batch') = Len(kept)
       /\ Increasing(pending') /\ Increasing(batch') /\ Before(batch', pending')
  BY <1>2, <1>7, <1>8, NothingIsInOrder DEF Before
<1>15. /\ Before(dropped', batch') /\ Before(dropped', pending')
       /\ Before(failed', batch') /\ Before(failed', pending')
  BY <1>12, <1>14 DEF Before
<1>16. Len(log') = Len(pending') + Len(batch') + Len(written') + Len(dropped') + Len(failed')
  <2>1. Len(log) = Len(pending) + 0 + Len(written) + Len(dropped) + Len(failed)
    BY <1>1, NothingIsInOrder DEF Placed
  <2>2. /\ Len(pending') \in Nat /\ Len(batch') \in Nat /\ Len(pending) \in Nat
        /\ Len(written) \in Nat /\ Len(dropped) \in Nat /\ Len(failed) \in Nat
    BY <1>1, <1>2, <1>8, NothingIsInOrder
  <2>3. QED
    BY <1>2, <1>8, <1>10, <1>13, <1>14, <2>1, <2>2, SMTT(30)
<1>17. Items(log') \subseteq Items(pending') \cup Items(batch') \cup Items(written')
                             \cup Items(dropped') \cup Items(failed')
  <2>1. Items(log) \subseteq Items(pending) \cup Items(written) \cup Items(dropped) \cup Items(failed)
    BY <1>1, NothingIsInOrder DEF Placed
  <2>2. Items(pending) \cup {x} = Items(gone) \cup Items(kept)
    BY <1>6, <1>7
  <2>3. written' = written /\ failed' = failed
    BY <1>2
  <2>4. QED
    BY <1>10, <1>13, <1>14, <2>1, <2>2, <2>3
<1>18. \A y \in Items(pending') \cup Items(batch') \cup Items(dropped') \cup Items(failed') :
          y.id <= made'
  <2>1. \A y \in Items(pending) \cup Items(dropped) \cup Items(failed) : y.id <= made + 1
    <3>1. Items(pending) \cup Items(dropped) \cup Items(failed) \subseteq Result
      BY <1>1 DEF Items
    <3>2. \A y \in Result : y.id \in Nat
      BY StoreAssumption DEF Result
    <3>3. QED
      BY <1>1, <3>1, <3>2 DEF Placed
  <2>2. failed' = failed /\ x.id <= made + 1
    BY <1>1, <1>2
  <2>3. QED
    BY <1>6, <1>7, <1>10, <1>14, <2>1, <2>2
<1>19. Placed'
  <2>1. Increasing(failed')
    BY <1>2 DEF Placed
  <2>2. QED
    BY <1>11, <1>14, <1>15, <1>16, <1>17, <1>18, <2>1 DEF Placed
<1>20. QED
  BY <1>6, <1>7, <1>14, <1>19

\* A batch that was written or has failed is behind what waits.
LEMMA EndOfFlushPlaced ==
  ASSUME Backlog, Placed, made' = made, batch' = <<>>, UNCHANGED <<pending, log, dropped>>,
         \/ written' = written \o batch /\ failed' = failed
         \/ failed' = failed \o batch /\ written' = written
  PROVE  Placed'
<1>1. /\ pending \in Seq(Result) /\ batch \in Seq(Result) /\ dropped \in Seq(Result)
      /\ written \in Seq(Result) /\ failed \in Seq(Result) /\ log \in Seq(Result)
  BY DEF Backlog
<1>2. Items(batch') = {} /\ Len(batch') = 0 /\ Increasing(batch')
  BY NothingIsInOrder
<1>3. CASE written' = written \o batch /\ failed' = failed
  <2>1. Items(written') = Items(written) \cup Items(batch)
        /\ Len(written') = Len(written) + Len(batch)
    BY <1>1, <1>3, ItemsOfJoined
  <2>2. Len(log') = Len(pending') + Len(batch') + Len(written') + Len(dropped') + Len(failed')
    BY <1>1, <1>2, <1>3, <2>1 DEF Placed
  <2>3. Items(log') \subseteq Items(pending') \cup Items(batch') \cup Items(written')
                              \cup Items(dropped') \cup Items(failed')
    BY <1>2, <1>3, <2>1 DEF Placed
  <2>4. QED
    BY <1>2, <1>3, <2>2, <2>3 DEF Placed, Before
<1>4. CASE failed' = failed \o batch /\ written' = written
  <2>1. Items(failed') = Items(failed) \cup Items(batch)
        /\ Len(failed') = Len(failed) + Len(batch)
    BY <1>1, <1>4, ItemsOfJoined
  <2>2. Len(log') = Len(pending') + Len(batch') + Len(written') + Len(dropped') + Len(failed')
    BY <1>1, <1>2, <1>4, <2>1 DEF Placed
  <2>3. Items(log') \subseteq Items(pending') \cup Items(batch') \cup Items(written')
                              \cup Items(dropped') \cup Items(failed')
    BY <1>2, <1>4, <2>1 DEF Placed
  <2>4. Increasing(failed')
    BY <1>1, <1>4, JoinedIncreases DEF Placed
  <2>5. QED
    BY <1>2, <1>4, <2>1, <2>2, <2>3, <2>4 DEF Placed, Before
<1>5. QED
  BY <1>3, <1>4

\* A drain hands everything over at once.
LEMMA DrainPlaced ==
  ASSUME Backlog, Placed, ~Draining, DrainOf(pending),
         UNCHANGED <<log, written, dropped, failed, made>>
  PROVE  /\ Placed'
         /\ Items(pending') \cup Items(batch') = Items(pending) \cup Items(batch)
<1>1. /\ batch = <<>> /\ Items(batch) = {} /\ Len(batch) = 0 /\ Len(pending) \in Nat
      /\ Increasing(<<>>) /\ Items(<<>>) = {}
  BY NothingIsInOrder DEF Draining, Backlog
<1>2. (pending' = pending /\ batch' = batch) \/ (pending' = <<>> /\ batch' = pending)
  BY DEF DrainOf
<1>3. /\ Items(pending') \cup Items(batch') = Items(pending) \cup Items(batch)
      /\ Len(pending') + Len(batch') = Len(pending) + Len(batch)
      /\ Increasing(pending') /\ Increasing(batch') /\ Before(batch', pending')
  BY <1>1, <1>2 DEF Placed, Before
<1>4. Placed'
  <2>1. /\ Before(dropped', batch') /\ Before(dropped', pending')
        /\ Before(failed', batch') /\ Before(failed', pending')
    BY <1>3 DEF Placed, Before
  <2>2. Len(log') = Len(pending') + Len(batch') + Len(written') + Len(dropped') + Len(failed')
    BY <1>3 DEF Placed
  <2>3. /\ Items(log') \subseteq Items(pending') \cup Items(batch') \cup Items(written')
                                 \cup Items(dropped') \cup Items(failed')
        /\ \A x \in Items(pending') \cup Items(batch') \cup Items(dropped') \cup Items(failed') :
              x.id <= made'
    BY <1>3 DEF Placed
  <2>4. Increasing(dropped') /\ Increasing(failed')
    BY DEF Placed
  <2>5. QED
    BY <1>3, <2>1, <2>2, <2>3, <2>4 DEF Placed
<1>5. QED
  BY <1>3, <1>4

-----------------------------------------------------------------------------
\* What an action does to the match table.

\* Outside a transaction nothing is inserted, and what waits may change as long
\* as it stays newer than the table.
LEMMA QueueKeepsTable ==
  ASSUME Backlog, Tabled, ~Draining, UNCHANGED <<db, tx, pc, earlier, written>>,
         made' \in Nat, made <= made', batch' \in Seq(Result),
         \A y \in Items(pending') \cup Items(batch') :
             y \in Items(pending) \cup Items(batch) \/ y.id = made + 1
  PROVE  Tabled'
<1>1. made \in Nat /\ Len(batch) = 0 /\ Len(batch') \in Nat
  BY NothingIsInOrder DEF Backlog, Draining
<1>2. Inserted' = Inserted /\ Inserted = 0
  BY <1>1 DEF Tabled, Inserted
<1>3. db' = db /\ tx' = tx /\ pc' = pc /\ earlier' = earlier /\ written' = written
  OBVIOUS
<1>4. ASSUME NEW i \in 1..Len(db.rows)
      PROVE  /\ db.rows[i].result.id <= made'
             /\ \A y \in Items(batch') \cup Items(pending') : db.rows[i].result.id < y.id
  <2>1. db.rows[i].result \in Result /\ db.rows[i].result.id <= made
    BY DEF Tabled
  <2>2. db.rows[i].result.id \in Nat
    BY <2>1, StoreAssumption DEF Result
  <2>3. \A y \in Items(batch) \cup Items(pending) : db.rows[i].result.id < y.id
    BY DEF Tabled
  <2>4. QED
    BY <1>1, <2>1, <2>2, <2>3
<1>5. QED
  BY <1>1, <1>2, <1>3, <1>4 DEF Tabled

\* The statements of a transaction insert the rows of its batch one by one.
LEMMA StatementKeepsTable ==
  ASSUME Backlog, Tabled, InsertMatch \/ (\E p \in Seats : BumpSeat(p)) \/ CountDay
  PROVE  Tabled'
<1>1. /\ UNCHANGED <<queueVars, db, made, earlier>> /\ pc.item <= Len(batch)
      /\ pending' = pending /\ batch' = batch /\ written' = written
  BY DEF InsertMatch, BumpSeat, CountDay, Running, queueVars
<1>2. /\ pc \in [item : Nat \ {0}, at : {"match", "seat0", "seat1", "day"}]
      /\ DOMAIN tx = {"rows", "players", "days"}
      /\ Len(batch) \in Nat
  BY DEF Tabled, Backlog
<1>3. PICK S : db.rows \in Seq(S)
  BY DEF Tabled, IsSeq
<1>4. PICK T : tx.rows \in Seq(T)
  BY DEF Tabled, IsSeq
<1>5. CASE InsertMatch
  <2> DEFINE row == [result |-> Current, deltas |-> Deltas(Current)]
             U == T \cup {row}
  <2>1. /\ pc.at = "match" /\ pc' = [pc EXCEPT !.at = "seat0"]
        /\ tx' = [tx EXCEPT !.rows = Append(@, row)]
    BY <1>5 DEF InsertMatch, Running
  <2>2. row.result = batch[pc.item]
    BY DEF Current
  <2> HIDE DEF row
  <2>3. DOMAIN tx' = {"rows", "players", "days"} /\ tx'.rows = Append(tx.rows, row)
    BY <1>2, <2>1
  <2>4. tx.rows \in Seq(U) /\ row \in U
    BY <1>4, SeqMonotonic
  <2>5. /\ tx'.rows \in Seq(U) /\ Len(tx'.rows) = Len(tx.rows) + 1
        /\ \A i \in 1..Len(tx.rows) : tx'.rows[i] = tx.rows[i]
        /\ tx'.rows[Len(tx.rows) + 1] = row
    <3> HIDE DEF U
    <3>1. QED
      BY <2>3, <2>4
  <2>6. Inserted' = Inserted + 1 /\ Inserted' = pc.item /\ Inserted \in Nat
    BY <1>2, <2>1 DEF Inserted
  <2>7. pc' \in [item : Nat \ {0}, at : {"match", "seat0", "seat1", "day"}]
    BY <1>2, <2>1
  <2>8. Len(db.rows) \in Nat /\ Len(tx.rows) = Len(db.rows) + Inserted
    BY <1>3 DEF Tabled
  <2>9. ASSUME NEW i \in 1..Len(db.rows)
        PROVE  tx'.rows[i] = db.rows[i]
    <3>1. i \in 1..Len(tx.rows)
      BY <2>6, <2>8
    <3>2. tx'.rows[i] = tx.rows[i] /\ tx.rows[i] = db.rows[i]
      BY <2>5, <3>1 DEF Tabled
    <3>3. QED
      BY <3>2
  <2>10. \A i \in 1..Inserted' : tx'.rows[Len(db.rows) + i].result = batch[i]
    <3>1. SUFFICES ASSUME NEW i \in 1..Inserted'
                   PROVE  tx'.rows[Len(db.rows) + i].result = batch[i]
      OBVIOUS
    <3>2. CASE i \in 1..Inserted
      <4>1. Len(db.rows) + i \in 1..Len(tx.rows)
        BY <2>6, <2>8, <3>2
      <4>2. tx'.rows[Len(db.rows) + i] = tx.rows[Len(db.rows) + i]
        BY <2>5, <4>1
      <4>3. tx.rows[Len(db.rows) + i].result = batch[i]
        BY <3>2 DEF Tabled
      <4>4. QED
        BY <4>2, <4>3
    <3>3. CASE i = Inserted + 1
      <4>1. Len(db.rows) + i = Len(tx.rows) + 1
        <5>1. \A l, n \in Nat : l + (n + 1) = (l + n) + 1
          OBVIOUS
        <5>2. QED
          BY <2>6, <2>8, <3>3, <5>1
      <4>2. QED
        BY <2>2, <2>5, <2>6, <3>3, <4>1
    <3>4. QED
      BY <2>6, <3>2, <3>3
  <2>11. IsSeq(tx'.rows)
    BY <2>5 DEF IsSeq
  <2>12. Len(tx'.rows) = Len(db.rows) + Inserted' /\ Inserted' <= Len(batch)
    <3>1. \A l, n \in Nat : (l + n) + 1 = l + (n + 1)
      OBVIOUS
    <3>2. QED
      BY <1>1, <2>5, <2>6, <2>8, <3>1
  <2>13. QED
    BY <1>1, <2>3, <2>7, <2>9, <2>10, <2>11, <2>12 DEF Tabled
<1>6. CASE (\E p \in Seats : BumpSeat(p)) \/ CountDay
  <2>1. DOMAIN tx' = {"rows", "players", "days"} /\ tx'.rows = tx.rows
    <3>1. CASE \E p \in Seats : BumpSeat(p)
      BY <1>2, <3>1 DEF BumpSeat
    <3>2. CASE CountDay
      BY <1>2, <3>2 DEF CountDay
    <3>3. QED
      BY <1>6, <3>1, <3>2
  <2>2. /\ pc' \in [item : Nat \ {0}, at : {"match", "seat0", "seat1", "day"}]
        /\ Inserted' = Inserted
    <3>1. CASE \E p \in Seats : BumpSeat(p)
      <4>1. PICK p \in Seats : BumpSeat(p)
        BY <3>1
      <4>2. pc.at # "match" /\ pc' = [pc EXCEPT !.at = IF p = 0 THEN "seat1" ELSE "day"]
        BY <4>1 DEF BumpSeat, Running
      <4>3. QED
        BY <1>2, <4>2 DEF Inserted
    <3>2. CASE CountDay
      <4>1. pc.at # "match" /\ pc' = [item |-> pc.item + 1, at |-> "match"]
        BY <3>2 DEF CountDay, Running
      <4>2. QED
        BY <1>2, <4>1 DEF Inserted
    <3>3. QED
      BY <1>6, <3>1, <3>2
  <2>3. QED
    BY <1>1, <2>1, <2>2 DEF Tabled
<1>7. QED
  BY <1>5, <1>6

\* A commit makes the whole batch part of the table, and of what was written.
LEMMA CommitKeepsTable ==
  ASSUME Backlog, Placed, Tabled, Commit
  PROVE  Tabled'
<1> DEFINE d == Len(db.rows)
           b == Len(batch)
           e == Len(earlier)
           w == Len(written)
<1>1. /\ batch # <<>> /\ batch' = <<>> /\ written' = written \o batch /\ pending' = pending
      /\ pc.item > b /\ db' = tx /\ tx' = tx /\ pc' = FirstStatement
      /\ made' = made /\ earlier' = earlier
  BY DEF Commit, FlushReturns, Draining
<1>2. /\ batch \in Seq(Result) /\ written \in Seq(Result) /\ b \in Nat /\ w \in Nat
      /\ pending \in Seq(Result) /\ made \in Nat
  BY DEF Backlog
<1>3. PICK S : db.rows \in Seq(S)
  BY DEF Tabled, IsSeq
<1>4. PICK T : tx.rows \in Seq(T)
  BY DEF Tabled, IsSeq
<1>5. PICK U : earlier \in Seq(U)
  BY DEF Tabled, IsSeq
<1>6. d \in Nat /\ e \in Nat /\ d = e + w
  BY <1>3, <1>5 DEF Tabled
<1>7. Inserted = b
  <2>1. pc \in [item : Nat \ {0}, at : {"match", "seat0", "seat1", "day"}] /\ Inserted <= b
    BY DEF Tabled
  <2>2. QED
    BY <1>1, <1>2, <2>1 DEF Inserted
<1>8. /\ Len(tx.rows) = d + b
      /\ \A i \in 1..d : tx.rows[i] = db.rows[i]
      /\ \A i \in 1..b : tx.rows[d + i].result = batch[i]
  BY <1>7 DEF Tabled
<1>9. /\ \A i \in 1..d : /\ db.rows[i].result \in Result /\ db.rows[i].result.id <= made
                         /\ \A x \in Items(batch) \cup Items(pending) :
                               db.rows[i].result.id < x.id
      /\ \A i, j \in 1..d : i < j => db.rows[i].result.id < db.rows[j].result.id
      /\ \A i \in 1..e : db.rows[i] = earlier[i]
      /\ \A i \in 1..w : db.rows[e + i].result = written[i]
  BY DEF Tabled
<1>10. /\ \A i \in 1..b : batch[i] \in Items(batch) /\ batch[i] \in Result
       /\ \A i, j \in 1..b : i < j => batch[i].id < batch[j].id
       /\ \A x \in Items(batch) : x.id <= made
       /\ \A x \in Items(batch), y \in Items(pending) : x.id < y.id
  <2>1. \A i \in 1..b : batch[i] \in Items(batch) /\ batch[i] \in Result
    BY <1>2 DEF Items
  <2>2. \A i, j \in 1..b : i < j => batch[i].id < batch[j].id
    BY DEF Placed, Increasing
  <2>3. \A x \in Items(batch) : x.id <= made
    BY DEF Placed
  <2>4. \A x \in Items(batch), y \in Items(pending) : x.id < y.id
    BY DEF Placed, Before
  <2>5. QED
    BY <2>1, <2>2, <2>3, <2>4
<1>11. Inserted' = 0 /\ Items(batch') = {} /\ Len(batch') = 0
  BY <1>1, NothingIsInOrder DEF Inserted, FirstStatement
<1>12. pc' \in [item : Nat \ {0}, at : {"match", "seat0", "seat1", "day"}]
  BY <1>1 DEF FirstStatement
<1>13. /\ Len(written') = w + b
       /\ \A i \in 1..w : written'[i] = written[i]
       /\ \A i \in 1..b : written'[w + i] = batch[i]
  BY <1>1, <1>2
<1>14. DOMAIN db' = {"rows", "players", "days"} /\ DOMAIN tx' = {"rows", "players", "days"}
       /\ IsSeq(db'.rows) /\ IsSeq(tx'.rows) /\ IsSeq(earlier')
  BY <1>1 DEF Tabled
<1>15. /\ Len(db'.rows) = d + b /\ Len(tx'.rows) = d + b /\ tx'.rows = db'.rows
       /\ Len(earlier') = e
       /\ \A i \in 1..d : db'.rows[i] = db.rows[i]
       /\ \A i \in 1..b : db'.rows[d + i].result = batch[i]
  BY <1>1, <1>8
<1> HIDE DEF d, b, e, w
<1>16. \A i \in 1..(d + b) : i \in 1..d \/ (i - d \in 1..b /\ i = d + (i - d))
  BY <1>2, <1>6
<1>17. \A i \in 1..(w + b) : i \in 1..w \/ (i - w \in 1..b /\ i = w + (i - w))
  BY <1>2
<1>18. Len(db'.rows) = Len(earlier') + Len(written')
  BY <1>2, <1>6, <1>13, <1>15
<1>19. ASSUME NEW i \in 1..e
       PROVE  db'.rows[i] = earlier'[i]
  <2>1. i \in 1..d
    BY <1>2, <1>6
  <2>2. QED
    BY <1>1, <1>9, <1>15, <2>1
<1>20. ASSUME NEW i \in 1..(w + b)
       PROVE  db'.rows[e + i].result = written'[i]
  <2>1. CASE i \in 1..w
    <3>1. e + i \in 1..d
      BY <1>2, <1>6, <2>1
    <3>2. db.rows[e + i].result = written[i]
      BY <1>9, <2>1
    <3>3. QED
      BY <1>13, <1>15, <2>1, <3>1, <3>2
  <2>2. CASE i - w \in 1..b /\ i = w + (i - w)
    <3>1. e + i = d + (i - w)
      BY <1>2, <1>6, <2>2
    <3>2. db'.rows[d + (i - w)].result = batch[i - w]
      BY <1>15, <2>2
    <3>3. written'[w + (i - w)] = batch[i - w]
      BY <1>13, <2>2
    <3>4. QED
      BY <2>2, <3>1, <3>2, <3>3
  <2>3. QED
    BY <1>17, <2>1, <2>2
<1>21. ASSUME NEW i \in 1..(d + b)
       PROVE  /\ db'.rows[i].result \in Result /\ db'.rows[i].result.id <= made
              /\ \A x \in Items(pending) : db'.rows[i].result.id < x.id
  <2>1. CASE i \in 1..d
    BY <1>9, <1>15, <2>1
  <2>2. CASE i - d \in 1..b /\ i = d + (i - d)
    <3>1. db'.rows[i].result = batch[i - d]
      BY <1>15, <2>2
    <3>2. QED
      BY <1>10, <2>2, <3>1
  <2>3. QED
    BY <1>16, <2>1, <2>2
<1>22. ASSUME NEW i \in 1..(d + b), NEW j \in 1..(d + b), i < j
       PROVE  db'.rows[i].result.id < db'.rows[j].result.id
  <2>1. CASE i \in 1..d /\ j \in 1..d
    BY <1>9, <1>15, <1>22, <2>1
  <2>2. CASE i \in 1..d /\ j - d \in 1..b /\ j = d + (j - d)
    <3>1. db'.rows[i] = db.rows[i] /\ db'.rows[j].result = batch[j - d]
      BY <1>15, <2>2
    <3>2. batch[j - d] \in Items(batch)
      BY <1>10, <2>2
    <3>3. QED
      BY <1>9, <2>2, <3>1, <3>2
  <2>3. CASE (i - d \in 1..b /\ i = d + (i - d)) /\ (j - d \in 1..b /\ j = d + (j - d))
    <3>1. db'.rows[i].result = batch[i - d] /\ db'.rows[j].result = batch[j - d]
      BY <1>15, <2>3
    <3>2. i - d < j - d
      BY <1>2, <1>6, <1>22
    <3>3. QED
      BY <1>10, <2>3, <3>1, <3>2
  <2>4. CASE (i - d \in 1..b /\ i = d + (i - d)) /\ j \in 1..d
    BY <1>2, <1>6, <1>22, <2>4
  <2>5. QED
    BY <1>16, <2>1, <2>2, <2>3, <2>4
<1>23. QED
  <2>1. Len(db'.rows) = d + b /\ Len(written') = w + b /\ Len(earlier') = e
    BY <1>13, <1>15
  <2>2. \A i \in 1..Len(db'.rows) :
           /\ db'.rows[i].result \in Result /\ db'.rows[i].result.id <= made'
           /\ \A x \in Items(batch') \cup Items(pending') : db'.rows[i].result.id < x.id
    BY <1>1, <1>11, <1>21, <2>1
  <2>3. \A i, j \in 1..Len(db'.rows) : i < j => db'.rows[i].result.id < db'.rows[j].result.id
    BY <1>22, <2>1
  <2>4. /\ Inserted' <= Len(batch') /\ Len(tx'.rows) = Len(db'.rows) + Inserted'
        /\ \A i \in 1..Inserted' : tx'.rows[Len(db'.rows) + i].result = batch'[i]
    BY <1>2, <1>6, <1>11, <1>15
  <2>5. \A i \in 1..Len(db'.rows) : tx'.rows[i] = db'.rows[i]
    BY <1>15
  <2>6. \A i \in 1..Len(written') : db'.rows[Len(earlier') + i].result = written'[i]
    BY <1>20, <2>1
  <2>7. QED
    BY <1>12, <1>14, <1>18, <1>19, <2>1, <2>2, <2>3, <2>4, <2>5, <2>6 DEF Tabled

-----------------------------------------------------------------------------
LEMMA AccountingStarts == Init => Accounted
<1> SUFFICES ASSUME Init PROVE Accounted
  OBVIOUS
<1>1. IInv
  BY QueueAssumption DEF Init, FreshQueue, IInv, Backlog, Closing, Draining
<1>2. /\ pending = <<>> /\ batch = <<>> /\ written = <<>> /\ dropped = <<>> /\ failed = <<>>
      /\ log = <<>> /\ db.rows = <<>> /\ tx = db /\ earlier = <<>> /\ pc = FirstStatement
      /\ DOMAIN db = {"rows", "players", "days"}
  BY DEF Init, FreshQueue
<1>3. Placed
  BY <1>2, NothingIsInOrder DEF Placed, Before
<1>4. Tabled
  <2>1. IsSeq(<<>>)
    BY EmptySeq DEF IsSeq
  <2>2. Inserted = 0 /\ pc \in [item : Nat \ {0}, at : {"match", "seat0", "seat1", "day"}]
    BY <1>2 DEF Inserted, FirstStatement
  <2>3. QED
    BY <1>2, <2>1, <2>2, NothingIsInOrder DEF Tabled
<1>5. QED
  BY <1>1, <1>3, <1>4 DEF Accounted

LEMMA TransactionAccounted ==
  ASSUME Accounted, Transaction
  PROVE  Placed' /\ Tabled'
<1>1. Backlog /\ Placed /\ Tabled
  BY DEF Accounted, IInv
<1>2. CASE InsertMatch \/ (\E p \in Seats : BumpSeat(p)) \/ CountDay
  <2>1. UNCHANGED <<pending, batch, log, written, dropped, failed, made>>
    BY <1>2 DEF InsertMatch, BumpSeat, CountDay, Running, queueVars
  <2>2. Placed'
    BY <1>1, <2>1 DEF Placed
  <2>3. QED
    BY <1>1, <1>2, <2>2, StatementKeepsTable
<1>3. CASE Commit
  <2>1. Placed'
    BY <1>1, <1>3, EndOfFlushPlaced DEF Commit, FlushReturns
  <2>2. QED
    BY <1>1, <1>3, <2>1, CommitKeepsTable
<1>4. CASE Throw
  <2>1. /\ batch' = <<>> /\ failed' = failed \o batch
        /\ UNCHANGED <<pending, log, written, dropped, made, earlier>>
        /\ db' = db /\ tx' = db /\ pc' = FirstStatement
    BY <1>4 DEF Throw, FlushThrows
  <2>2. Placed'
    BY <1>1, <2>1, EndOfFlushPlaced
  <2>3. Tabled'
    <3>1. Inserted' = 0 /\ pc' \in [item : Nat \ {0}, at : {"match", "seat0", "seat1", "day"}]
      BY <2>1 DEF Inserted, FirstStatement
    <3>2. Items(batch') = {} /\ Len(batch') = 0
      BY <2>1, NothingIsInOrder
    <3>3. Len(db.rows) \in Nat
      <4>1. PICK S : db.rows \in Seq(S)
        BY <1>1 DEF Tabled, IsSeq
      <4>2. QED
        BY <4>1
    <3>4. Len(tx'.rows) = Len(db'.rows) + Inserted'
      BY <2>1, <3>1, <3>3
    <3>5. QED
      BY <1>1, <2>1, <3>1, <3>2, <3>4, SMTT(30) DEF Tabled
  <2>4. QED
    BY <2>2, <2>3
<1>5. QED
  BY <1>2, <1>3, <1>4 DEF Transaction

LEMMA RecordAccounted ==
  ASSUME Accounted, NEW o \in Outcomes, RecordMatch(o), Backlog'
  PROVE  Placed' /\ Tabled'
<1> DEFINE x == [id |-> made + 1, sides |-> o.sides, winner |-> o.winner,
                 reason |-> o.reason, day |-> o.day]
<1>1. Backlog /\ Placed /\ Tabled
  BY DEF Accounted, IInv
<1>2. x \in Result /\ x.id = made + 1
  BY <1>1, StoreAssumption, SMTT(30) DEF Outcome, Result, RecordMatch, Backlog
<1>3. /\ ~Draining /\ Push(x) /\ made' = made + 1 /\ UNCHANGED <<db, tx, pc, earlier>>
  BY DEF RecordMatch
<1> HIDE DEF x
<1>4. Placed' /\ Items(pending') \cup Items(batch') \subseteq Items(pending) \cup {x}
  BY <1>1, <1>2, <1>3, PushPlaced
<1>5. Tabled'
  <2>1. written' = written
    BY <1>3 DEF Push
  <2>2. \A y \in Items(pending') \cup Items(batch') :
           y \in Items(pending) \cup Items(batch) \/ y.id = made + 1
    BY <1>2, <1>4
  <2>3. made' \in Nat /\ made <= made' /\ batch' \in Seq(Result)
    BY <1>1, <1>3 DEF Backlog
  <2>4. QED
    BY <1>1, <1>3, <2>1, <2>2, <2>3, QueueKeepsTable
<1>6. QED
  BY <1>4, <1>5

LEMMA DrainAccounted ==
  ASSUME Accounted, TimerFires \/ Flush \/ Close, Backlog'
  PROVE  Placed' /\ Tabled'
<1>1. Backlog /\ Placed /\ Tabled
  BY DEF Accounted, IInv
<1>2. /\ DrainOf(pending) /\ ~Draining
      /\ UNCHANGED <<log, written, dropped, failed, made, db, tx, pc, earlier>>
  BY DEF TimerFires, Flush, Close, Drain, Stop, storeVars
<1>3. Placed' /\ Items(pending') \cup Items(batch') = Items(pending) \cup Items(batch)
  BY <1>1, <1>2, DrainPlaced
<1>4. made' \in Nat /\ made <= made' /\ batch' \in Seq(Result)
  BY <1>1, <1>2 DEF Backlog
<1>5. Tabled'
  BY <1>1, <1>2, <1>3, <1>4, QueueKeepsTable
<1>6. QED
  BY <1>3, <1>5

LEMMA LifeAccounted ==
  ASSUME Accounted, CloseDatabase \/ Crash \/ Restart
  PROVE  Placed' /\ Tabled'
<1>1. Backlog /\ Placed /\ Tabled
  BY DEF Accounted, IInv
<1>2. CASE CloseDatabase \/ Restart
  <2>1. UNCHANGED <<pending, batch, log, written, dropped, failed, made, db, tx, pc, earlier>>
    BY <1>2 DEF CloseDatabase, Restart, Start, queueVars
  <2>2. Placed'
    BY <1>1, <2>1 DEF Placed
  <2>3. Tabled'
    BY <1>1, <2>1 DEF Tabled, Inserted
  <2>4. QED
    BY <2>2, <2>3
<1>3. CASE Crash
  <2>1. /\ pending' = <<>> /\ batch' = <<>> /\ log' = <<>> /\ written' = <<>>
        /\ dropped' = <<>> /\ failed' = <<>> /\ made' = made
        /\ db' = db /\ tx' = db /\ pc' = FirstStatement /\ earlier' = db.rows
    BY <1>3 DEF Crash
  <2>2. Placed'
    BY <2>1, NothingIsInOrder DEF Placed, Before
  <2>3. Tabled'
    <3>1. Inserted' = 0 /\ pc' \in [item : Nat \ {0}, at : {"match", "seat0", "seat1", "day"}]
      BY <2>1 DEF Inserted, FirstStatement
    <3>2. PICK S : db.rows \in Seq(S)
      BY <1>1 DEF Tabled, IsSeq
    <3>3. Len(db.rows) \in Nat
      BY <3>2
    <3>4. QED
      BY <1>1, <2>1, <3>1, <3>3, NothingIsInOrder, SMTT(30) DEF Tabled
  <2>4. QED
    BY <2>2, <2>3
<1>4. QED
  BY <1>2, <1>3

\* Every result is accounted for.
LEMMA AccountedInvariant == Spec => []Accounted
<1>1. Accounted /\ [Next]_vars => Accounted'
  <2> SUFFICES ASSUME Accounted, [Next]_vars PROVE Accounted'
    OBVIOUS
  <2>1. IInv
    BY DEF Accounted
  <2>2. CASE UNCHANGED vars
    BY <2>1, <2>2 DEF vars, queueVars, storeVars, Accounted, IInv, Backlog, Closing, Draining,
                      Placed, Tabled, Inserted
  <2>3. CASE Transaction
    BY <2>1, <2>3, TransactionFacts, TransactionAccounted DEF Accounted
  <2>4. ASSUME NEW o \in Outcomes, RecordMatch(o) PROVE Accounted'
    BY <2>1, <2>4, RecordFacts, RecordAccounted DEF Accounted, IInv
  <2>5. CASE TimerFires \/ Flush \/ Close
    BY <2>1, <2>5, DrainFacts, DrainAccounted DEF Accounted, IInv
  <2>6. CASE CloseDatabase \/ Crash \/ Restart
    BY <2>1, <2>6, LifeFacts, LifeAccounted DEF Accounted
  <2>7. QED
    BY <2>2, <2>3, <2>4, <2>5, <2>6 DEF Next
<1>2. QED
  BY <1>1, AccountingStarts, PTL DEF Spec

LEMMA IncreasingIsInOrder ==
  ASSUME NEW s \in Seq(Result), Increasing(s)
  PROVE  InOrder(s)
BY DEF Increasing, InOrder

\* Whatever throws, fills up or dies, no result of packages/store is lost track
\* of or written twice, for any limits of the queue and any number of processes:
\* push, drain and the transaction of recordMany keep every result in one place,
\* and the match table holds the written ones, in order, behind the rows it had.
THEOREM NoResultIsLostTrackOf == Spec => []EveryResultAccounted
<1>1. ASSUME Accounted PROVE EveryResultAccounted
  <2>1. Backlog /\ Placed /\ Tabled
    BY <1>1 DEF Accounted, IInv
  <2>2. /\ pending \in Seq(Result) /\ batch \in Seq(Result) /\ dropped \in Seq(Result)
        /\ failed \in Seq(Result) /\ written \in Seq(Result) /\ log \in Seq(Result)
    BY <2>1 DEF Backlog
  <2>3. Len(log) = Len(pending) + Len(batch) + Len(written) + Len(dropped) + Len(failed)
    BY <2>1 DEF Placed
  <2>4. ASSUME NEW i \in 1..Len(log)
        PROVE  \E q \in {pending, batch, written, dropped, failed} :
                   \E j \in 1..Len(q) : q[j] = log[i]
    <3>1. log[i] \in Items(log)
      BY DEF Items
    <3>2. \E q \in {pending, batch, written, dropped, failed} : log[i] \in Items(q)
      BY <2>1, <3>1 DEF Placed
    <3>3. QED
      BY <3>2 DEF Items
  <2>5. InOrder(dropped \o batch \o pending)
    <3>1. dropped \o batch \in Seq(Result) /\ Increasing(dropped \o batch)
      BY <2>1, <2>2, JoinedIncreases DEF Placed
    <3>2. Before(dropped \o batch, pending)
      BY <2>1, <2>2, ItemsOfJoined DEF Placed, Before
    <3>3. dropped \o batch \o pending \in Seq(Result)
      BY <2>2, <3>1
    <3>4. Increasing(pending)
      BY <2>1 DEF Placed
    <3>5. Increasing(dropped \o batch \o pending)
      BY <2>2, <3>1, <3>2, <3>4, JoinedIncreases
    <3>6. QED
      BY <3>3, <3>5, IncreasingIsInOrder
  <2>6. InOrder(failed \o batch \o pending)
    <3>1. failed \o batch \in Seq(Result) /\ Increasing(failed \o batch)
      BY <2>1, <2>2, JoinedIncreases DEF Placed
    <3>2. Before(failed \o batch, pending)
      BY <2>1, <2>2, ItemsOfJoined DEF Placed, Before
    <3>3. failed \o batch \o pending \in Seq(Result)
      BY <2>2, <3>1
    <3>4. Increasing(pending)
      BY <2>1 DEF Placed
    <3>5. Increasing(failed \o batch \o pending)
      BY <2>2, <3>1, <3>2, <3>4, JoinedIncreases
    <3>6. QED
      BY <3>3, <3>5, IncreasingIsInOrder
  <2>7. PICK S : db.rows \in Seq(S)
    BY <2>1 DEF Tabled, IsSeq
  <2>8. PICK T : earlier \in Seq(T)
    BY <2>1 DEF Tabled, IsSeq
  <2>9. InOrder([i \in 1..Len(db.rows) |-> db.rows[i].result])
    <3> DEFINE r == [i \in 1..Len(db.rows) |-> db.rows[i].result]
    <3>1. \A i \in 1..Len(db.rows) : db.rows[i].result \in Result
      BY <2>1 DEF Tabled
    <3>2. r \in Seq(Result) /\ Len(r) = Len(db.rows)
      BY <2>7, <3>1
    <3>3. Increasing(r)
      BY <2>1, <3>2 DEF Increasing, Tabled
    <3>4. QED
      BY <3>2, <3>3, IncreasingIsInOrder
  <2>10. SubSeq(db.rows, 1, Len(earlier)) = earlier
    <3> DEFINE u == SubSeq(db.rows, 1, Len(earlier))
    <3>1. Len(earlier) \in 0..Len(db.rows)
      BY <2>1, <2>2, <2>7, <2>8 DEF Tabled
    <3>2. Len(u) = Len(earlier) /\ \A i \in 1..Len(earlier) : u[i] = earlier[i]
      BY <2>1, <2>7, <3>1 DEF Tabled
    <3>3. u \in Seq(S \cup T) /\ earlier \in Seq(S \cup T)
      <4>1. u \in Seq(S)
        BY <2>7, <3>1
      <4>2. QED
        BY <2>8, <4>1, SeqMonotonic
    <3> HIDE DEF u
    <3>4. u = earlier
      BY <3>2, <3>3, SeqEqual
    <3>5. QED
      BY <3>4 DEF u
  <2>11. written = [i \in 1..Len(db.rows) - Len(earlier) |-> db.rows[Len(earlier) + i].result]
    <3>1. Len(db.rows) - Len(earlier) = Len(written)
      BY <2>1, <2>2, <2>8 DEF Tabled
    <3>2. written = [i \in 1..Len(written) |-> written[i]]
      BY <2>2
    <3>3. \A i \in 1..Len(written) : written[i] = db.rows[Len(earlier) + i].result
      BY <2>1 DEF Tabled
    <3>4. QED
      BY <3>1, <3>2, <3>3
  <2>12. QED
    BY <2>3, <2>4, <2>5, <2>6, <2>9, <2>10, <2>11 DEF EveryResultAccounted
<1>2. QED
  BY <1>1, AccountedInvariant, PTL

-----------------------------------------------------------------------------
(* Induction over the match list.                                          *)

\* A set of numbers with 0 and every successor is all of them: the induction
\* principle, on a set rather than a predicate.
LEMMA SetInduction ==
  ASSUME NEW S \in SUBSET Nat, 0 \in S, \A n \in S : n + 1 \in S
  PROVE  S = Nat
<1> DEFINE T == Nat \ S
           R == OpToRel(<, Nat)
<1>1. SUFFICES ASSUME T # {} PROVE FALSE
  OBVIOUS
<1>2. IsWellFoundedOn(R, Nat)
  BY NatLessThanWellFounded, Zenon
<1>3. \A x, y \in Nat : y < x => <<y, x>> \in R
  BY DEF OpToRel
<1> HIDE DEF R
<1>4. T \subseteq Nat
  OBVIOUS
<1> HIDE DEF T
<1>5. PICK x \in T : \A y \in T : ~(<<y, x>> \in R)
  BY <1>1, <1>2, <1>4, WFMin
<1> USE DEF T
<1>6. x # 0 /\ x \in Nat
  OBVIOUS
<1>7. x - 1 \in Nat /\ x - 1 < x
  BY <1>6
<1>8. x - 1 \notin T
  BY <1>3, <1>5, <1>6, <1>7
<1>9. x - 1 \in S /\ (x - 1) + 1 = x
  BY <1>6, <1>7, <1>8
<1>10. QED
  BY <1>5, <1>9

\* What the ratings after the first i rows should be, as a function of i.
RowApplied(r, row) == SeatApplied(SeatApplied(r, row, 0), row, 1)
StartRatings == [a \in Accounts |-> StartRating]
Runs(f, rows, n) == f = [i \in 0..n |-> IF i = 0 THEN StartRatings
                                        ELSE RowApplied(f[i - 1], rows[i])]

\* The recursion over the rows has a solution, for any number of rows.
LEMMA RunsExist ==
  ASSUME NEW rows
  PROVE  \A n \in Nat : \E f : Runs(f, rows, n)
<1> DEFINE S == {n \in Nat : \E f : Runs(f, rows, n)}
<1>1. 0 \in S
  <2>1. Runs([i \in 0..0 |-> StartRatings], rows, 0)
    BY DEF Runs
  <2>2. QED
    BY <2>1
<1>2. ASSUME NEW n \in S PROVE n + 1 \in S
  <2>1. PICK f : Runs(f, rows, n)
    OBVIOUS
  <2> DEFINE g == [i \in 0..(n + 1) |-> IF i = n + 1 THEN RowApplied(f[n], rows[n + 1])
                                        ELSE f[i]]
  <2>2. Runs(g, rows, n + 1)
    <3>1. ASSUME NEW i \in 0..(n + 1)
          PROVE  g[i] = IF i = 0 THEN StartRatings ELSE RowApplied(g[i - 1], rows[i])
      <4>1. CASE i = n + 1
        BY <4>1
      <4>2. CASE i # n + 1
        <5>1. i \in 0..n /\ g[i] = f[i] /\ (i # 0 => g[i - 1] = f[i - 1])
          BY <4>2
        <5>2. f[i] = IF i = 0 THEN StartRatings ELSE RowApplied(f[i - 1], rows[i])
          BY <2>1, <5>1 DEF Runs
        <5>3. QED
          BY <5>1, <5>2
      <4>3. QED
        BY <4>1, <4>2
    <3>2. QED
      BY <3>1 DEF Runs
  <2>3. QED
    BY <2>2
<1>3. S \in SUBSET Nat
  OBVIOUS
<1> HIDE DEF S
<1>4. S = Nat
  BY <1>1, <1>2, <1>3, SetInduction
<1>5. QED
  BY <1>4 DEF S

\* RatingsAfter is that solution.
LEMMA RatingsRun ==
  ASSUME NEW rows, Len(rows) \in Nat
  PROVE  Runs(RatingsAfter(rows), rows, Len(rows))
<1>1. \E f : Runs(f, rows, Len(rows))
  BY RunsExist
<1>2. RatingsAfter(rows) = CHOOSE f : Runs(f, rows, Len(rows))
  BY DEF RatingsAfter, Runs, RowApplied, StartRatings
<1>3. QED
  BY <1>1, <1>2

-----------------------------------------------------------------------------
(* Types.                                                                  *)

\* A rating changes by a whole number: ratingDelta rounds.
DeltasAreWhole == \A r, q \in Nat, score \in 0..2 : RatingDelta(r, q, score) \in Int

Typed ==
    /\ db \in Database /\ tx \in Database
    /\ timer \in BOOLEAN /\ lives \in Nat /\ made \in 0..MaxResults
    /\ earlier \in Seq(MatchRow)

\* The result a statement is about, and its row once it has one.
LEMMA CurrentFacts ==
  ASSUME Accounted, NEW statement, Running(statement)
  PROVE  /\ Current \in Result /\ pc.item \in 1..Len(batch)
         /\ pc \in [item : Nat \ {0}, at : {"match", "seat0", "seat1", "day"}]
         /\ statement # "match" => /\ Len(tx.rows) \in Nat \ {0}
                                   /\ Row.result = Current
<1>1. Tabled /\ batch \in Seq(Result)
  BY DEF Accounted, IInv, Backlog
<1>2. pc.at = statement /\ pc.item \in 1..Len(batch)
      /\ pc \in [item : Nat \ {0}, at : {"match", "seat0", "seat1", "day"}]
  BY <1>1 DEF Running, Tabled
<1>3. Current \in Result
  BY <1>1, <1>2 DEF Current
<1>4. ASSUME statement # "match"
      PROVE  Len(tx.rows) \in Nat \ {0} /\ Row.result = Current
  <2>1. Inserted = pc.item
    BY <1>2, <1>4 DEF Inserted
  <2>2. PICK S : db.rows \in Seq(S)
    BY <1>1 DEF Tabled, IsSeq
  <2>3. Len(tx.rows) = Len(db.rows) + pc.item /\ Len(db.rows) \in Nat
    BY <1>1, <2>1, <2>2 DEF Tabled
  <2>4. tx.rows[Len(db.rows) + pc.item].result = batch[pc.item]
    BY <1>1, <1>2, <2>1 DEF Tabled
  <2>5. Len(tx.rows) \in Nat \ {0}
    BY <1>2, <2>3
  <2>6. QED
    BY <2>3, <2>4, <2>5 DEF Row, Current
<1>5. QED
  BY <1>2, <1>3, <1>4

\* A row is given whole deltas.
LEMMA DeltasTyped ==
  ASSUME DeltasAreWhole, NEW o \in Result, tx \in Database
  PROVE  Deltas(o) \in [Seats -> Int]
<1>1. /\ tx.players \in [Accounts -> Totals]
      /\ o.sides \in [Seats -> Accounts \cup {Guest}]
  BY DEF Database, Result
<1>2. CASE \E p \in Seats : o.sides[p] = Guest
  BY <1>2 DEF Deltas
<1>3. CASE ~(\E p \in Seats : o.sides[p] = Guest)
  <2>1. ASSUME NEW p \in Seats
        PROVE  RatingDelta(tx.players[o.sides[p]].rating, tx.players[o.sides[Other(p)]].rating,
                           Score(o.winner, p)) \in Int
    <3>1. Other(p) \in Seats
      BY DEF Seats, Other
    <3>2. o.sides[p] \in Accounts /\ o.sides[Other(p)] \in Accounts
      BY <1>1, <1>3, <3>1
    <3>3. \A a \in Accounts : tx.players[a].rating \in Nat
      BY <1>1 DEF Totals
    <3>4. Score(o.winner, p) \in 0..2
      BY DEF Score
    <3>5. QED
      BY <3>2, <3>3, <3>4 DEF DeltasAreWhole
  <2>2. QED
    BY <1>3, <2>1 DEF Deltas
<1>4. QED
  BY <1>2, <1>3

\* A player's totals stay numbers, and the rating above its floor.
LEMMA BumpedTyped ==
  ASSUME NEW t \in Totals, NEW winner, NEW p, NEW delta \in Int
  PROVE  Bumped(t, winner, p, delta) \in Totals
<1>1. /\ t.matches \in Nat /\ t.wins \in Nat /\ t.losses \in Nat /\ t.draws \in Nat
      /\ t.rating \in Nat /\ t.rating >= RatingFloor
  BY DEF Totals
<1>2. RatingFloor \in Nat
  BY StoreAssumption
<1>3. Rated(t.rating, delta) \in Nat /\ Rated(t.rating, delta) >= RatingFloor
  BY <1>1, <1>2 DEF Rated
<1>4. \A n \in Nat, b \in BOOLEAN : n + (IF b THEN 1 ELSE 0) \in Nat
  OBVIOUS
<1>5. /\ t.matches + 1 \in Nat
      /\ t.wins + (IF winner = p THEN 1 ELSE 0) \in Nat
      /\ t.losses + (IF winner = Other(p) THEN 1 ELSE 0) \in Nat
      /\ t.draws + (IF winner = Nobody THEN 1 ELSE 0) \in Nat
  BY <1>1, <1>4
<1>6. QED
  BY <1>3, <1>5 DEF Bumped, Totals

\* Every statement leaves a database.
LEMMA StatementTyped ==
  ASSUME DeltasAreWhole, Accounted, Typed,
         InsertMatch \/ (\E p \in Seats : BumpSeat(p)) \/ CountDay
  PROVE  tx' \in Database
<1>1. /\ DOMAIN tx = {"rows", "players", "days"}
      /\ tx = [rows |-> tx.rows, players |-> tx.players, days |-> tx.days]
      /\ tx.rows \in Seq(MatchRow) /\ tx.players \in [Accounts -> Totals]
      /\ tx.days \in [Days -> [matches : Nat, forfeits : Nat, draws : Nat]]
  BY DEF Typed, Database
<1>2. CASE InsertMatch
  <2>1. Running("match")
        /\ tx' = [tx EXCEPT !.rows = Append(@, [result |-> Current, deltas |-> Deltas(Current)])]
    BY <1>2 DEF InsertMatch
  <2>2. [result |-> Current, deltas |-> Deltas(Current)] \in MatchRow
    BY <2>1, CurrentFacts, DeltasTyped DEF Typed, MatchRow
  <2>3. Append(tx.rows, [result |-> Current, deltas |-> Deltas(Current)]) \in Seq(MatchRow)
    BY <1>1, <2>2
  <2>4. QED
    BY <1>1, <2>1, <2>3 DEF Database
<1>3. ASSUME NEW p \in Seats, BumpSeat(p)
      PROVE  tx' \in Database
  <2>1. Running(IF p = 0 THEN "seat0" ELSE "seat1")
        /\ tx' = IF Current.sides[p] = Guest THEN tx
                 ELSE [tx EXCEPT !.players[Current.sides[p]] =
                           Bumped(@, Current.winner, p, Row.deltas[p])]
    BY <1>3 DEF BumpSeat
  <2>2. Current \in Result /\ Len(tx.rows) \in Nat \ {0}
    BY <2>1, CurrentFacts
  <2>3. Row \in MatchRow
    BY <1>1, <2>2 DEF Row
  <2>4. Row.deltas[p] \in Int /\ Current.sides[p] \in Accounts \cup {Guest}
    BY <2>2, <2>3 DEF MatchRow, Result
  <2>5. CASE Current.sides[p] = Guest
    BY <2>1, <2>5 DEF Typed
  <2>6. CASE Current.sides[p] # Guest
    <3> DEFINE a == Current.sides[p]
               b == Bumped(tx.players[a], Current.winner, p, Row.deltas[p])
    <3>1. a \in Accounts
      BY <2>4, <2>6
    <3>2. b \in Totals
      BY <1>1, <2>4, <3>1, BumpedTyped
    <3>3. tx' = [tx EXCEPT !.players = [tx.players EXCEPT ![a] = b]]
      BY <1>1, <2>1, <2>6
    <3> HIDE DEF b, a
    <3>4. [tx.players EXCEPT ![a] = b] \in [Accounts -> Totals]
      BY <1>1, <3>1, <3>2
    <3>5. QED
      BY <1>1, <3>3, <3>4 DEF Database
  <2>7. QED
    BY <2>5, <2>6
<1>4. CASE CountDay
  <2> DEFINE d == Current.day
             c == [matches  |-> tx.days[d].matches + 1,
                   forfeits |-> tx.days[d].forfeits
                                   + (IF Current.reason = "forfeit" THEN 1 ELSE 0),
                   draws    |-> tx.days[d].draws + (IF Current.winner = Nobody THEN 1 ELSE 0)]
  <2>1. Running("day")
    BY <1>4 DEF CountDay
  <2>2. d \in Days
    BY <2>1, CurrentFacts DEF Result
  <2>3. c \in [matches : Nat, forfeits : Nat, draws : Nat]
    <3>1. tx.days[d] \in [matches : Nat, forfeits : Nat, draws : Nat]
      BY <1>1, <2>2
    <3>2. QED
      BY <3>1
  <2>4. tx' = [tx EXCEPT !.days = [tx.days EXCEPT ![d] = c]]
    BY <1>1, <1>4 DEF CountDay
  <2> HIDE DEF c, d
  <2>5. [tx.days EXCEPT ![d] = c] \in [Days -> [matches : Nat, forfeits : Nat, draws : Nat]]
    BY <1>1, <2>2, <2>3
  <2>6. QED
    BY <1>1, <2>4, <2>5 DEF Database
<1>5. QED
  BY <1>2, <1>3, <1>4

LEMMA InitTyped == Init => Typed
<1> SUFFICES ASSUME Init PROVE Typed
  OBVIOUS
<1>1. NoGames \in Totals /\ NoDay \in [matches : Nat, forfeits : Nat, draws : Nat]
  BY StoreAssumption DEF NoGames, NoDay, Totals
<1>2. <<>> \in Seq(MatchRow)
  OBVIOUS
<1>3. db \in Database
  BY <1>1, <1>2 DEF Init, Database
<1>4. QED
  BY <1>2, <1>3, StoreAssumption DEF Init, FreshQueue, Typed

LEMMA NextTyped ==
  ASSUME DeltasAreWhole, Accounted, Typed, [Next]_vars
  PROVE  Typed'
<1>1. CASE UNCHANGED vars
  BY <1>1 DEF vars, queueVars, storeVars, Typed
<1>2. CASE InsertMatch \/ (\E p \in Seats : BumpSeat(p)) \/ CountDay
  <2>1. UNCHANGED <<queueVars, db, lives, made, earlier>>
    BY <1>2 DEF InsertMatch, BumpSeat, CountDay, Running
  <2>2. QED
    BY <1>2, <2>1, StatementTyped DEF Typed, queueVars
<1>3. CASE Commit \/ Throw
  BY <1>3 DEF Commit, Throw, FlushReturns, FlushThrows, Typed
<1>4. ASSUME NEW o \in Outcomes, RecordMatch(o) PROVE Typed'
  <2>1. made \in Nat /\ made' = made + 1 /\ made < MaxResults
    BY <1>4 DEF RecordMatch, Typed
  <2>2. MaxResults \in Nat
    BY StoreAssumption
  <2>3. made' \in 0..MaxResults
    BY <2>1, <2>2
  <2>4. timer' \in BOOLEAN
    BY <1>4 DEF RecordMatch, Push, Typed
  <2>5. QED
    BY <1>4, <2>3, <2>4 DEF RecordMatch, Typed
<1>5. CASE TimerFires \/ Flush \/ Close
  BY <1>5 DEF TimerFires, Flush, Close, Drain, Stop, storeVars, Typed
<1>6. CASE CloseDatabase \/ Crash \/ Restart
  <2>1. db.rows \in Seq(MatchRow)
    BY DEF Typed, Database
  <2>2. UNCHANGED <<db, made>> /\ (tx' = tx \/ tx' = db) /\ timer' \in BOOLEAN
    BY <1>6 DEF CloseDatabase, Crash, Restart, Start, queueVars, Typed
  <2>3. lives' \in Nat /\ (earlier' = earlier \/ earlier' = db.rows)
    BY <1>6 DEF CloseDatabase, Crash, Restart, Typed
  <2>4. QED
    BY <2>1, <2>2, <2>3 DEF Typed
<1>7. QED
  BY <1>1, <1>2, <1>3, <1>4, <1>5, <1>6 DEF Next, Transaction

\* Every variable of the store holds a value of its kind and no rating ever falls
\* below the floor of applyRating, whatever the results and the ratings' formula.
THEOREM StoreIsTyped == ASSUME DeltasAreWhole PROVE Spec => []TypeOK
<1>1. Accounted /\ Typed => TypeOK
  BY DEF Accounted, IInv, Backlog, Closing, Tabled, Typed, TypeOK
<1>2. Accounted /\ Typed /\ [Next]_vars => Typed'
  BY NextTyped
<1>3. QED
  BY <1>1, <1>2, InitTyped, AccountedInvariant, PTL DEF Spec

-----------------------------------------------------------------------------
(* The leaderboard and the match list.                                     *)

\* The seats and the days of n rows that are counted when the transaction is at
\* a statement: all but what the last row still waits for.
Seen(n, at) ==
    {s \in (1..n) \X Seats : s[1] < n \/ at \in {"match", "day"} \/ (at = "seat1" /\ s[2] = 0)}
SeenDays(n, at) == {i \in 1..n : i < n \/ at = "match"}

Played(rows, at, a) == {s \in Seen(Len(rows), at) : rows[s[1]].result.sides[s[2]] = a}
Won(rows, at, a) == {s \in Played(rows, at, a) : rows[s[1]].result.winner = s[2]}
Drawn(rows, at, a) == {s \in Played(rows, at, a) : rows[s[1]].result.winner = Nobody}
PlayedOn(rows, at, d) == {i \in SeenDays(Len(rows), at) : rows[i].result.day = d}
ForfeitedOn(rows, at, d) == {i \in PlayedOn(rows, at, d) : rows[i].result.reason = "forfeit"}
DrawnOn(rows, at, d) == {i \in PlayedOn(rows, at, d) : rows[i].result.winner = Nobody}

RatingsNow(rows, at) ==
    LET n == Len(rows)
        R == RatingsAfter(rows)
    IN  IF at = "seat0" THEN R[n - 1]
        ELSE IF at = "seat1" THEN SeatApplied(R[n - 1], rows[n], 0)
        ELSE R[n]

DueDelta(r, o, p) ==
    IF o.sides[p] = Guest \/ o.sides[Other(p)] = Guest THEN 0
    ELSE RatingDelta(r[o.sides[p]], r[o.sides[Other(p)]], Score(o.winner, p))

RatingsOf(t) == [a \in Accounts |-> t.players[a].rating]

TotalsFollow(t, at) ==
    \A a \in Accounts :
        /\ t.players[a].matches = Cardinality(Played(t.rows, at, a))
        /\ t.players[a].wins = Cardinality(Won(t.rows, at, a))
        /\ t.players[a].draws = Cardinality(Drawn(t.rows, at, a))
        /\ t.players[a].losses
             = t.players[a].matches - t.players[a].wins - t.players[a].draws
DaysFollow(t, at) ==
    \A d \in Days :
        /\ t.days[d].matches = Cardinality(PlayedOn(t.rows, at, d))
        /\ t.days[d].forfeits = Cardinality(ForfeitedOn(t.rows, at, d))
        /\ t.days[d].draws = Cardinality(DrawnOn(t.rows, at, d))
DeltasFollow(rows) ==
    \A i \in 1..Len(rows), p \in Seats :
        rows[i].deltas[p] = DueDelta(RatingsAfter(rows)[i - 1], rows[i].result, p)

\* A database as a transaction has left it when it is at a statement.
Follows(t, at) ==
    /\ TotalsFollow(t, at) /\ DaysFollow(t, at) /\ DeltasFollow(t.rows)
    /\ RatingsOf(t) = RatingsNow(t.rows, at)

Tallied == Follows(db, "match") /\ Follows(tx, pc.at)

\* What is counted is finite.
LEMMA SeenFinite ==
  ASSUME NEW n \in Nat, NEW at
  PROVE  IsFiniteSet(Seen(n, at)) /\ IsFiniteSet(SeenDays(n, at))
<1>1. IsFiniteSet(1..n)
  BY FS_Interval
<1>2. IsFiniteSet(Seats)
  <2>1. Seats = {0} \cup {1}
    BY DEF Seats
  <2>2. QED
    BY <2>1, FS_Singleton, FS_AddElement
<1>3. IsFiniteSet((1..n) \X Seats)
  BY <1>1, <1>2, FS_Product
<1>4. Seen(n, at) \subseteq (1..n) \X Seats /\ SeenDays(n, at) \subseteq 1..n
  BY DEF Seen, SeenDays
<1>5. QED
  BY <1>1, <1>3, <1>4, FS_Subset

LEMMA FilteredFinite ==
  ASSUME NEW rows, Len(rows) \in Nat, NEW at, NEW k
  PROVE  /\ IsFiniteSet(Played(rows, at, k)) /\ IsFiniteSet(Won(rows, at, k))
         /\ IsFiniteSet(Drawn(rows, at, k))
         /\ IsFiniteSet(PlayedOn(rows, at, k)) /\ IsFiniteSet(ForfeitedOn(rows, at, k))
         /\ IsFiniteSet(DrawnOn(rows, at, k))
<1>1. IsFiniteSet(Seen(Len(rows), at)) /\ IsFiniteSet(SeenDays(Len(rows), at))
  BY SeenFinite
<1>2. /\ Played(rows, at, k) \subseteq Seen(Len(rows), at)
      /\ Won(rows, at, k) \subseteq Seen(Len(rows), at)
      /\ Drawn(rows, at, k) \subseteq Seen(Len(rows), at)
      /\ PlayedOn(rows, at, k) \subseteq SeenDays(Len(rows), at)
      /\ ForfeitedOn(rows, at, k) \subseteq SeenDays(Len(rows), at)
      /\ DrawnOn(rows, at, k) \subseteq SeenDays(Len(rows), at)
  BY DEF Played, Won, Drawn, PlayedOn, ForfeitedOn, DrawnOn
<1>3. QED
  BY <1>1, <1>2, FS_Subset

\* Counting one more element, or not.
LEMMA OneMore ==
  ASSUME NEW U, NEW V, NEW x, NEW c \in BOOLEAN, IsFiniteSet(U), x \notin U,
         V = IF c THEN U \cup {x} ELSE U
  PROVE  Cardinality(V) = Cardinality(U) + (IF c THEN 1 ELSE 0)
<1>1. Cardinality(U) \in Nat
  BY FS_CardinalityType
<1>2. CASE c
  BY <1>1, <1>2, FS_AddElement
<1>3. CASE ~c
  BY <1>1, <1>3
<1>4. QED
  BY <1>2, <1>3

\* A new row is seen by nothing before its seats are counted.
LEMMA SeenBefore ==
  ASSUME NEW n \in Nat
  PROVE  /\ Seen(n + 1, "seat0") = Seen(n, "match")
         /\ SeenDays(n + 1, "seat0") = SeenDays(n, "match")
  BY DEF Seen, SeenDays, Seats

\* The statement for a seat sees that seat, and the one for the day that day.
LEMMA SeenSeat ==
  ASSUME NEW n \in Nat \ {0}, NEW p \in Seats, NEW before, NEW after,
         before = (IF p = 0 THEN "seat0" ELSE "seat1"),
         after = (IF p = 0 THEN "seat1" ELSE "day")
  PROVE  /\ Seen(n, after) = Seen(n, before) \cup {<<n, p>>}
         /\ <<n, p>> \notin Seen(n, before)
         /\ SeenDays(n, after) = SeenDays(n, before)
<1>1. CASE p = 0
  BY <1>1 DEF Seen, SeenDays, Seats
<1>2. CASE p = 1
  BY <1>2 DEF Seen, SeenDays, Seats
<1>3. QED
  BY <1>1, <1>2 DEF Seats

LEMMA SeenDay ==
  ASSUME NEW n \in Nat \ {0}
  PROVE  /\ Seen(n, "match") = Seen(n, "day")
         /\ SeenDays(n, "match") = SeenDays(n, "day") \cup {n}
         /\ n \notin SeenDays(n, "day")
  BY DEF Seen, SeenDays, Seats

\* More rows do not change the ratings before them.
LEMMA SameRows ==
  ASSUME NEW rows, NEW more, Len(rows) \in Nat, Len(more) \in Nat, Len(rows) <= Len(more),
         \A i \in 1..Len(rows) : more[i] = rows[i]
  PROVE  \A i \in 0..Len(rows) : RatingsAfter(more)[i] = RatingsAfter(rows)[i]
<1> DEFINE f == RatingsAfter(rows)
           g == RatingsAfter(more)
           n == Len(rows)
           m == Len(more)
<1>1. Runs(f, rows, n) /\ Runs(g, more, m)
  BY RatingsRun
<1>2. n \in Nat /\ m \in Nat /\ n <= m /\ \A i \in 1..n : more[i] = rows[i]
  OBVIOUS
<1> HIDE DEF f, g, n, m
<1> DEFINE S == {i \in Nat : i <= n => g[i] = f[i]}
<1>3. 0 \in S
  BY <1>1, <1>2 DEF Runs
<1>4. ASSUME NEW i \in S PROVE i + 1 \in S
  <2>1. SUFFICES ASSUME i + 1 <= n PROVE g[i + 1] = f[i + 1]
    OBVIOUS
  <2>2. /\ g[i] = f[i] /\ more[i + 1] = rows[i + 1]
        /\ i + 1 \in 0..n /\ i + 1 \in 0..m /\ i + 1 # 0 /\ (i + 1) - 1 = i
    BY <1>2, <2>1
  <2>3. f[i + 1] = RowApplied(f[i], rows[i + 1])
    BY <1>1, <2>2 DEF Runs
  <2>4. g[i + 1] = RowApplied(g[i], more[i + 1])
    BY <1>1, <2>2 DEF Runs
  <2>5. QED
    BY <2>2, <2>3, <2>4
<1>5. S \in SUBSET Nat
  OBVIOUS
<1> HIDE DEF S
<1>6. S = Nat
  BY <1>3, <1>4, <1>5, SetInduction
<1>7. QED
  BY <1>6 DEF S, f, g, n

\* The last row takes the ratings one step on.
LEMMA LastRowRates ==
  ASSUME NEW rows, Len(rows) \in Nat \ {0}
  PROVE  RatingsAfter(rows)[Len(rows)]
           = RowApplied(RatingsAfter(rows)[Len(rows) - 1], rows[Len(rows)])
<1>1. Runs(RatingsAfter(rows), rows, Len(rows))
  BY RatingsRun
<1>2. Len(rows) \in 0..Len(rows) /\ Len(rows) # 0
  OBVIOUS
<1>3. QED
  BY <1>1, <1>2 DEF Runs

-----------------------------------------------------------------------------
(* Every statement keeps the tally.                                        *)

\* A new row owes its seats and its day, and its deltas are the due ones.
LEMMA InsertTallies ==
  ASSUME DeltasAreWhole, Accounted, Typed, Tallied, InsertMatch
  PROVE  Tallied'
<1> DEFINE row == [result |-> Current, deltas |-> Deltas(Current)]
           n == Len(tx.rows)
<1>1. /\ Running("match") /\ tx' = [tx EXCEPT !.rows = Append(@, row)]
      /\ pc' = [pc EXCEPT !.at = "seat0"] /\ db' = db
  BY DEF InsertMatch, Running
<1>2. /\ pc.at = "match" /\ pc'.at = "seat0" /\ Current \in Result
  BY <1>1, CurrentFacts DEF Running
<1>3. /\ DOMAIN tx = {"rows", "players", "days"}
      /\ tx.rows \in Seq(MatchRow) /\ n \in Nat
      /\ tx.players \in [Accounts -> Totals]
  BY DEF Typed, Database
<1>4. /\ tx'.rows = Append(tx.rows, row) /\ tx'.players = tx.players /\ tx'.days = tx.days
  BY <1>1, <1>3
<1>5. /\ Len(tx'.rows) = n + 1
      /\ \A i \in 1..n : tx'.rows[i] = tx.rows[i]
      /\ tx'.rows[n + 1] = row
  BY <1>3, <1>4
<1>6. Follows(tx, "match")
  BY <1>2 DEF Tallied
<1>7. TotalsFollow(tx', "seat0")
  <2>1. Seen(n + 1, "seat0") = Seen(n, "match") /\ \A s \in Seen(n, "match") : s[1] \in 1..n
    BY <1>3, SeenBefore DEF Seen
  <2>2. ASSUME NEW a \in Accounts
        PROVE  /\ Played(tx'.rows, "seat0", a) = Played(tx.rows, "match", a)
               /\ Won(tx'.rows, "seat0", a) = Won(tx.rows, "match", a)
               /\ Drawn(tx'.rows, "seat0", a) = Drawn(tx.rows, "match", a)
    <3>1. Played(tx'.rows, "seat0", a) = Played(tx.rows, "match", a)
      BY <1>5, <2>1 DEF Played
    <3>2. \A s \in Played(tx.rows, "match", a) : tx'.rows[s[1]] = tx.rows[s[1]]
      BY <1>5, <2>1 DEF Played
    <3>3. QED
      BY <3>1, <3>2 DEF Won, Drawn
  <2>3. QED
    BY <1>4, <1>6, <2>2 DEF Follows, TotalsFollow
<1>8. DaysFollow(tx', "seat0")
  <2>1. SeenDays(n + 1, "seat0") = SeenDays(n, "match")
        /\ \A i \in SeenDays(n, "match") : i \in 1..n
    BY <1>3, SeenBefore DEF SeenDays
  <2>2. ASSUME NEW d \in Days
        PROVE  /\ PlayedOn(tx'.rows, "seat0", d) = PlayedOn(tx.rows, "match", d)
               /\ ForfeitedOn(tx'.rows, "seat0", d) = ForfeitedOn(tx.rows, "match", d)
               /\ DrawnOn(tx'.rows, "seat0", d) = DrawnOn(tx.rows, "match", d)
    <3>1. PlayedOn(tx'.rows, "seat0", d) = PlayedOn(tx.rows, "match", d)
      BY <1>5, <2>1 DEF PlayedOn
    <3>2. \A i \in PlayedOn(tx.rows, "match", d) : tx'.rows[i] = tx.rows[i]
      BY <1>5, <2>1 DEF PlayedOn
    <3>3. QED
      BY <3>1, <3>2 DEF ForfeitedOn, DrawnOn
  <2>3. QED
    BY <1>4, <1>6, <2>2 DEF Follows, DaysFollow
<1>9. \A i \in 0..n : RatingsAfter(tx'.rows)[i] = RatingsAfter(tx.rows)[i]
  <2> DEFINE more == tx'.rows
  <2>1. /\ Len(more) \in Nat /\ Len(tx.rows) \in Nat /\ Len(tx.rows) <= Len(more)
        /\ \A i \in 1..Len(tx.rows) : more[i] = tx.rows[i]
    BY <1>3, <1>5
  <2> HIDE DEF more
  <2>2. \A i \in 0..Len(tx.rows) : RatingsAfter(more)[i] = RatingsAfter(tx.rows)[i]
    BY <2>1, SameRows
  <2>3. QED
    BY <2>2 DEF more
<1>10. RatingsOf(tx) = RatingsAfter(tx.rows)[n]
  BY <1>6 DEF Follows, RatingsNow
<1>11. RatingsOf(tx') = RatingsNow(tx'.rows, "seat0")
  <2>1. RatingsOf(tx') = RatingsOf(tx)
    BY <1>4 DEF RatingsOf
  <2>2. RatingsNow(tx'.rows, "seat0") = RatingsAfter(tx'.rows)[n]
    BY <1>3, <1>5 DEF RatingsNow
  <2>3. QED
    BY <1>3, <1>9, <1>10, <2>1, <2>2
<1>12. DeltasFollow(tx'.rows)
  <2>1. ASSUME NEW i \in 1..n, NEW p \in Seats
        PROVE  tx'.rows[i].deltas[p]
                 = DueDelta(RatingsAfter(tx'.rows)[i - 1], tx'.rows[i].result, p)
    <3>1. i - 1 \in 0..n
      BY <1>3
    <3>2. QED
      BY <1>5, <1>6, <1>9, <3>1 DEF Follows, DeltasFollow
  <2>2. ASSUME NEW p \in Seats
        PROVE  row.deltas[p] = DueDelta(RatingsAfter(tx'.rows)[n], Current, p)
    <3>1. RatingsAfter(tx'.rows)[n] = RatingsOf(tx)
      BY <1>3, <1>9, <1>10
    <3>2. Deltas(Current)[p] = DueDelta(RatingsOf(tx), Current, p)
      <4>1. /\ Current.sides \in [Seats -> Accounts \cup {Guest}]
            /\ Other(p) \in Seats
            /\ \A q \in Seats : q = p \/ q = Other(p)
        BY <1>2 DEF Result, Seats, Other
      <4>2. CASE \E q \in Seats : Current.sides[q] = Guest
        BY <4>1, <4>2 DEF Deltas, DueDelta
      <4>3. CASE ~(\E q \in Seats : Current.sides[q] = Guest)
        <5>1. Current.sides[p] \in Accounts /\ Current.sides[Other(p)] \in Accounts
          BY <4>1, <4>3
        <5>2. /\ RatingsOf(tx)[Current.sides[p]] = tx.players[Current.sides[p]].rating
              /\ RatingsOf(tx)[Current.sides[Other(p)]]
                   = tx.players[Current.sides[Other(p)]].rating
          BY <5>1 DEF RatingsOf
        <5>3. QED
          BY <4>1, <4>3, <5>2 DEF Deltas, DueDelta
      <4>4. QED
        BY <4>2, <4>3
    <3>3. QED
      BY <3>1, <3>2
  <2>3. SUFFICES ASSUME NEW i \in 1..Len(tx'.rows), NEW p \in Seats
                 PROVE  tx'.rows[i].deltas[p]
                          = DueDelta(RatingsAfter(tx'.rows)[i - 1], tx'.rows[i].result, p)
    BY DEF DeltasFollow
  <2>4. CASE i = n + 1
    <3>1. i - 1 = n /\ tx'.rows[i] = row /\ row.result = Current
      BY <1>3, <1>5, <2>4
    <3>2. QED
      BY <2>2, <3>1
  <2>5. CASE i # n + 1
    <3>1. i \in 1..n
      BY <1>3, <1>5, <2>5
    <3>2. QED
      BY <2>1, <3>1
  <2>6. QED
    BY <2>4, <2>5
<1>13. QED
  BY <1>1, <1>2, <1>7, <1>8, <1>11, <1>12 DEF Tallied, Follows

\* One seat of one account more, or one other.
LEMMA SeatCounted ==
  ASSUME NEW rows, Len(rows) \in Nat \ {0}, NEW p \in Seats, NEW a
  PROVE  LET before == IF p = 0 THEN "seat0" ELSE "seat1"
             after == IF p = 0 THEN "seat1" ELSE "day"
             o == rows[Len(rows)].result
             mine == o.sides[p] = a
         IN  /\ Cardinality(Played(rows, after, a))
                  = Cardinality(Played(rows, before, a)) + (IF mine THEN 1 ELSE 0)
             /\ Cardinality(Won(rows, after, a))
                  = Cardinality(Won(rows, before, a))
                      + (IF mine /\ o.winner = p THEN 1 ELSE 0)
             /\ Cardinality(Drawn(rows, after, a))
                  = Cardinality(Drawn(rows, before, a))
                      + (IF mine /\ o.winner = Nobody THEN 1 ELSE 0)
<1> DEFINE before == IF p = 0 THEN "seat0" ELSE "seat1"
           after == IF p = 0 THEN "seat1" ELSE "day"
           n == Len(rows)
           o == rows[n].result
           mine == o.sides[p] = a
           x == <<n, p>>
<1>1. Seen(n, after) = Seen(n, before) \cup {x} /\ x \notin Seen(n, before)
  BY SeenSeat
<1>2. /\ IsFiniteSet(Played(rows, before, a)) /\ IsFiniteSet(Won(rows, before, a))
      /\ IsFiniteSet(Drawn(rows, before, a))
  BY FilteredFinite
<1>3. x[1] = n /\ x[2] = p /\ rows[x[1]].result = o
  OBVIOUS
<1>4. mine \in BOOLEAN /\ (mine /\ o.winner = p) \in BOOLEAN
      /\ (mine /\ o.winner = Nobody) \in BOOLEAN
  OBVIOUS
<1> HIDE DEF x
<1>5. /\ Played(rows, after, a) = IF mine THEN Played(rows, before, a) \cup {x}
                                  ELSE Played(rows, before, a)
      /\ x \notin Played(rows, before, a)
  BY <1>1, <1>3 DEF Played
<1>6. /\ Won(rows, after, a) = IF mine /\ o.winner = p THEN Won(rows, before, a) \cup {x}
                               ELSE Won(rows, before, a)
      /\ x \notin Won(rows, before, a)
  BY <1>3, <1>5 DEF Won
<1>7. /\ Drawn(rows, after, a) = IF mine /\ o.winner = Nobody THEN Drawn(rows, before, a) \cup {x}
                                 ELSE Drawn(rows, before, a)
      /\ x \notin Drawn(rows, before, a)
  BY <1>3, <1>5 DEF Drawn
<1> HIDE DEF mine, before, after, o
<1>8. Cardinality(Played(rows, after, a))
        = Cardinality(Played(rows, before, a)) + (IF mine THEN 1 ELSE 0)
  BY <1>2, <1>4, <1>5, OneMore
<1>9. Cardinality(Won(rows, after, a))
        = Cardinality(Won(rows, before, a)) + (IF mine /\ o.winner = p THEN 1 ELSE 0)
  BY <1>2, <1>4, <1>6, OneMore
<1>10. Cardinality(Drawn(rows, after, a))
        = Cardinality(Drawn(rows, before, a)) + (IF mine /\ o.winner = Nobody THEN 1 ELSE 0)
  BY <1>2, <1>4, <1>7, OneMore
<1>11. QED
  BY <1>8, <1>9, <1>10 DEF mine, before, after, o

\* A seat's statement counts that seat and applies its delta.
LEMMA BumpTallies ==
  ASSUME Accounted, Typed, Tallied, NEW p \in Seats, BumpSeat(p)
  PROVE  Tallied'
<1> DEFINE before == IF p = 0 THEN "seat0" ELSE "seat1"
           after == IF p = 0 THEN "seat1" ELSE "day"
           n == Len(tx.rows)
           me == Current.sides[p]
           delta == Row.deltas[p]
           mine == Bumped(tx.players[me], Current.winner, p, delta)
<1>1. /\ Running(before)
      /\ tx' = IF me = Guest THEN tx ELSE [tx EXCEPT !.players[me] =
                                                Bumped(@, Current.winner, p, delta)]
      /\ pc' = [pc EXCEPT !.at = after] /\ db' = db
  BY DEF BumpSeat, Running
<1>2. before # "match" /\ before \in {"seat0", "seat1"} /\ after \in {"seat1", "day"}
  OBVIOUS
<1>3. /\ Current \in Result /\ n \in Nat \ {0} /\ Row.result = Current
      /\ pc.at = before /\ pc'.at = after
  BY <1>1, <1>2, CurrentFacts DEF Running
<1>4. /\ DOMAIN tx = {"rows", "players", "days"}
      /\ tx.rows \in Seq(MatchRow)
      /\ tx.players \in [Accounts -> Totals]
  BY DEF Typed, Database
<1>5. Row = tx.rows[n] /\ Row \in MatchRow /\ Row.result = Current
  BY <1>3, <1>4 DEF Row
<1>6. /\ me \in Accounts \cup {Guest} /\ Current.winner \in Seats \cup {Nobody}
      /\ delta \in Int
  BY <1>3, <1>5 DEF Result, MatchRow
<1>7. Guest \notin Accounts
  BY StoreAssumption
<1>8. /\ tx'.rows = tx.rows /\ tx'.days = tx.days /\ DOMAIN tx'.players = Accounts
      /\ \A a \in Accounts : a # me => tx'.players[a] = tx.players[a]
      /\ me \in Accounts => tx'.players[me] = mine
  BY <1>1, <1>4, <1>6, <1>7
<1>9. Follows(tx, before)
  BY <1>3 DEF Tallied
<1> HIDE DEF mine
<1>10. TotalsFollow(tx', after)
  <2>1. SUFFICES ASSUME NEW a \in Accounts
                 PROVE  /\ tx'.players[a].matches = Cardinality(Played(tx.rows, after, a))
                        /\ tx'.players[a].wins = Cardinality(Won(tx.rows, after, a))
                        /\ tx'.players[a].draws = Cardinality(Drawn(tx.rows, after, a))
                        /\ tx'.players[a].losses
                             = tx'.players[a].matches - tx'.players[a].wins - tx'.players[a].draws
    BY <1>8 DEF TotalsFollow
  <2>2. /\ tx.players[a].matches = Cardinality(Played(tx.rows, before, a))
        /\ tx.players[a].wins = Cardinality(Won(tx.rows, before, a))
        /\ tx.players[a].draws = Cardinality(Drawn(tx.rows, before, a))
        /\ tx.players[a].losses
             = tx.players[a].matches - tx.players[a].wins - tx.players[a].draws
    BY <1>9 DEF Follows, TotalsFollow
  <2>3. /\ tx.players[a].matches \in Nat /\ tx.players[a].wins \in Nat
        /\ tx.players[a].losses \in Nat /\ tx.players[a].draws \in Nat
    BY <1>4 DEF Totals
  <2>4. /\ Cardinality(Played(tx.rows, after, a))
             = Cardinality(Played(tx.rows, before, a)) + (IF me = a THEN 1 ELSE 0)
        /\ Cardinality(Won(tx.rows, after, a))
             = Cardinality(Won(tx.rows, before, a))
                 + (IF me = a /\ Current.winner = p THEN 1 ELSE 0)
        /\ Cardinality(Drawn(tx.rows, after, a))
             = Cardinality(Drawn(tx.rows, before, a))
                 + (IF me = a /\ Current.winner = Nobody THEN 1 ELSE 0)
    <3> DEFINE rows == tx.rows
    <3>1. Len(rows) \in Nat \ {0} /\ Current = rows[Len(rows)].result
      BY <1>3, <1>5
    <3> HIDE DEF rows
    <3>2. LET o == rows[Len(rows)].result
              mine0 == o.sides[p] = a
          IN  /\ Cardinality(Played(rows, after, a))
                   = Cardinality(Played(rows, before, a)) + (IF mine0 THEN 1 ELSE 0)
              /\ Cardinality(Won(rows, after, a))
                   = Cardinality(Won(rows, before, a))
                       + (IF mine0 /\ o.winner = p THEN 1 ELSE 0)
              /\ Cardinality(Drawn(rows, after, a))
                   = Cardinality(Drawn(rows, before, a))
                       + (IF mine0 /\ o.winner = Nobody THEN 1 ELSE 0)
      BY <3>1, SeatCounted
    <3>3. QED
      BY <3>1, <3>2 DEF rows
  <2>5. CASE a # me
    BY <1>8, <2>2, <2>3, <2>4, <2>5
  <2>6. CASE a = me
    <3>1. tx'.players[a] = mine
      BY <1>8, <2>6
    <3>2. /\ mine.matches = tx.players[a].matches + 1
          /\ mine.wins = tx.players[a].wins + (IF Current.winner = p THEN 1 ELSE 0)
          /\ mine.losses = tx.players[a].losses + (IF Current.winner = Other(p) THEN 1 ELSE 0)
          /\ mine.draws = tx.players[a].draws + (IF Current.winner = Nobody THEN 1 ELSE 0)
      BY <2>6 DEF mine, Bumped
    <3>3. mine.losses = mine.matches - mine.wins - mine.draws
      <4>1. /\ Nobody \notin Seats /\ p # Other(p)
            /\ \/ Current.winner = p /\ Current.winner # Other(p) /\ Current.winner # Nobody
               \/ Current.winner = Other(p) /\ Current.winner # p /\ Current.winner # Nobody
               \/ Current.winner = Nobody /\ Current.winner # p /\ Current.winner # Other(p)
        BY <1>6, StoreAssumption DEF Seats, Other
      <4>2. CASE Current.winner = p /\ Current.winner # Other(p) /\ Current.winner # Nobody
        BY <2>2, <2>3, <3>2, <4>2
      <4>3. CASE Current.winner = Other(p) /\ Current.winner # p /\ Current.winner # Nobody
        BY <2>2, <2>3, <3>2, <4>3
      <4>4. CASE Current.winner = Nobody /\ Current.winner # p /\ Current.winner # Other(p)
        BY <2>2, <2>3, <3>2, <4>4
      <4>5. QED
        BY <4>1, <4>2, <4>3, <4>4
    <3>4. QED
      BY <2>2, <2>4, <2>6, <3>1, <3>2, <3>3
  <2>7. QED
    BY <2>5, <2>6
<1>11. DaysFollow(tx', after)
  <2>1. SeenDays(n, after) = SeenDays(n, before)
    BY <1>2 DEF SeenDays
  <2>2. \A d \in Days : /\ PlayedOn(tx'.rows, after, d) = PlayedOn(tx.rows, before, d)
                        /\ ForfeitedOn(tx'.rows, after, d) = ForfeitedOn(tx.rows, before, d)
                        /\ DrawnOn(tx'.rows, after, d) = DrawnOn(tx.rows, before, d)
    BY <1>8, <2>1 DEF PlayedOn, ForfeitedOn, DrawnOn
  <2>3. QED
    BY <1>8, <1>9, <2>2 DEF Follows, DaysFollow
<1>12. DeltasFollow(tx'.rows)
  BY <1>8, <1>9 DEF Follows
<1>13. RatingsOf(tx') = RatingsNow(tx'.rows, after)
  <2>1. RatingsOf(tx') = SeatApplied(RatingsOf(tx), Row, p)
    <3>1. CASE me = Guest
      <4>1. tx' = tx /\ Row.result.sides[p] = Guest
        BY <1>1, <1>5, <3>1
      <4>2. RatingsOf(tx') = RatingsOf(tx)
        BY <4>1 DEF RatingsOf
      <4>3. QED
        BY <4>1, <4>2 DEF SeatApplied
    <3>2. CASE me # Guest
      <4>1. me \in Accounts /\ tx.players[me].rating \in Nat
            /\ tx.players[me].rating >= RatingFloor /\ RatingFloor \in Nat
        BY <1>4, <1>6, <3>2, StoreAssumption DEF Totals
      <4>2. mine.rating = Rated(tx.players[me].rating, delta)
        BY DEF mine, Bumped
      <4>3. mine.rating = IF tx.players[me].rating + delta < RatingFloor THEN RatingFloor
                          ELSE tx.players[me].rating + delta
        BY <1>6, <4>1, <4>2 DEF Rated
      <4>4. RatingsOf(tx') = [RatingsOf(tx) EXCEPT ![me] = mine.rating]
        BY <1>8, <4>1 DEF RatingsOf
      <4>5. SeatApplied(RatingsOf(tx), Row, p)
              = [RatingsOf(tx) EXCEPT ![me] =
                    IF @ + delta < RatingFloor THEN RatingFloor ELSE @ + delta]
        BY <1>5, <3>2 DEF SeatApplied
      <4>6. RatingsOf(tx)[me] = tx.players[me].rating
        BY <4>1 DEF RatingsOf
      <4>7. QED
        BY <4>3, <4>4, <4>5, <4>6
    <3>3. QED
      BY <3>1, <3>2
  <2>2. RatingsOf(tx) = RatingsNow(tx.rows, before)
    BY <1>9 DEF Follows
  <2>3. SeatApplied(RatingsNow(tx.rows, before), Row, p) = RatingsNow(tx.rows, after)
    <3>1. CASE p = 0
      BY <1>5, <3>1 DEF RatingsNow
    <3>2. CASE p = 1
      <4>1. RatingsAfter(tx.rows)[n]
              = SeatApplied(SeatApplied(RatingsAfter(tx.rows)[n - 1], Row, 0), Row, 1)
        BY <1>3, <1>5, LastRowRates DEF RowApplied
      <4>2. QED
        BY <1>5, <3>2, <4>1 DEF RatingsNow
    <3>3. QED
      BY <3>1, <3>2 DEF Seats
  <2>4. QED
    BY <1>8, <2>1, <2>2, <2>3
<1>14. QED
  BY <1>1, <1>3, <1>10, <1>11, <1>12, <1>13 DEF Tallied, Follows

\* One day of one row more.
LEMMA DayCounted ==
  ASSUME NEW rows, Len(rows) \in Nat \ {0}, NEW d
  PROVE  LET o == rows[Len(rows)].result
             on == o.day = d
         IN  /\ Cardinality(PlayedOn(rows, "match", d))
                  = Cardinality(PlayedOn(rows, "day", d)) + (IF on THEN 1 ELSE 0)
             /\ Cardinality(ForfeitedOn(rows, "match", d))
                  = Cardinality(ForfeitedOn(rows, "day", d))
                      + (IF on /\ o.reason = "forfeit" THEN 1 ELSE 0)
             /\ Cardinality(DrawnOn(rows, "match", d))
                  = Cardinality(DrawnOn(rows, "day", d))
                      + (IF on /\ o.winner = Nobody THEN 1 ELSE 0)
<1> DEFINE n == Len(rows)
           o == rows[n].result
           on == o.day = d
<1>1. SeenDays(n, "match") = SeenDays(n, "day") \cup {n} /\ n \notin SeenDays(n, "day")
  BY SeenDay
<1>2. /\ IsFiniteSet(PlayedOn(rows, "day", d)) /\ IsFiniteSet(ForfeitedOn(rows, "day", d))
      /\ IsFiniteSet(DrawnOn(rows, "day", d))
  BY FilteredFinite
<1>3. on \in BOOLEAN /\ (on /\ o.reason = "forfeit") \in BOOLEAN
      /\ (on /\ o.winner = Nobody) \in BOOLEAN
  OBVIOUS
<1>4. /\ PlayedOn(rows, "match", d) = IF on THEN PlayedOn(rows, "day", d) \cup {n}
                                      ELSE PlayedOn(rows, "day", d)
      /\ n \notin PlayedOn(rows, "day", d)
  BY <1>1 DEF PlayedOn
<1>5. /\ ForfeitedOn(rows, "match", d) = IF on /\ o.reason = "forfeit"
                                         THEN ForfeitedOn(rows, "day", d) \cup {n}
                                         ELSE ForfeitedOn(rows, "day", d)
      /\ n \notin ForfeitedOn(rows, "day", d)
  BY <1>4 DEF ForfeitedOn
<1>6. /\ DrawnOn(rows, "match", d) = IF on /\ o.winner = Nobody
                                     THEN DrawnOn(rows, "day", d) \cup {n}
                                     ELSE DrawnOn(rows, "day", d)
      /\ n \notin DrawnOn(rows, "day", d)
  BY <1>4 DEF DrawnOn
<1> HIDE DEF on, o, n
<1>7. Cardinality(PlayedOn(rows, "match", d))
        = Cardinality(PlayedOn(rows, "day", d)) + (IF on THEN 1 ELSE 0)
  BY <1>2, <1>3, <1>4, OneMore
<1>8. Cardinality(ForfeitedOn(rows, "match", d))
        = Cardinality(ForfeitedOn(rows, "day", d))
            + (IF on /\ o.reason = "forfeit" THEN 1 ELSE 0)
  BY <1>2, <1>3, <1>5, OneMore
<1>9. Cardinality(DrawnOn(rows, "match", d))
        = Cardinality(DrawnOn(rows, "day", d)) + (IF on /\ o.winner = Nobody THEN 1 ELSE 0)
  BY <1>2, <1>3, <1>6, OneMore
<1>10. QED
  BY <1>7, <1>8, <1>9 DEF on, o, n

\* The last statement counts the day.
LEMMA DayTallies ==
  ASSUME Accounted, Typed, Tallied, CountDay
  PROVE  Tallied'
<1> DEFINE n == Len(tx.rows)
           day == Current.day
           more == [matches  |-> tx.days[day].matches + 1,
                    forfeits |-> tx.days[day].forfeits
                                    + (IF Current.reason = "forfeit" THEN 1 ELSE 0),
                    draws    |-> tx.days[day].draws
                                    + (IF Current.winner = Nobody THEN 1 ELSE 0)]
<1>1. /\ Running("day") /\ pc' = [item |-> pc.item + 1, at |-> "match"] /\ db' = db
      /\ tx' = [tx EXCEPT !.days[day] = more]
  BY DEF CountDay, Running, Typed, Database
<1>2. /\ Current \in Result /\ n \in Nat \ {0} /\ Row.result = Current
      /\ pc.at = "day" /\ pc'.at = "match"
  BY <1>1, CurrentFacts DEF Running
<1>3. /\ DOMAIN tx = {"rows", "players", "days"}
      /\ tx.days \in [Days -> [matches : Nat, forfeits : Nat, draws : Nat]]
  BY DEF Typed, Database
<1>4. day \in Days /\ tx.rows[n].result = Current
  BY <1>2 DEF Result, Row
<1>5. /\ tx'.rows = tx.rows /\ tx'.players = tx.players
      /\ tx'.days[day] = more /\ \A d \in Days : d # day => tx'.days[d] = tx.days[d]
  BY <1>1, <1>3, <1>4
<1>6. Follows(tx, "day")
  BY <1>2 DEF Tallied
<1>7. TotalsFollow(tx', "match")
  <2>1. Seen(n, "match") = Seen(n, "day")
    BY <1>2, SeenDay, SMTT(30)
  <2>2. \A a \in Accounts : /\ Played(tx'.rows, "match", a) = Played(tx.rows, "day", a)
                            /\ Won(tx'.rows, "match", a) = Won(tx.rows, "day", a)
                            /\ Drawn(tx'.rows, "match", a) = Drawn(tx.rows, "day", a)
    BY <1>5, <2>1 DEF Played, Won, Drawn
  <2>3. QED
    BY <1>5, <1>6, <2>2 DEF Follows, TotalsFollow
<1>8. DaysFollow(tx', "match")
  <2>1. SUFFICES ASSUME NEW d \in Days
                 PROVE  /\ tx'.days[d].matches = Cardinality(PlayedOn(tx.rows, "match", d))
                        /\ tx'.days[d].forfeits = Cardinality(ForfeitedOn(tx.rows, "match", d))
                        /\ tx'.days[d].draws = Cardinality(DrawnOn(tx.rows, "match", d))
    BY <1>5 DEF DaysFollow
  <2>2. /\ tx.days[d].matches = Cardinality(PlayedOn(tx.rows, "day", d))
        /\ tx.days[d].forfeits = Cardinality(ForfeitedOn(tx.rows, "day", d))
        /\ tx.days[d].draws = Cardinality(DrawnOn(tx.rows, "day", d))
    BY <1>6 DEF Follows, DaysFollow
  <2>3. tx.days[d].matches \in Nat /\ tx.days[d].forfeits \in Nat /\ tx.days[d].draws \in Nat
    BY <1>3
  <2>4. LET o == tx.rows[n].result
            on == o.day = d
        IN  /\ Cardinality(PlayedOn(tx.rows, "match", d))
                 = Cardinality(PlayedOn(tx.rows, "day", d)) + (IF on THEN 1 ELSE 0)
            /\ Cardinality(ForfeitedOn(tx.rows, "match", d))
                 = Cardinality(ForfeitedOn(tx.rows, "day", d))
                     + (IF on /\ o.reason = "forfeit" THEN 1 ELSE 0)
            /\ Cardinality(DrawnOn(tx.rows, "match", d))
                 = Cardinality(DrawnOn(tx.rows, "day", d))
                     + (IF on /\ o.winner = Nobody THEN 1 ELSE 0)
    <3> DEFINE rows == tx.rows
    <3>1. Len(rows) \in Nat \ {0}
      BY <1>2
    <3> HIDE DEF rows
    <3>2. LET o == rows[Len(rows)].result
              on == o.day = d
          IN  /\ Cardinality(PlayedOn(rows, "match", d))
                   = Cardinality(PlayedOn(rows, "day", d)) + (IF on THEN 1 ELSE 0)
              /\ Cardinality(ForfeitedOn(rows, "match", d))
                   = Cardinality(ForfeitedOn(rows, "day", d))
                       + (IF on /\ o.reason = "forfeit" THEN 1 ELSE 0)
              /\ Cardinality(DrawnOn(rows, "match", d))
                   = Cardinality(DrawnOn(rows, "day", d))
                       + (IF on /\ o.winner = Nobody THEN 1 ELSE 0)
      BY <3>1, DayCounted
    <3>3. QED
      BY <3>2 DEF rows
  <2>5. CASE d = day
    <3>1. tx'.days[d] = more
      BY <1>5, <2>5
    <3>2. QED
      BY <1>4, <2>2, <2>3, <2>4, <2>5, <3>1
  <2>6. CASE d # day
    <3>1. tx'.days[d] = tx.days[d]
      BY <1>5, <2>6
    <3>2. QED
      BY <1>4, <2>2, <2>3, <2>4, <2>6, <3>1
  <2>7. QED
    BY <2>5, <2>6
<1>9. RatingsOf(tx') = RatingsNow(tx'.rows, "match")
  <2>1. RatingsOf(tx') = RatingsOf(tx)
    BY <1>5 DEF RatingsOf
  <2>2. QED
    BY <1>5, <1>6, <2>1 DEF Follows, RatingsNow
<1>10. QED
  BY <1>1, <1>2, <1>5, <1>6, <1>7, <1>8, <1>9 DEF Tallied, Follows

\* An empty database owes nothing.
LEMMA EmptyTallies ==
  ASSUME Init
  PROVE  Tallied
<1>1. /\ db.rows = <<>> /\ tx = db /\ pc.at = "match"
      /\ \A a \in Accounts : db.players[a] = NoGames
      /\ \A d \in Days : db.days[d] = NoDay
  BY DEF Init, FirstStatement
<1>2. Len(db.rows) = 0
  BY <1>1
<1>3. Seen(0, "match") = {} /\ SeenDays(0, "match") = {}
  BY DEF Seen, SeenDays
<1>4. Cardinality({}) = 0
  BY FS_EmptySet
<1>5. TotalsFollow(db, "match")
  <2>1. \A a \in Accounts : /\ Played(db.rows, "match", a) = {}
                            /\ Won(db.rows, "match", a) = {} /\ Drawn(db.rows, "match", a) = {}
    BY <1>2, <1>3 DEF Played, Won, Drawn
  <2>2. QED
    <3>1. \A a \in Accounts : /\ Cardinality(Played(db.rows, "match", a)) = 0
                              /\ Cardinality(Won(db.rows, "match", a)) = 0
                              /\ Cardinality(Drawn(db.rows, "match", a)) = 0
      BY <1>4, <2>1
    <3>2. /\ NoGames.matches = 0 /\ NoGames.wins = 0 /\ NoGames.draws = 0
          /\ NoGames.losses = 0
      BY DEF NoGames
    <3>3. QED
      BY <1>1, <3>1, <3>2 DEF TotalsFollow
<1>6. DaysFollow(db, "match")
  <2>1. \A d \in Days : /\ PlayedOn(db.rows, "match", d) = {}
                        /\ ForfeitedOn(db.rows, "match", d) = {}
                        /\ DrawnOn(db.rows, "match", d) = {}
    BY <1>2, <1>3 DEF PlayedOn, ForfeitedOn, DrawnOn
  <2>2. QED
    <3>1. \A d \in Days : /\ Cardinality(PlayedOn(db.rows, "match", d)) = 0
                          /\ Cardinality(ForfeitedOn(db.rows, "match", d)) = 0
                          /\ Cardinality(DrawnOn(db.rows, "match", d)) = 0
      BY <1>4, <2>1
    <3>2. NoDay.matches = 0 /\ NoDay.forfeits = 0 /\ NoDay.draws = 0
      BY DEF NoDay
    <3>3. QED
      BY <1>1, <3>1, <3>2 DEF DaysFollow
<1>7. DeltasFollow(db.rows)
  BY <1>2 DEF DeltasFollow
<1>8. RatingsOf(db) = RatingsNow(db.rows, "match")
  <2>1. Runs(RatingsAfter(db.rows), db.rows, 0)
    BY <1>2, RatingsRun
  <2>2. RatingsAfter(db.rows)[0] = StartRatings
    BY <2>1 DEF Runs
  <2>3. RatingsOf(db) = StartRatings
    BY <1>1 DEF RatingsOf, StartRatings, NoGames
  <2>4. QED
    BY <1>2, <2>2, <2>3 DEF RatingsNow
<1>9. QED
  BY <1>1, <1>5, <1>6, <1>7, <1>8 DEF Tallied, Follows

LEMMA NextTallies ==
  ASSUME DeltasAreWhole, Accounted, Typed, Tallied, [Next]_vars
  PROVE  Tallied'
<1>1. CASE UNCHANGED <<db, tx, pc>>
  BY <1>1 DEF Tallied
<1>2. CASE Transaction
  <2>1. CASE InsertMatch
    BY <2>1, InsertTallies
  <2>2. CASE \E p \in Seats : BumpSeat(p)
    BY <2>2, BumpTallies
  <2>3. CASE CountDay
    BY <2>3, DayTallies
  <2>4. CASE Commit
    <3>1. pc.at = "match"
      <4>1. pc.item > Len(batch) /\ Inserted <= Len(batch) /\ Len(batch) \in Nat
            /\ pc.item \in Nat
        BY <2>4 DEF Commit, Accounted, IInv, Backlog, Tabled
      <4>2. QED
        BY <4>1 DEF Inserted
    <3>2. db' = tx /\ tx' = tx /\ pc'.at = "match"
      BY <2>4 DEF Commit, FirstStatement
    <3>3. QED
      BY <3>1, <3>2 DEF Tallied
  <2>5. CASE Throw
    <3>1. db' = db /\ tx' = db /\ pc'.at = "match"
      BY <2>5 DEF Throw, FirstStatement
    <3>2. QED
      BY <3>1 DEF Tallied
  <2>6. QED
    BY <1>2, <2>1, <2>2, <2>3, <2>4, <2>5 DEF Transaction
<1>3. CASE Crash
  <2>1. db' = db /\ tx' = db /\ pc'.at = "match"
    BY <1>3 DEF Crash, FirstStatement
  <2>2. QED
    BY <2>1 DEF Tallied
<1>4. CASE UNCHANGED vars \/ (\E o \in Outcomes : RecordMatch(o)) \/ TimerFires \/ Flush
           \/ Close \/ CloseDatabase \/ Restart
  <2>1. UNCHANGED <<db, tx, pc>>
    BY <1>4 DEF vars, RecordMatch, TimerFires, Flush, Close, CloseDatabase, Restart, storeVars
  <2>2. QED
    BY <1>1, <2>1
<1>5. QED
  BY <1>2, <1>3, <1>4 DEF Next

\* matches.ts: whatever throws or dies between two statements of recordMany, the
\* totals and ratings of players and days are what the match list says, row by
\* row: for any number of accounts and results, any batch and any rating formula
\* that rounds.
THEOREM TheLeaderboardFollows ==
  ASSUME DeltasAreWhole
  PROVE  Spec => []LeaderboardFollowsMatchList
<1>1. ASSUME Tallied, Typed PROVE LeaderboardFollowsMatchList
  <2> DEFINE rows == db.rows
             n == Len(rows)
             R == RatingsAfter(rows)
             Sat(a) == {s \in (1..n) \X Seats : rows[s[1]].result.sides[s[2]] = a}
             On(d) == {i \in 1..n : rows[i].result.day = d}
  <2>1. Follows(db, "match") /\ n \in Nat
    BY <1>1 DEF Tallied, Typed, Database
  <2>2. Seen(n, "match") = (1..n) \X Seats /\ SeenDays(n, "match") = 1..n
    BY DEF Seen, SeenDays
  <2>3. \A a \in Accounts :
           /\ Sat(a) = Played(rows, "match", a)
           /\ {s \in Sat(a) : rows[s[1]].result.winner = s[2]} = Won(rows, "match", a)
           /\ {s \in Sat(a) : rows[s[1]].result.winner = Nobody} = Drawn(rows, "match", a)
    BY <2>2 DEF Played, Won, Drawn
  <2>4. \A d \in Days :
           /\ On(d) = PlayedOn(rows, "match", d)
           /\ {i \in On(d) : rows[i].result.reason = "forfeit"} = ForfeitedOn(rows, "match", d)
           /\ {i \in On(d) : rows[i].result.winner = Nobody} = DrawnOn(rows, "match", d)
    BY <2>2 DEF PlayedOn, ForfeitedOn, DrawnOn
  <2>5. \A a \in Accounts : db.players[a].rating = R[n][a]
    <3>1. RatingsOf(db) = R[n]
      BY <2>1 DEF Follows, RatingsNow
    <3>2. QED
      BY <3>1 DEF RatingsOf
  <2>6. \A i \in 1..n : \A p \in Seats :
           LET me == rows[i].result.sides[p]
               you == rows[i].result.sides[Other(p)]
           IN  rows[i].deltas[p] =
                 IF me = Guest \/ you = Guest THEN 0
                 ELSE RatingDelta(R[i - 1][me], R[i - 1][you], Score(rows[i].result.winner, p))
    BY <2>1, SMTT(30) DEF Follows, DeltasFollow, DueDelta
  <2>7. \A a \in Accounts :
           /\ db.players[a].matches = Cardinality(Sat(a))
           /\ db.players[a].wins
                = Cardinality({s \in Sat(a) : rows[s[1]].result.winner = s[2]})
           /\ db.players[a].draws
                = Cardinality({s \in Sat(a) : rows[s[1]].result.winner = Nobody})
           /\ db.players[a].losses
                = db.players[a].matches - db.players[a].wins - db.players[a].draws
    BY <2>1, <2>3 DEF Follows, TotalsFollow
  <2>8. \A d \in Days :
           /\ db.days[d].matches = Cardinality(On(d))
           /\ db.days[d].forfeits
                = Cardinality({i \in On(d) : rows[i].result.reason = "forfeit"})
           /\ db.days[d].draws = Cardinality({i \in On(d) : rows[i].result.winner = Nobody})
    BY <2>1, <2>4 DEF Follows, DaysFollow
  <2>9. QED
    BY <2>5, <2>6, <2>7, <2>8 DEF LeaderboardFollowsMatchList
<1>2. Accounted /\ Typed /\ [Next]_vars => Typed'
  BY NextTyped
<1>3. Accounted /\ Typed /\ Tallied /\ [Next]_vars => Tallied'
  BY NextTallies
<1>4. QED
  BY <1>1, <1>2, <1>3, InitTyped, EmptyTallies, AccountedInvariant, PTL DEF Spec
=============================================================================
