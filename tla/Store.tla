------------------------------- MODULE Store -------------------------------
(***************************************************************************)
(* The store of match results: packages/store/src/index.ts (TetrisStore),  *)
(* matches.ts (MatchStore) and the write queue between them.               *)
(*                                                                         *)
(* A drain hands a batch to recordMany, one SQLite transaction of several  *)
(* statements per result.  better-sqlite3 is synchronous, so nothing else  *)
(* of the process runs between two of them; but each can throw, and the    *)
(* process can die there.  tx is what the transaction would commit.        *)
(*                                                                         *)
(* Of a result the sides, the winner, the reason and the day are kept.     *)
(* Lines, attack and frames are added up in the same statements as the     *)
(* counters below, and names, seeds and replays only stored.               *)
(***************************************************************************)
EXTENDS WriteQueue, FiniteSets

CONSTANTS
    Accounts,             \* ids of registered players
    Guest,                \* a side with playerId null
    Nobody,               \* the winner of a draw
    Days,                 \* day keys
    Outcomes,             \* the results the server may hand over
    RatingDelta(_, _, _), \* ratingDelta(rating, opponent, score), score in halves
    StartRating,          \* STARTING_RATING
    RatingFloor,          \* the 100 of applyRating
    MaxResults,           \* results made in a behaviour (a bound)
    MaxLives              \* processes run one after the other (a bound)

Seats == {0, 1}
Other(p) == 1 - p

Outcome == [sides : [Seats -> Accounts \cup {Guest}], winner : Seats \cup {Nobody},
            reason : {"topout", "forfeit"}, day : Days]

ASSUME StoreAssumption ==
    /\ Guest \notin Accounts
    /\ Nobody \notin Seats
    /\ Outcomes \subseteq Outcome
    /\ StartRating \in Nat /\ RatingFloor \in Nat /\ RatingFloor <= StartRating
    /\ MaxResults \in Nat
    /\ MaxLives \in Nat

VARIABLES
    db,      \* the committed database
    tx,      \* the database as the running transaction sees it; db outside one
    pc,      \* the transaction's next statement: index in the batch and name
    phase,   \* open, closing (inside close), closed, or down: no process
    lives,   \* processes started so far
    made,    \* results made so far; the next is identified by made + 1
    earlier, \* history: the match rows found at start-up
    atClose  \* history: results pushed when close was called

storeVars == <<db, tx, pc, phase, lives, made, earlier, atClose>>
vars == <<queueVars, storeVars>>

NoGames == [matches |-> 0, wins |-> 0, losses |-> 0, draws |-> 0, rating |-> StartRating]
NoDay == [matches |-> 0, forfeits |-> 0, draws |-> 0]
FirstStatement == [item |-> 1, at |-> "match"]

\* The queue of a process that has just started its store.
FreshQueue ==
    /\ pending = <<>> /\ batch = <<>> /\ timer = TRUE
    /\ log = <<>> /\ written = <<>> /\ dropped = <<>> /\ failed = <<>>

Init ==
    /\ FreshQueue
    /\ db = [rows |-> <<>>, players |-> [a \in Accounts |-> NoGames], days |-> [d \in Days |-> NoDay]]
    /\ tx = db /\ pc = FirstStatement
    /\ phase = "open" /\ lives = 1 /\ made = 0
    /\ earlier = <<>> /\ atClose = 0

-----------------------------------------------------------------------------
(* The statements of a transaction.                                        *)

Current == batch[pc.item]
Row == tx.rows[Len(tx.rows)]

\* In half points: 2 for a win, 1 for a draw.
Score(winner, p) == IF winner = Nobody THEN 1 ELSE IF winner = p THEN 2 ELSE 0

\* Mutant: the ratings of before the batch are used for all of it.
StaleDeltas(o) ==
    IF \E p \in Seats : o.sides[p] = Guest THEN [p \in Seats |-> 0]
    ELSE [p \in Seats |-> RatingDelta(db.players[o.sides[p]].rating,
                                      db.players[o.sides[Other(p)]].rating,
                                      Score(o.winner, p))]

\* computeDeltas: a rating is at stake only between two accounts.
Deltas(o) ==
    IF \E p \in Seats : o.sides[p] = Guest THEN [p \in Seats |-> 0]
    ELSE [p \in Seats |-> RatingDelta(tx.players[o.sides[p]].rating,
                                      tx.players[o.sides[Other(p)]].rating,
                                      Score(o.winner, p))]

Running(statement) ==
    /\ phase \in {"open", "closing"} /\ Draining
    /\ pc.item <= Len(batch) /\ pc.at = statement
    /\ UNCHANGED <<queueVars, db, phase, lives, made, earlier, atClose>>

InsertMatch ==
    /\ Running("match")
    /\ tx' = [tx EXCEPT !.rows = Append(@, [result |-> Current, deltas |-> Deltas(Current)])]
    /\ pc' = [pc EXCEPT !.at = "seat0"]

\* applyRating: MAX(100, rating + ?), skipped for a delta of 0.
Rated(rating, delta) ==
    IF delta = 0 THEN rating
    ELSE IF rating + delta < RatingFloor THEN RatingFloor ELSE rating + delta

\* bumpPlayer, then applyRating.
Bumped(t, winner, p, delta) ==
    [matches |-> t.matches + 1,
     wins    |-> t.wins + (IF winner = p THEN 1 ELSE 0),
     losses  |-> t.losses + (IF winner = Other(p) THEN 1 ELSE 0),
     draws   |-> t.draws + (IF winner = Nobody THEN 1 ELSE 0),
     rating  |-> Rated(t.rating, delta)]

BumpSeat(p) ==
    /\ Running(IF p = 0 THEN "seat0" ELSE "seat1")
    /\ tx' = IF Current.sides[p] = Guest THEN tx
             ELSE [tx EXCEPT !.players[Current.sides[p]] =
                       Bumped(@, Current.winner, p, Row.deltas[p])]
    /\ pc' = [pc EXCEPT !.at = IF p = 0 THEN "seat1" ELSE "day"]

\* upsertDay.
CountDay ==
    /\ Running("day")
    /\ tx' = [tx EXCEPT !.days[Current.day] =
                  [matches  |-> @.matches + 1,
                   forfeits |-> @.forfeits + (IF Current.reason = "forfeit" THEN 1 ELSE 0),
                   draws    |-> @.draws + (IF Current.winner = Nobody THEN 1 ELSE 0)]]
    /\ pc' = [item |-> pc.item + 1, at |-> "match"]

Commit ==
    /\ phase \in {"open", "closing"}
    /\ FlushReturns
    /\ pc.item > Len(batch)
    /\ db' = tx /\ tx' = tx /\ pc' = FirstStatement
    /\ UNCHANGED <<phase, lives, made, earlier, atClose>>

\* Mutant: there is no transaction around the statements.
ThrowUnprotected ==
    /\ FlushThrows
    /\ db' = tx /\ tx' = tx /\ pc' = FirstStatement
    /\ UNCHANGED <<phase, lives, made, earlier, atClose>>

\* A statement, or COMMIT, throws: a full disk, a lock, a constraint.  Once the
\* database is closed the first one does.
Throw ==
    /\ FlushThrows
    /\ db' = db /\ tx' = db /\ pc' = FirstStatement
    /\ UNCHANGED <<phase, lives, made, earlier, atClose>>

Transaction == InsertMatch \/ (\E p \in Seats : BumpSeat(p)) \/ CountDay \/ Commit \/ Throw

-----------------------------------------------------------------------------
(* The life of the store.                                                  *)

\* recordMatch.  After a signal it is still called, for the matches that end
\* because their sockets are closed.
RecordMatch(o) ==
    /\ phase \in {"open", "closed"} /\ ~Draining /\ made < MaxResults
    /\ made' = made + 1
    /\ Push([id |-> made + 1, sides |-> o.sides, winner |-> o.winner,
             reason |-> o.reason, day |-> o.day])
    /\ UNCHANGED <<db, tx, pc, phase, lives, earlier, atClose>>

TimerFires ==
    /\ timer
    /\ Drain
    /\ UNCHANGED storeVars

\* The operator's flush.  Once the database is closed no operator is recognised.
Flush ==
    /\ phase = "open"
    /\ Drain
    /\ UNCHANGED storeVars

Close ==
    /\ phase = "open" /\ ~Draining
    /\ phase' = "closing" /\ atClose' = Len(log)
    /\ Stop
    /\ UNCHANGED <<db, tx, pc, lives, made, earlier>>

\* The end of close, in the same call: the database goes.
CloseDatabase ==
    /\ phase = "closing" /\ ~Draining
    /\ phase' = "closed"
    /\ UNCHANGED <<queueVars, db, tx, pc, lives, made, earlier, atClose>>

\* The process ends, by itself or killed, wherever it is.
Crash ==
    /\ phase # "down"
    /\ phase' = "down" /\ atClose' = 0
    /\ earlier' = db.rows
    /\ tx' = db /\ pc' = FirstStatement
    /\ pending' = <<>> /\ batch' = <<>> /\ timer' = FALSE
    /\ log' = <<>> /\ written' = <<>> /\ dropped' = <<>> /\ failed' = <<>>
    /\ UNCHANGED <<db, lives, made>>

\* Mutant: nobody starts the queue.
RestartIdle ==
    /\ phase = "down" /\ lives < MaxLives
    /\ phase' = "open" /\ lives' = lives + 1
    /\ UNCHANGED <<queueVars, db, tx, pc, made, earlier, atClose>>

\* openDatabase finds what was committed, and start sets the timer.
Restart ==
    /\ phase = "down" /\ lives < MaxLives
    /\ phase' = "open" /\ lives' = lives + 1
    /\ Start
    /\ UNCHANGED <<db, tx, pc, made, earlier, atClose>>

Next ==
    \/ Transaction
    \/ \E o \in Outcomes : RecordMatch(o)
    \/ TimerFires \/ Flush
    \/ Close \/ CloseDatabase
    \/ Crash \/ Restart

Spec == Init /\ [][Next]_vars

\* The interval fires for as long as the process runs, and a call of flush does
\* not stop half-way.
FairSpec == Spec /\ WF_vars(TimerFires) /\ WF_vars(Transaction)

-----------------------------------------------------------------------------
(* Properties.                                                             *)

Result == [id : 1..MaxResults, sides : [Seats -> Accounts \cup {Guest}],
           winner : Seats \cup {Nobody}, reason : {"topout", "forfeit"}, day : Days]
MatchRow == [result : Result, deltas : [Seats -> Int]]
Totals == [matches : Nat, wins : Nat, losses : Nat, draws : Nat,
           rating : {r \in Nat : r >= RatingFloor}]
Database ==
    [rows : Seq(MatchRow),
     players : [Accounts -> Totals],
     days : [Days -> [matches : Nat, forfeits : Nat, draws : Nat]]]

\* Every variable holds a value of its kind; no rating is below the floor, not
\* even inside a transaction.
TypeOK ==
    /\ db \in Database /\ tx \in Database
    /\ \A q \in {pending, batch, log, written, dropped, failed} : q \in Seq(Result)
    /\ timer \in BOOLEAN
    /\ pc \in [item : Nat \ {0}, at : {"match", "seat0", "seat1", "day"}]
    /\ phase \in {"open", "closing", "closed", "down"}
    /\ lives \in Nat /\ made \in 0..MaxResults
    /\ earlier \in Seq(MatchRow) /\ atClose \in Nat

InOrder(s) == \A i \in 1..Len(s) - 1 : s[i].id < s[i + 1].id

\* Whatever throws, fills up or dies: a result handed to recordMatch is in one
\* place, waiting, being written, written, dropped or failed, and is written at
\* most once; and the match table holds, after the rows of earlier processes,
\* exactly the written ones, in the order they were made.
EveryResultAccounted ==
    /\ Len(log) = Len(pending) + Len(batch) + Len(written) + Len(dropped) + Len(failed)
    /\ \A i \in 1..Len(log) : \E q \in {pending, batch, written, dropped, failed} :
           \E j \in 1..Len(q) : q[j] = log[i]
    /\ InOrder(dropped \o batch \o pending) /\ InOrder(failed \o batch \o pending)
    /\ InOrder([i \in 1..Len(db.rows) |-> db.rows[i].result])
    /\ SubSeq(db.rows, 1, Len(earlier)) = earlier
    /\ written = [i \in 1..Len(db.rows) - Len(earlier) |-> db.rows[Len(earlier) + i].result]

\* Ratings once a row's delta for one seat is applied.
SeatApplied(r, row, p) ==
    IF row.result.sides[p] = Guest THEN r
    ELSE [r EXCEPT ![row.result.sides[p]] =
              IF @ + row.deltas[p] < RatingFloor THEN RatingFloor ELSE @ + row.deltas[p]]

\* Ratings after the first i match rows, as the rows say.
RatingsAfter(rows) ==
    LET R[i \in 0..Len(rows)] ==
            IF i = 0 THEN [a \in Accounts |-> StartRating]
            ELSE SeatApplied(SeatApplied(R[i - 1], rows[i], 0), rows[i], 1)
    IN  R

\* matches.ts: one transaction, or "a crash mid-write leaves a leaderboard that
\* disagrees with the match list".  The totals of every account and day are
\* those of the match rows, its rating is the rows' deltas applied in order, and
\* each delta is the one due to the ratings of just before that match.
LeaderboardFollowsMatchList ==
    LET rows == db.rows
        R == RatingsAfter(rows)
        Sat(a) == {s \in (1..Len(rows)) \X Seats : rows[s[1]].result.sides[s[2]] = a}
        On(d) == {i \in 1..Len(rows) : rows[i].result.day = d}
    IN  /\ \A a \in Accounts :
             /\ db.players[a].matches = Cardinality(Sat(a))
             /\ db.players[a].wins = Cardinality({s \in Sat(a) : rows[s[1]].result.winner = s[2]})
             /\ db.players[a].draws = Cardinality({s \in Sat(a) : rows[s[1]].result.winner = Nobody})
             /\ db.players[a].losses
                  = db.players[a].matches - db.players[a].wins - db.players[a].draws
             /\ db.players[a].rating = R[Len(rows)][a]
        /\ \A d \in Days :
             /\ db.days[d].matches = Cardinality(On(d))
             /\ db.days[d].forfeits = Cardinality({i \in On(d) : rows[i].result.reason = "forfeit"})
             /\ db.days[d].draws = Cardinality({i \in On(d) : rows[i].result.winner = Nobody})
        /\ \A i \in 1..Len(rows) : \A p \in Seats :
             LET me == rows[i].result.sides[p]
                 you == rows[i].result.sides[Other(p)]
             IN  rows[i].deltas[p] =
                   IF me = Guest \/ you = Guest THEN 0
                   ELSE RatingDelta(R[i - 1][me], R[i - 1][you], Score(rows[i].result.winner, p))

\* With the limit no smaller than a batch, as in TetrisStore, nothing is ever
\* dropped for want of room: a backlog of a whole batch is already being
\* written, also while the database fails or is closed.
NothingIsDropped ==
    MaxBatch <= MaxPending => dropped = <<>> /\ Len(pending) < MaxBatch

\* close() writes, or reports as failed, whatever was queued when it was called.
CloseLeavesNothingBehind ==
    phase = "closed" => Len(pending) + Len(batch) <= Len(log) - atClose

\* While the process runs, a result does not wait for ever: it is written or
\* reported.
ResultsSettle ==
    \A n \in 1..MaxResults :
        (phase = "open" /\ \E i \in 1..Len(pending) : pending[i].id = n)
            ~> (phase # "open" \/ \E q \in {written, failed} : \E i \in 1..Len(q) : q[i].id = n)
=============================================================================
