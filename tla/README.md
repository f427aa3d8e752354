# A TLA+ model of TetrisVS

TetrisVS is a two-player falling-block game: a deterministic simulation
(`packages/core`), an authoritative server (`packages/server`), a SQLite store
(`packages/store`), a browser client (`packages/client`) and a bot
(`packages/bot`). This directory models it in TLA+, checks small instances with
TLC and proves the most important properties with TLAPS for every value of the
constants. Every definition is translated from the source; `PROJECT.json` maps
each to the lines it stands for.

    tlc -workers 2 -config MCRooms.cfg MCRooms     # one run
    tlapm RoomsProofs.tla                          # one module of proofs

## Inventory

| Component | State | Operations | What is hard | Modules |
| --- | --- | --- | --- | --- |
| Lobby (`server.ts`, `matchmaker.ts`, `guards.ts`) | room table, matchmaking queue, what each socket remembers (`socket.data`), maintenance | socket handlers, tick, janitor, closeRoom, maintenance, signals | any order of handlers and timers; stale codes after reaping; several ways for a match to end; room limit; shutdown | `Rooms` |
| Match (`match.ts` `step`) | status, winner, frame, two players | one tick | symmetry of a tick whose code is sequential; cancelling; both top out at once | `Duel`, `Garbage` |
| Board and piece control (`match.ts` `stepPlayer`, `board.ts`) | board, piece, hold, counters, garbage queue | one tick with one input | kicks and garbage against the stack; lock timer and its resets; clears between garbage | `Playfield` |
| Tables (`pieces.ts`, `attack.ts`) | none | pure functions | tables that must agree with the algorithm | `Pieces`, `Attack` |
| Input path (`input.ts`, `App.tsx` send loop, `server.ts` match:input, pump, recorder and `persist`) | keys, budgets, buffers, accumulator, replay | key events, blur and hidden tab, client tick, match:input, wake, tick | bursts against the budget, a release that is thrown away, a loop the browser suspends, stalls, the limit of the recorder | `InputPath`, `Replay` |
| Snapshots (`server.ts` broadcast and resync, `online.ts`, `delta.ts`, `serialize.ts`) | baselines on both sides, needFull | tick, resync, apply | diffs, full frames, refused frames and resyncs cross on their way | `Snapshots`, `Delta` |
| Write queue and match store (`queue.ts`, `matches.ts`) | pending rows, counters, match and player rows | push, drain, start, stop, record | a statement that throws or a process that dies inside a batch; the limit; what is pushed after close; rating floor | `WriteQueue`, `Store` |
| Accounts (`players.ts`, `passwords.ts`, `api.ts`) | players, sessions, failures and registrations by source | register, login, logout, me, prune | state read before an await and used after it | `Accounts` |
| Operators (`admin.ts`, `admin-api.ts`, `control.ts`) | roles, bans, audit log, maintenance, notice, sockets of accounts | every route that changes state; what sockets do meanwhile; a restart | the last operator; a banned account with a live socket or a login under way; what a restart forgets | `Console` |
| Client (`App.tsx`, `score.ts`) | scene, mode, refs, timers, socket, record | buttons, flows around an await, timers, socket events | timers, flows and messages of an earlier match | `Client` |
| Generator and bag (`rng.ts`), bot, database, presentation, console page, scripts | - | - | - | not modelled, see below |

Components talk in four ways. The client sends socket events to the lobby
(`protocol.ts`), which answers with acknowledgements and broadcasts. The lobby
calls `step` of the core for every live room on each tick. It hands a concluded
match to the store by `recordMatch`, a push on an in-memory queue that a timer
drains. The HTTP routes of players and operators call the store, and the
operators' also the lobby through `GameControl`.

`PROJECT.json` lists, under `hazards`, what in this code is hard to test, at its
line, and the properties that would catch it.

## Modules

### Lobby

* `Rooms` is the server process. Node runs a handler to completion, so each
  handler, timer callback and console request is one action. `at` is
  `socket.data`, `rooms` the room table as a function of all codes (`open` says
  whether the code is a key), `queue` the one matchmaking pool. The branches of
  a handler are separate actions (`MatchmakingRefused`, `MatchmakingWait`,
  `MatchmakingPair`); what the handler does before its early return (leaving the
  old room, leaving the queue) is in each of them. `leaveCurrentRoom` is
  `AfterLeave` and `VacateSeat`; `conclude` and `persist` are `Conclude` and
  `Persist`. A kick and a ban reach the lobby as the `Disconnect` that a timer
  causes 50 ms later, hence as a disconnect at any later moment.
  History: `saved` in a room (what `persist` pushed) and `lost`.
  The simulation is reduced to the outcomes one `step` can have for status and
  winner (`StepOutcomes`).
* `MatchLifecycle` is the abstract promise: a code is absent, waiting, live or
  over; a live match ends once, with a winner that nothing changes, and only then
  is the code free. `RoomsLifecycle` states the refinement mapping
  (`ImplementsLifecycle`).
* `MCRooms` instantiates them. `RoomsProofs` proves.

### Core

* `Attack` and `Pieces` hold the tables; shapes are one shape turned, kicks are
  the two SRS tables and their opposites, which gives the same entries as the
  tables of the source.
* `Garbage` is the queue of one player: cancelled from its head, extended at its
  end, released when the telegraph of its head is over.
* `Duel` is `step`: countdown, both players in a fixed order, delivery, winner,
  and solo play. A board is reduced to what it may do in a tick (`Plays`): go on,
  lock with a clear or without one, or top out.
* `Playfield` is `stepPlayer` with a real board and any dimensions: a single
  action for a tick, in the order of the code, at whose end an attack may
  arrive. The board is the set of its filled cells. History: `landed`, the rows of
  garbage that came up, and `over`, the cells that were locked above the top and
  are gone.
* `PlayfieldDuel` ties the two: every tick of a board is a play of `Duel` with
  the same effect on the exchange (`TicksArePlays`).
* `MCDuel` and `MCPlayfield` instantiate them. `DuelProofs` and
  `PlayfieldProofs` prove.

### Input path and snapshots

* `Replay` is the mask of a set of actions, the word of a tick and its runs,
  with their decoder; both are recursive functions over positions, which the
  proofs can unfold. `InputPath` extends it with everything a keystroke passes:
  the two sets of `LocalInput`, the send loop with its heartbeat, messages that
  arrive in bursts, the budget and buffer of `match:input`, the pump (`Elapse`,
  `Wake` and then `due` ticks during which Node serves nothing else), the
  recorder with its limit, and what `persist` would store of it
  (`StoredReplay`). A window that loses the focus clears its keys (`Blur`); a tab
  that is hidden clears them too, and has neither keyboard nor send loop until
  it is shown again (`Hide`, `Show`, `visible`), since the browser suspends
  requestAnimationFrame. History: `taps`, `struck` and `lost` count keystrokes
  where they happen, where a tick plays them and where one is merged, refused or
  cleared; `behind` is the real time not simulated yet; `applied` is what the
  ticks were run with, whether or not the recorder still had room.
* `Delta` is the serialized state, the run-length diff and its decoder with each
  of its refusals. `Snapshots` extends it with the baselines of the server,
  `needFull`, the messages both ways and `SnapshotStream`. A frame can be damaged
  so that the decoder refuses it. History: `meant`, the state the server was in.
* `MCInputPath` and `MCSnapshots` instantiate them. `InputPathProofs` and
  `SnapshotsProofs` prove.

### Store

* `WriteQueue` is `queue.ts`. Its counters are sequences here (`written`,
  `dropped`, `failed`), so that one can ask which results they count, and `log`
  is the history of all pushes. A drain is two steps, since `flush` belongs to
  somebody else: it may fail, and the process may end in it.
* `Store` extends it with `TetrisStore` and the transaction of `recordMany`: one
  action per statement of a result (`InsertMatch`, `BumpSeat`, `CountDay`), each
  with the batch half written in `tx`, then `Commit` or, at any point, `Throw`.
  Nothing else of the process runs in between, but `Crash` can. `Close` and
  `CloseDatabase` are the two halves of `close`; results may still be pushed
  after it, as they are on a signal. `RatingDelta` is a parameter: the Elo
  formula works on floating-point numbers and no property depends on its values.
  SQLite is taken to do what a transaction promises; the last commits that
  `synchronous = NORMAL` may lose in a power failure are not modelled.
* `MCStore` instantiates it. `StoreProofs` proves.

### Accounts and operators

* `Accounts` is `PlayerStore` and the routes that call it. `register` and `login`
  are cut at the await of the hash: what runs before it is one action, what runs
  after it another, with any other request in between; a statement after the
  await may throw. Time is counted in the code's windows (sessions, failures,
  registrations) and passes only when no call is at work. A password is a
  secret, and a hash verifies exactly its own.
* `Console` extends it with `AdminStore`, the routes of the console and the
  sockets that carry a session. A POST waits for its body (`posts`), then
  authorisation and route run in one action; a body that cannot be read has been
  answered, and its route runs all the same with an empty one. A `Restart` of the
  process ends requests and sockets and clears maintenance and notice, which are
  kept in memory; tables and log stay. `audit` is the state the audit log
  describes: of roles and bans from its first entry on, of switch and notice from
  the first entry of the running process on, since a restart clears the two
  without an entry.
  `RankAllows` is the rule of `GovernedByRank` for one account, named so that the
  proof can speak of it.
* `MCConsole` instantiates it, from three databases an installation may start
  with. `ConsoleProofs` proves.

### Client

* `Client` is one tab. A flow (start a match) runs up to `await audio.unlock()` and
  goes on later; buttons, timers, flows and socket events interleave at will. React
  state and refs are separate variables where the code keeps both (`mode` and
  `modeRef`). A flow that cannot open its socket ends in the catch of `run`
  (`GoOnFails`). What the server and the connection do is there as far as this tab can
  see it, each step with the messages of the handler it stands for, in their order:
  `Answers` (the requests), `Paired`, `Ticked`, `PeerLeaves`, `CloseRoom` (an operator
  closes the room), `Connects`, `Drops`, `ConnectError`. The score is reduced to the
  mode its points were won in.
* `MCClient` instantiates it. `ClientProofs` proves.

Definitions called mutants in the modules are plausible wrong versions of the
definition that follows them. Nothing uses them; each shows that some property
would notice.

## Runs

| Run | Instance and bounds | Shows |
| --- | --- | --- |
| `rooms` | 4 sockets, 2 codes, 2 rooms; room lifetimes of 0 and 1 units; 183k states | `TypeOK`, seats agree with sockets, a waiter is free and alone, phases, saved exactly once, a forfeit goes to the one who stayed, the result names both players, nothing starts in maintenance, `MatchLifecycle` is implemented (which includes that a live match never vanishes) |
| `rooms_fair` | 3 sockets, 2 codes, 1 room, no symmetry; 28k states | idle rooms are reclaimed, also when the room limit is met |
| `duel` | doubles and tetrises, a telegraph of 2 ticks, 6 ticks; 310k states | garbage is accounted for row by row, a tick is symmetric, top-outs decide |
| `playfield` | T and I on a 4 by 6 well with 3 hidden rows, 3 pieces, 10 inputs, single rows of garbage after 2 ticks, 3 frames; 134k states | no overlap, lock timer, an idle piece locks, cells are conserved, those locked above the top included (and with them, no full row survives), ticks are plays of `Duel` |
| `store` | 2 accounts and a guest, 4 kinds of result, 4 results, batches of up to 3 with a limit of 3, 2 processes; 231k states | every result is accounted for and written at most once and in order; totals, ratings and daily counters follow the match list; nothing is dropped; close leaves nothing behind; results settle |
| `console` | spellings Amy and Cyd among 3 names, 2 secrets, 1 source, 2 requests, 2 tokens, 2 calls and 2 posts, 1 socket, 1 notice, windows of 1, limits of 1, 2 and 1; 630k states | names are unique, limits are overrun only by calls at once, a ban reaches every socket, the audit log tells the state, operators govern by rank, the console stays reachable |
| `snapshots` | 1 socket, 4 states of 4 cells, 2 messages in flight, 2 damaged frames; 5k states | a client shows what the server meant, and gets its baseline back |
| `input_path` | 2 keys of one action, 2 keystrokes, 2 messages in flight, a budget of 1, ticks of 2 units, sleeps of 1 and 6, 2 steps a wake, a replay of 3 ticks of a match of 4 and more; 669k states | every tap is accounted for, the match is never ahead of the clock, the replay of a match up to the limit decodes to all its inputs, held keys settle |
| `client` | 3 offline modes, 5 flows, 2 messages waiting before the server sends more; 47k states | no socket is forgotten, the screen shows the match of its mode, results belong to a finished match, only solo points are recorded, a match that ended by a top-out or a departure is left |
| `result_lost` | 3 sockets | violated, see below |
| `unreadable_body` | as `console` | violated, see below |
| `cut_replay` | as `input_path` | violated, see below |

`TypeOK` of a module is checked where it is listed; the other modules' type
invariants state the shape of their state, and all of them are proved.

Why the bounds suffice. Four sockets are two full matches, ended by the same
tick or by different departures; with three sockets and a room limit of one,
every refusal happens and slots are freed by the caller itself. A socket may
leave and connect again, and two codes let a code be reaped and drawn again
while sockets still remember it. Frames, recorded ticks and idle time saturate:
past the limits the code compares them with, larger values behave alike. In
`duel`, six ticks hold a countdown, two exchanges of attacks, cancelling in
part, a landing and a double top-out. On the 4-wide well, clears of one
and two rows, clears above landed garbage, cancelling by a clear, garbage that
pushes cells out, pieces locked in part above the top (`over`), holds and top-outs
all occur (each was confirmed by looking for a state that shows it). In
`store`, four results and batches of up to three give a
batch that fails between two that do not, a batch that ends the process, two
results of one account in one batch, an account on both sides of a match, and a
rating at its floor (the ratings are a small scale of the real one: start 2,
floor 1, expectation 0, a half or 1). The limit equals a batch, the tightest case of
`NothingIsDropped`.

In `console` the two requests are enough for every overlap the awaits allow: a
registration with another of its name, a login with a ban, a login with another one at
the limit of failures. The three databases are a new one, one with a player whose
failures are at the limit, and one with an admin, whose hash has weaker settings, and
an owner; two requests to the console are what it takes to promote or demote somebody
and to use or abuse that, or to switch something on and off. In `snapshots` the states
differ in their cells and in the length of the queue, so diffs grow, shrink and are
refused for their length; two messages in flight let a resync cross a diff and a full
frame. In `input_path` a sleep of 6 is longer than the catch-up cap and asks for more
steps than a wake runs, a budget of 1 refuses a second message of a tick, two keys of
one action merge, and the recorder is full (`MaxReplayTicks`, 3) a tick before the
inputs of a match are no longer remembered beside it (`MaxTicks`, 4), so that a whole
replay, a full one and a cut one all occur. In `client` five flows cover a match,
another begun while the first waits, a way out and back in.

MaxResults, MaxLives, MaxPieces, MaxFrame and the sizes of the boards; MaxCalls,
MaxPosts, MaxPlayers and the posts at work; MaxTaps, MaxTicks, MaxInFlight, MaxCorrupted
and Delays; MaxFlows, MaxInbox and the single leave timer: these are the bounds
in guards.

Deadlock is not checked: after a signal the server has stopped, and the other
models stop at their bounds.

Fairness. `FairSpec` of `Rooms` assumes that the three timers go on firing
(`Tick`, `Elapse`, `Janitor`), which `setInterval` in a process that is not
blocked does. Clients and operators owe the server nothing. `Elapse` may not pass
before every live room was stepped since the last one: the pump fires every 5 ms
and a unit stands for the seconds the janitor works with. The store's `FairSpec` assumes the
same of its interval (`TimerFires`) and that a running call of `flush` goes on
(`Transaction`), which is what a synchronous call does; whether it commits or
throws is open. `IdleRoomReclaimed`
is about a room nobody touches any more: an input of a seated socket refreshes
`touchedAt` even in a room that is over, so it is a premise. In `Snapshots` the
pump goes on and messages of a living connection arrive; ticks may be damaged
as long as the bound allows. In `InputPath` the pump goes on, and so does the send loop of
a visible tab: it runs on requestAnimationFrame (`App.tsx:531-532`), which the
browser suspends in a hidden one, and nobody owes it to come back. So
`HeldKeysSettle` is about a tab that is visible from some moment on. A message is
handled in the end (strong fairness, because the pump's ticks disable the
handler again and again: Node serves its sockets between two wakes of the pump).
In `Client` the browser serves promises, timers and messages; nobody has to
press a button and the server has to send nothing.

## Where code and text disagree

* `result_lost`: on a signal the store is closed before the sockets are, so the
  forfeits of running matches are queued where nothing flushes them
  (`server.ts:727-729`).
* `unreadable_body`: `api.ts:10-11` promises that a malformed body is a 400, and
  `api.ts:154` that such a POST "has already been answered". It has, but its
  route has run too: `readJson` returns null (`api.ts:149`), `handleAdmin` takes
  that for `{}` (`admin-api.ts:125`). In the trace an admin switches maintenance
  on, and a second request to that route, refused for its body, switches it off.
  The notice goes the same way.
* `cut_replay`: `server.ts:311-312` says that an over-long replay "is dropped
  rather than stored as something it is not". The recorder stops at the limit
  (`:654`), so the test of `persist` (`:313`) is true of every longer match, and
  its first 20 minutes are stored as its replay. `ReplayIsTheMatch` is therefore
  about matches up to the limit.

Also seen, without a run of their own:

* An operator who closes a room in which both play leaves both with a board that
  stands still: `match:ended` comes alone, with the reason `forfeit`, for which the
  client schedules no results because a forfeit is said to keep the "PLAYER LEFT" card up
  (`App.tsx:328-331`); but nobody has left (`server.ts:115-123`), and the tick
  passes over a finished room, so no state follows. The model has the step
  (`CloseRoom`), and `FinishedMatchIsLeft` leaves this end of a match out.
* The keys are cleared when the tab is hidden because otherwise "the piece kept
  sliding into the wall while the window was in the background"
  (`input.ts:66-70`). In an online match the server learns of it from the send
  loop, which is suspended by then: it keeps what it was told last, and the
  piece keeps sliding, until the tab is shown again.
* An attack that arrives is first cancelled against the victim's own pending
  garbage, so two attacks leave their difference (`match.ts:553`); the core's
  README (100-102) promises the remainder is telegraphed.
* `maxLockResets` (`types.ts:213-214`) does not bound resets, since a piece that
  leaves the ground has its timer cleared for nothing (`match.ts:506`).
* `forfeit` is described as "the opponent left a live match" (`protocol.ts:50`)
  but is also the reason of a room the operator closes with both players in it.
* The comment above the delivery of attacks says that simultaneous clears cancel
  each other (`match.ts:547-548`); two attacks sent in one tick both arrive.
* At the floor a match row keeps a delta that was not applied in full
  (`matches.ts:279` and `:302`), so a rating can be rebuilt from the match list
  only in its order; an account that plays itself at the floor gains by it.
* With the defaults of `TetrisStore` (64 and 10,000) the limit of the queue is out
  of reach: results are lost by failed batches, never by overflow.
* After an abandoned solo run `modeRef` and the score stay what they were, so the
  results of an online match record that run (`App.tsx:613`, although the comment
  at 607 says "once it is over"). Only solo points are ever recorded, which is
  what `OnlySoloIsRecorded` says.
* `startOfflineMatch` does not compare the generation after its await, as
  `prepareOnlineSocket` does (`App.tsx:200`, `:131-134`, `:255`).
* The 1500 ms timer of a cancelled search (`App.tsx:401`) is never cleared: a
  search begun within it is sent back to the menu while its socket goes on.
* After a connection dropped in a match, `connect_error` takes the card away that
  says the other player left, and with it the buttons; `FinishedMatchIsLeft`
  leaves that case out.
* A player who leaves a topped-out room before its results appear makes the other
  one's card say it was a forfeit.
* `server.ts:447-451` tests for a ban once more in a place no banned account
  reaches: its sessions are gone.
* A frame refused after the match is over is never answered, since broadcasts stop
  with the ticks; `ViewHeals` therefore ends with the match.
* The protocol's promise that deltas are never lost (`protocol.ts:11-13`) rests on
  the transport. A delta that vanished without a trace would leave a diff that may
  apply to the wrong snapshot; the model loses none.

## Proofs

* `RoomsProofs`: `TypeOK`, `SeatsMatchSockets`, `WaiterIsFreeAndAlone`,
  `RoomPhases`, `SavedExactlyOnce`, `ForfeitGoesToTheStayer`,
  `ResultNamesThePlayers`, for any sockets, codes and limits
  (`RoomsAssumption`). They are consequences of one inductive invariant, `IInv`:
  the types, the agreement of seats and sockets, the queue, and `GoodRoom` of
  every room, which collects what the results, names and phases of a room have to
  do with each other. None of the seven is inductive alone: that a pairing does
  not unseat anybody needs the queue, that a departure saves the right result
  needs the phases, and the phases need the seats. The argument goes bottom up:
  lemmas about the helpers (`SeatRoom`, `Conclude`, `VacateSeat`, `TickRoom`)
  say what they do to a good room, `LeaveGood` and `SitStep` lift them to the
  table, and there is one step for each action.
* `RoomsProofs`, second part: `ImplementsLifecycle` and `NothingStartsInMaintenance`.
  The refinement is proved step by step: what a handler does to each code is a move of
  `MatchLifecycle` for that code or nothing. Most moves need only the invariant of the
  first part; two facts are added (`FitRooms`): a match that is not over has no
  winner, so that the winner appears with the end, and a live room was touched by the
  last tick, so that the janitor never takes one. That nothing starts in maintenance
  is an action property: it goes through the handlers once more, with the guard of
  each as it is called.
* `PlayfieldProofs`: the types, `PieceNeverOverlaps`, `LockTimerOnlyAtRest`,
  `IdlePieceLocks`, `CellsConserved` and `TicksArePlays` on a board of any size, with
  any pieces, gravity, delays, inputs and garbage. `Safe` (the piece is free) and
  `Timed` (the delay is a number, its resets within their budget) go through the
  operators of a tick one by one. That the delay runs only at rest is not kept by
  the operators: a turn or a slide leaves it running over a drop. It is
  restored by the end of a tick, which is `Rest`, a lock or a top-out (`AtRest`).
  These two need no types beyond the fields of a player; the others have an
  invariant with the types, `PlayerWhole`.
  - `IdlePieceLocks`: `LocksWithin(p, G, b)` says that the piece locks within `b` more
    ticks without a key. It holds with the bound of the property, and each tick
    lowers `b` by one: a row takes as many ticks as gravity says, less those already
    counted, and at rest the lock delay runs. That the chain of ticks in the property
    has a value is `LeftAloneExists`, by induction on its length.
  - `CellsConserved`: `Whole` adds to the types that a queue holds one batch at most
    and the account of the cells (`Balanced`). What steering leaves alone (`Moves`)
    keeps it; a lock settles it, from what a shape counts for (four cells), what a
    clear takes away (its full rows, each as wide as the board, the rest moved one to
    one) and what pushed garbage adds at most; a spawn and a swap move a piece
    between dealt, held and in play.
  - `TicksArePlays`: a tick of a board is a step of `Duel`, for every board. `Shown` is
    what `Duel` sees of a player, its queue without the columns of the holes
    (`Strip`). `Strip` commutes with cancelling, receiving and landing, `StepEnds`
    lists how a tick can end (waiting, topped out, falling, or locked), and for each
    end `Matches` is shown: `Duel`'s step with the play read off the board gives what
    is shown afterwards. So what `DuelProofs` shows of any clears holds of those that
    boards make.
* `DuelProofs`: the types, `TopoutEndsTheMatch`, `GarbageAccounted` and
  `TickIsSymmetric`, for any delays and clears. `Sound` is inductive: the queue of a
  player holds one batch at most (a delivery merges with what is pending, or cancels
  it), every row sent is traced, and status and winner follow from who is alive. The
  first part is what makes the folds over a queue provable at all: they are unfolded
  at length 0 and 1. Symmetry compares a tick with the tick of the exchanged match,
  operator by operator.
* `InputPathProofs`: the types, `NeverAheadOfTheClock`, `EveryTapAccounted` and
  `ReplayIsTheMatch`, for any keys, periods, budgets and caps. `OnTheClock` adds to
  the time saved up what the pump will count when it wakes, since between the two the
  property says nothing. `TapsCounted` is one equation for each action and player:
  taps made are those in the keyboard, in messages, in the buffer, played, and lost.
  The messages are a sequence counted by positions, with lemmas for one more at its
  end and one less at its head. For the replay, `Recorded` says that the words are
  those the inputs of the ticks pack to, one for each tick until the recorder is full;
  so for a match up to the limit, and only for such a one, they are the whole match.
  That an input comes back from its word is shown bit by bit, and that words come back
  from their runs by induction on what is left to encode: each run that `EncodeReplay`
  writes is what `DecodeReplay` reads at that place, and it refuses none of them.
  `InTheLimits` adds the budgets and caps: no budget is overdrawn, and a merge never
  loses more taps than were made.
* `SnapshotsProofs`: the types and `ShowsWhatTheServerMeant`, for any sockets, boards,
  queues and bounds. It rests on two facts about `Delta`: a state is what it was once
  it is written and read back, and a diff decoded against the snapshot it was made of
  is the new snapshot, for all sequences of bytes, whether it grows or shrinks
  (`RunIsRead`, `RunIsUndone`, by induction on the bytes left). The invariant
  (`InOrder`) follows the messages on the way to a client one by one: each is a full
  frame, or a diff made of the snapshot the client holds when it gets there, or it
  finds a client without a baseline, which accepts no diff.
* `StoreProofs`: `NothingIsDropped`, `CloseLeavesNothingBehind`,
  `EveryResultAccounted`, `LeaderboardFollowsMatchList` and the types of the store,
  for any limits, results, batches and numbers of processes (`QueueAssumption`,
  `StoreAssumption`). The first is not inductive alone: that a push stays below a
  batch needs that nothing waits behind a running drain, since `drain` refuses to
  start then; the second needs what is owed at each point of close (`Backlog`,
  `Closing`). For the accounting, `Placed` orders the places a result can be in by
  id, and `Tabled` says that the match table is the rows of earlier processes
  followed by the written results, and that the running transaction has added a
  prefix of its batch. For the leaderboard, `Tallied` says what totals, ratings and
  counters are at each statement of a transaction, with the last row counted in
  part, so that a commit finds them whole. Ratings are a recursive function of the
  match list; that it has a value, and that more rows do not change the earlier
  ones, is shown by induction. The two last theorems assume that a rating changes by a
  whole number (`DeltasAreWhole`): `ratingDelta` rounds (`matches.ts:92`). It is a
  premise of the theorems and no ASSUME of the module because TLC cannot go
  through all ratings.
* `ConsoleProofs`: the types, `NamesAreUnique`, `BannedAreBeingCut`,
  `AuditTellsTheState`, `GovernedByRank`, `ConsoleStaysReachable` and
  `LimitsOverrunOnlyByCallsAtOnce`, for any names, requests, tokens, sockets and
  limits. A restart is one of the steps: it keeps the tables and empties what refers
  to them. The invariant says that what a session, a call or a socket refers to
  exists, that names are unique, that an unused id has no past in the audit log, and
  that if there is an operator one of them can sign in. What a request read before its
  await is relied on after it only where the code does not read again. Most steps
  change no standing at all (`SameStanding`); the routes that do are taken one by one.
  The limits have an invariant of their own, `WithinLimits`: what the table counts for
  a limit, and the calls that passed it and may still add to it, are together at most
  the limit and the calls that fit beside the first. Counts are sums over a finite
  table; lemmas say that such a sum has a value and does not depend on its order, and
  what one more row, pruning and rows that grow older and become alike do to it.
* `ClientProofs`: the types, `NoForgottenSocket`, `ShowsItsOwnMatch`,
  `ResultsOfAFinishedMatch` and `OnlySoloIsRecorded`, for any number of flows and
  any offline modes. The invariant is about order: flows wait in the order of
  their generations, the socket in use belongs to the last one and every other is
  silent, and a message that ends a match is followed by none that revives it.

Assumptions. Each module names what it assumes of its constants (sizes are
numbers, model values are apart, sets are of their kind); TLC evaluates them in
the runs. Three say more. `DatabasesAssumption` (`Accounts`): the database a server
starts with has unique names, which the UNIQUE index on `username_fold` sees to,
and if it has operators one of them is not banned; the theorems say that it is
left so again. `AttemptsAssumption` (`Accounts`) says the same of its sign-in
attempts: they are within what `LimitsOverrunOnlyByCallsAtOnce` allows, as the
theorem leaves them, and only finitely many requests are at work.
`NoMatchAssumption` (`Client`): the value for "no match" is none. The offline modes of
`ClientAssumption` include `local`, the one a tab starts in (`App.tsx`).

Induction. The library states induction with an operator as a parameter, which the
provers cannot instantiate. `SetInduction` states it with a set of numbers instead,
from the theorem that `<` is well-founded, `MeasureInduction` with a set of things
that have a size, and `SubsetInduction` in `ConsoleProofs` with a set of sets. They
serve for sums and for recursive functions: that one has a value is shown first
(`RecursionHasSolution`), and then what it computes, by its equations.

Left to TLC:

* Liveness under fairness: `IdleRoomReclaimed`, `ResultsSettle`, `ViewHeals`,
  `HeldKeysSettle`, `FinishedMatchIsLeft`; these need ENABLED.
Every safety invariant and every action property of the runs that pass is a
theorem, and so are the type invariants.

## Not modelled

* The generator and its bag (`rng.ts`): `Playfield` takes any sequence of pieces,
  so nothing it shows depends on them; 32-bit mixing has no property but its
  values.
* The hash of a state, varints (one item of a frame here) and the header of a
  replay file; field widths of the serialized state.
* The bot: it only produces inputs, and `Playfield` takes every input.
* Database settings and migrations but for the tables the models keep;
  `better-sqlite3` is external. The reads of the store and the console, which
  change nothing.
* In the client: the account panel (and its own race of a refresh with a
  submission), notices, being kicked, sound and drawing.
* `sanitizeInput`'s treatment of malformed payloads: it makes an input with
  nothing in it, which `InputPath` has. The request limit of the HTTP API
  (`api.ts:65-77`).
* Failing statements of console requests, and a process that dies in one: a ban is
  committed before its entry in the audit log (`admin.ts:189-193`). `Console`
  restarts between two requests only; the write queue alone has a model of failing
  statements and of crashes between them.
* The console page, rendering, markup, scripts and release tooling.

## Plan

All models of the plan are written and all its theorems are proved. What could
follow:

* failing statements in the requests of the console, as the write queue has them,
  with a property for a ban whose entry in the audit log is missing;
* the two-sided match with real boards as one model, with `TicksArePlays` as its
  refinement of `Duel`;
* the refresh and submission of the account panel.
