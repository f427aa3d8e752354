----------------------------- MODULE InputPath -----------------------------
(***************************************************************************)
(* The way of a key: from the keyboard (client/src/game/input.ts) through  *)
(* the send loop of an online match (client/src/App.tsx) and the handler   *)
(* of match:input (server/src/server.ts) into a tick, driven by the pump   *)
(* of the server, and into the replay.                                     *)
(*                                                                         *)
(* The match is on and both seats are taken.  Messages arrive in order and *)
(* none is lost; they may arrive in bursts.  The browser suspends the send *)
(* loop (requestAnimationFrame) and the keyboard of a tab that is hidden.  *)
(* Time is in units of which a tick lasts TickMs; a tick itself takes no   *)
(* time.                                                                   *)
(***************************************************************************)
EXTENDS Replay

CONSTANTS
    Players,        \* the seats whose player touches the keyboard
    Keys,           \* keys of KEYMAP
    ActionOf,       \* what each of them does
    Heartbeat,      \* INPUT_HEARTBEAT_TICKS
    InputBudget,    \* INPUT_BUDGET_PER_TICK
    TickMs,         \* TICK_MS
    MaxCatchup,     \* MAX_CATCHUP_MS
    MaxSteps,       \* MAX_STEPS_PER_WAKE
    MaxReplayTicks, \* MAX_REPLAY_TICKS
    MaxTicks,       \* ticks whose inputs are remembered beside the recorder (a bound)
    Delays,         \* how long the pump may sleep (a bound)
    MaxTaps,        \* keystrokes of a player (a bound)
    MaxInFlight     \* messages on their way to the server at once (a bound)

Seats == {0, 1}

ASSUME InputPathAssumption ==
    /\ Players \subseteq Seats
    /\ ActionOf \in [Keys -> Actions]
    /\ {Heartbeat, InputBudget, TickMs, MaxSteps, MaxInFlight} \subseteq Nat \ {0}
    /\ {MaxCatchup, MaxReplayTicks, MaxTaps} \subseteq Nat
    /\ MaxTicks \in Nat /\ MaxTicks > MaxReplayTicks
    /\ Delays \subseteq Nat \ {0}

VARIABLES
    visible,      \* the tab is not hidden
    held,         \* LocalInput.held: keys that are down
    pressed,      \* LocalInput.pressed: keys that went down since the last consume
    lastSent,     \* lastSignature: the payload sent last
    sinceSend,    \* client ticks since then
    uplink,       \* match:input messages on their way
    inputs,       \* room.inputs
    budget,       \* room.budget
    words,        \* room.recorder
    since,        \* time since the pump woke last
    accumulator,
    due,          \* ticks the pump has still to run before anything else happens
    applied,      \* what the ticks were run with, the first MaxTicks of them
    behind,       \* real time not simulated yet, no more of it counted than Window
    taps,         \* keystrokes of each action
    struck,       \* those a tick was run with
    lost          \* those merged with another, refused or cleared

keyboard == <<visible, held, pressed, lastSent, sinceSend>>
pump == <<since, accumulator, due, behind>>
record == <<words, applied>>
ghosts == <<taps, struck, lost>>
vars == <<keyboard, uplink, inputs, budget, pump, record, ghosts>>

Input == [pressed : SUBSET Actions, held : SUBSET Actions]
NoInput == [pressed |-> {}, held |-> {}]
Window == TickMs + MaxCatchup
Counts == [Players -> [Actions -> Nat]]

TypeOK ==
    /\ visible \in [Players -> BOOLEAN]
    /\ held \in [Players -> SUBSET Keys] /\ pressed \in [Players -> SUBSET Keys]
    /\ lastSent \in [Players -> Input]
    /\ sinceSend \in [Players -> 0..Heartbeat]
    /\ \A p \in Players : uplink[p] \in Seq(Input) /\ Len(uplink[p]) <= MaxInFlight
    /\ inputs \in [Seats -> Input]
    /\ budget \in [Seats -> 0..InputBudget]
    /\ words \in Seq(Nat) /\ Len(words) <= MaxReplayTicks
    /\ since \in Delays \cup {0} /\ accumulator \in 0..TickMs /\ due \in 0..MaxSteps
    /\ applied \in Seq([Seats -> Input]) /\ Len(applied) <= MaxTicks
    /\ behind \in 0..Window
    /\ taps \in Counts /\ struck \in Counts /\ lost \in Counts

Nought == [p \in Players |-> [a \in Actions |-> 0]]

Init ==
    /\ visible = [p \in Players |-> TRUE]
    /\ held = [p \in Players |-> {}] /\ pressed = [p \in Players |-> {}]
    /\ lastSent = [p \in Players |-> NoInput]
    /\ sinceSend = [p \in Players |-> Heartbeat]   \* the first tick sends
    /\ uplink = [p \in Players |-> <<>>]
    /\ inputs = [s \in Seats |-> NoInput]
    /\ budget = [s \in Seats |-> InputBudget]
    /\ words = <<>> /\ applied = <<>>
    /\ since = 0 /\ accumulator = 0 /\ due = 0 /\ behind = 0
    /\ taps = Nought /\ struck = Nought /\ lost = Nought

\* How many of a set of keys do a.
KeysOf(a, keys) == Cardinality({k \in keys : ActionOf[k] = a})
OneIf(condition) == IF condition THEN 1 ELSE 0

-----------------------------------------------------------------------------
(* The keyboard *)

\* onDown; a key that repeats is down already and changes nothing.
KeyDown(p, k) ==
    /\ SumFunction(taps[p]) < MaxTaps
    /\ visible[p]
    /\ k \notin held[p]
    /\ held' = [held EXCEPT ![p] = @ \cup {k}]
    /\ pressed' = [pressed EXCEPT ![p] = @ \cup {k}]
    /\ taps' = [taps EXCEPT ![p][ActionOf[k]] = @ + 1]
    /\ lost' = [lost EXCEPT ![p][ActionOf[k]] = @ + OneIf(k \in pressed[p])]
    /\ UNCHANGED <<visible, lastSent, sinceSend, uplink, inputs, budget, pump, record, struck>>

\* onUp
KeyUp(p, k) ==
    /\ visible[p]
    /\ k \in held[p]
    /\ held' = [held EXCEPT ![p] = @ \ {k}]
    /\ UNCHANGED <<visible, pressed, lastSent, sinceSend, uplink, inputs, budget, pump, record, ghosts>>

\* clear
Clear(p) ==
    /\ visible[p]
    /\ held' = [held EXCEPT ![p] = {}]
    /\ pressed' = [pressed EXCEPT ![p] = {}]
    /\ lost' = [lost EXCEPT ![p] = [a \in Actions |-> @[a] + KeysOf(a, pressed[p])]]
    /\ UNCHANGED <<lastSent, sinceSend, uplink, inputs, budget, pump, record, taps, struck>>

\* onBlur: the window loses the focus; its loop goes on.
Blur(p) == Clear(p) /\ UNCHANGED visible

\* onVisibility: the tab is hidden, and with that its loop is suspended.
Hide(p) == Clear(p) /\ visible' = [visible EXCEPT ![p] = FALSE]

Show(p) ==
    /\ ~visible[p]
    /\ visible' = [visible EXCEPT ![p] = TRUE]
    /\ UNCHANGED <<held, pressed, lastSent, sinceSend, uplink, inputs, budget, pump, record, ghosts>>

\* consumeMerged: both key sets drive the one board.
Merged(p) == [pressed |-> {ActionOf[k] : k \in pressed[p]},
              held    |-> {ActionOf[k] : k \in held[p]}]

\* MUTANT: what has not changed is not sent again.
SendsOnChangeOnly(p) ==
    \/ Merged(p).pressed # {}
    \/ lastSent[p] # Merged(p)

\* The send loop's test.
Sends(p) ==
    \/ Merged(p).pressed # {}
    \/ lastSent[p] # Merged(p)
    \/ sinceSend[p] + 1 >= Heartbeat

\* One tick of the client's loop.
ClientTick(p) ==
    /\ visible[p]
    /\ Len(uplink[p]) < MaxInFlight
    /\ pressed' = [pressed EXCEPT ![p] = {}]
    /\ lost' = [lost EXCEPT ![p] =
           [a \in Actions |-> @[a] + KeysOf(a, pressed[p]) - OneIf(a \in Merged(p).pressed)]]
    /\ \/ /\ Sends(p)
          /\ uplink' = [uplink EXCEPT ![p] = Append(@, Merged(p))]
          /\ lastSent' = [lastSent EXCEPT ![p] = Merged(p)]
          /\ sinceSend' = [sinceSend EXCEPT ![p] = 0]
       \/ /\ ~Sends(p)
          /\ sinceSend' = [sinceSend EXCEPT ![p] = Min({@ + 1, Heartbeat})]
          /\ UNCHANGED <<uplink, lastSent>>
    /\ UNCHANGED <<visible, held, inputs, budget, pump, record, taps, struck>>

-----------------------------------------------------------------------------
(* The server *)

\* match:input
MatchInput(p) ==
    LET message  == Head(uplink[p])
        accepted == budget[p] > 0
    IN  /\ due = 0
        /\ uplink[p] # <<>>
        /\ uplink' = [uplink EXCEPT ![p] = Tail(@)]
        /\ \/ /\ accepted
              /\ budget' = [budget EXCEPT ![p] = @ - 1]
              /\ inputs' = [inputs EXCEPT ![p] = [pressed |-> @.pressed \cup message.pressed,
                                                  held |-> message.held]]
           \/ ~accepted /\ UNCHANGED <<budget, inputs>>
        /\ lost' = [lost EXCEPT ![p] = [a \in Actions |-> @[a] +
               OneIf(a \in message.pressed /\ (~accepted \/ a \in inputs[p].pressed))]]
        /\ UNCHANGED <<keyboard, pump, record, taps, struck>>

\* Time passes before the pump wakes.
Elapse(by) ==
    /\ due = 0 /\ since = 0
    /\ since' = by
    /\ behind' = Min({behind + by, Window})
    /\ UNCHANGED <<keyboard, uplink, inputs, budget, accumulator, due, record, ghosts>>

\* MUTANT: the time that was slept is counted again at the next wake.
WakeCountingTwice ==
    LET owed  == accumulator + Min({since, MaxCatchup})
        steps == Min({owed \div TickMs, MaxSteps})
        left  == owed - steps * TickMs
    IN  /\ due = 0 /\ since > 0
        /\ due' = steps
        /\ accumulator' = IF left > TickMs THEN 0 ELSE left
        /\ UNCHANGED <<keyboard, uplink, inputs, budget, record, since, behind, ghosts>>

\* The pump: how many ticks it runs, and what it owes after them.
Wake ==
    LET owed  == accumulator + Min({since, MaxCatchup})
        steps == Min({owed \div TickMs, MaxSteps})
        left  == owed - steps * TickMs
    IN  /\ due = 0 /\ since > 0
        /\ since' = 0
        /\ due' = steps
        /\ accumulator' = IF left > TickMs THEN 0 ELSE left
        /\ UNCHANGED <<keyboard, uplink, inputs, budget, record, behind, ghosts>>

\* MUTANT: the recorder stops a tick too early.
RecordTickShort ==
    /\ words' = IF Len(words) + 1 < MaxReplayTicks THEN Append(words, PackTick(inputs)) ELSE words
    /\ applied' = IF Len(applied) < MaxTicks THEN Append(applied, inputs) ELSE applied

\* The recorder takes the inputs of a tick, as long as there is room.  The tick is
\* run with them in any case.
RecordTick ==
    /\ words' = IF Len(words) < MaxReplayTicks THEN Append(words, PackTick(inputs)) ELSE words
    /\ applied' = IF Len(applied) < MaxTicks THEN Append(applied, inputs) ELSE applied

\* persist: what is stored of a match that ends now.
NoReplay == <<>>
StoredReplay ==
    IF Len(words) > 0 /\ Len(words) <= MaxReplayTicks THEN EncodeReplay(words) ELSE NoReplay

\* MUTANT: keystrokes stay in the buffer.
TickKeepingPressed ==
    /\ due > 0
    /\ due' = due - 1
    /\ behind' = behind - TickMs
    /\ budget' = [s \in Seats |-> InputBudget]
    /\ RecordTick
    /\ struck' = [p \in Players |-> [a \in Actions |->
           struck[p][a] + OneIf(a \in inputs[p].pressed)]]
    /\ UNCHANGED <<keyboard, uplink, inputs, since, accumulator, taps, lost>>

\* tickRooms, for the one room.
Tick ==
    /\ due > 0
    /\ due' = due - 1
    /\ behind' = behind - TickMs
    /\ budget' = [s \in Seats |-> InputBudget]
    /\ inputs' = [s \in Seats |-> [inputs[s] EXCEPT !.pressed = {}]]
    /\ RecordTick
    /\ struck' = [p \in Players |-> [a \in Actions |->
           struck[p][a] + OneIf(a \in inputs[p].pressed)]]
    /\ UNCHANGED <<keyboard, uplink, since, accumulator, taps, lost>>

-----------------------------------------------------------------------------
Next ==
    \/ \E p \in Players : \/ \E k \in Keys : KeyDown(p, k) \/ KeyUp(p, k)
                          \/ Blur(p) \/ Hide(p) \/ Show(p)
                          \/ ClientTick(p) \/ MatchInput(p)
    \/ \E by \in Delays : Elapse(by)
    \/ Wake \/ Tick

Spec == Init /\ [][Next]_vars

\* Both loops go on, the client's while its tab is visible, and the connection
\* delivers: between two runs of the pump Node serves the sockets, so a message
\* does not wait for ever.  Nobody has to come back to a hidden tab.
FairSpec ==
    /\ Spec
    /\ \A p \in Players : WF_vars(ClientTick(p)) /\ SF_vars(MatchInput(p))
    /\ WF_vars(\E by \in Delays : Elapse(by)) /\ WF_vars(Wake) /\ WF_vars(Tick)

-----------------------------------------------------------------------------
(* Properties *)

\* Keystrokes of an action on their way.
Waiting(p, a) ==
    KeysOf(a, pressed[p])
    + Cardinality({i \in DOMAIN uplink[p] : a \in uplink[p][i].pressed})
    + OneIf(a \in inputs[p].pressed)

\* Every keystroke moves a piece at most once: it is on its way, has been the
\* input of one tick, or was merged, refused or cleared.  No heartbeat repeats
\* it, and a burst of ticks runs it once.
EveryTapAccounted ==
    \A p \in Players, a \in Actions :
        taps[p][a] = struck[p][a] + Waiting(p, a) + lost[p][a]

\* The match never runs ahead of the clock: each tick simulates time that has
\* passed and that no earlier tick has used up, however long the pump slept.
NeverAheadOfTheClock == behind >= accumulator + due * TickMs

\* Of a match no longer than MaxReplayTicks, whenever it ends, a replay is stored
\* that decodes to the very inputs its ticks were run with, all of them.
ReplayIsTheMatch ==
    Len(applied) \in 1..MaxReplayTicks => ReplayInputs(DecodeReplay(StoredReplay)) = applied

\* "An over-long one is dropped rather than stored as something it is not"
\* (server.ts:311).
OverlongReplayIsDropped == Len(applied) > MaxReplayTicks => StoredReplay = NoReplay

\* Whatever messages the budget refuses, the server comes to hold the keys the
\* player holds (no player types for ever), if the tab does not stay hidden.  Of a
\* hidden tab the server keeps what it was told last, although the keyboard has
\* been cleared.
HeldKeysSettle ==
    \A p \in Players : <>[]visible[p] => <>[](inputs[p].held = Merged(p).held)
=============================================================================
