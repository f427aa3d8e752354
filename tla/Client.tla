------------------------------- MODULE Client -------------------------------
(***************************************************************************)
(* packages/client/src/App.tsx: scenes, timers and the socket of one tab.  *)
(*                                                                         *)
(* A flow (starting a match) runs up to `await audio.unlock()` at once and *)
(* goes on later; flows go on in the order they came.  Between two handlers*)
(* of the tab anything may happen: another button, a timer, a message.     *)
(* The server and the connection are external, in the order of server.ts;  *)
(* snapshots and their resync are in Snapshots.                            *)
(*                                                                         *)
(* Left out: what is drawn and heard, the account panel, notices and being *)
(* kicked.  A score is reduced to whether there is one and which mode it   *)
(* was won in.                                                             *)
(***************************************************************************)
EXTENDS Integers, Sequences

CONSTANTS
    OfflineModes,  \* modes played in the tab: local, ai, solo
    MaxFlows,      \* flows started in a behaviour (a bound)
    MaxInbox,      \* messages waiting before the server sends more (a bound)
    None

ASSUME ClientAssumption ==
    /\ MaxFlows \in Nat \ {0} /\ MaxInbox \in Nat \ {0}
    /\ {"online", None} \cap OfflineModes = {}
    /\ "local" \in OfflineModes

VARIABLES
    scene, mode, modeRef, busy, paused, roomStatus,
    generation,
    flows,        \* flows that wait for the audio: kind and generation
    match,        \* stateRef and the match on the screen, or None
    resultTimer,  \* one is set
    leaveTimers,  \* timers of cancelQuickMatch that are set
    socketRef,    \* the generation that made the socket in use, or 0
    link,         \* of the socket of each generation
    outbox,       \* requests on their way to the server
    inbox,        \* messages and acknowledgements on their way to the client
    seat,         \* what the server thinks of the socket
    score,        \* scoreRef: the mode its points were won in, or None
    best          \* the mode the recorded best was won in, or None

records == <<score, best>>
ui == <<scene, mode, modeRef, busy, paused, roomStatus>>
timers == <<resultTimer, leaveTimers>>
net == <<link, outbox, inbox, seat>>
vars == <<ui, generation, flows, match, timers, socketRef, net, records>>

OnlineKinds == {"create", "quick", "join"}
Modes == OfflineModes \cup {"online"}
Statuses == {"idle", "connecting", "searching", "matched", "waiting", "connected",
             "reconnecting", "disconnected"}
Generations == 1..MaxFlows
Match == [mode : Modes, of : Generations, finished : BOOLEAN]

ASSUME NoMatchAssumption == None \notin Match

\* What the server thinks of a socket.  over: the match is concluded and both are
\* there still; left: it is concluded and nobody else is there; closed: an operator
\* has closed the room.
Seats == {"free", "searching", "waiting", "playing", "over", "left", "closed"}

Message == {"searching", "matched", "ready", "update", "finished", "topout", "forfeit", "peer",
            "created", "joined", "refused", "sought", "unsought", "cancelled"}

TypeOK ==
    /\ scene \in {"menu", "room", "match", "results"}
    /\ mode \in Modes /\ modeRef \in OfflineModes
    /\ busy \in BOOLEAN /\ paused \in BOOLEAN
    /\ roomStatus \in Statuses
    /\ generation \in Nat
    /\ flows \in Seq([kind : OnlineKinds \cup OfflineModes, generation : Generations])
    /\ match \in Match \cup {None}
    /\ resultTimer \in BOOLEAN /\ leaveTimers \in Nat
    /\ socketRef \in Generations \cup {0}
    /\ link \in [Generations -> {"none", "opening", "up", "down", "failed", "closed"}]
    /\ \A g \in Generations : outbox[g] \in Seq(OnlineKinds \cup {"cancel"})
    /\ \A g \in Generations : inbox[g] \in Seq(Message)
    /\ seat \in [Generations -> Seats]
    /\ {score, best} \subseteq OfflineModes \cup {None}

Init ==
    /\ scene = "menu" /\ mode = "local" /\ modeRef = "local"
    /\ busy = FALSE /\ paused = FALSE /\ roomStatus = "idle"
    /\ generation = 0
    /\ flows = <<>>
    /\ match = None
    /\ resultTimer = FALSE /\ leaveTimers = 0
    /\ socketRef = 0
    /\ link = [g \in Generations |-> "none"]
    /\ outbox = [g \in Generations |-> <<>>]
    /\ inbox = [g \in Generations |-> <<>>]
    /\ seat = [g \in Generations |-> "free"]
    /\ score = None /\ best = None

-----------------------------------------------------------------------------
(* The parts of which the handlers are made *)

\* disconnectOnline: without listeners nothing of it is heard any more.
DisconnectOnline ==
    /\ socketRef' = 0
    /\ IF socketRef = 0 THEN UNCHANGED net
       ELSE /\ link' = [link EXCEPT ![socketRef] = "closed"]
            /\ outbox' = [outbox EXCEPT ![socketRef] = <<>>]
            /\ inbox' = [inbox EXCEPT ![socketRef] = <<>>]
            /\ seat' = [seat EXCEPT ![socketRef] = "free"]

\* MUTANT: the timer of the match that is left stays set.
ReturnKeepingTimer ==
    /\ generation' = generation + 1
    /\ DisconnectOnline
    /\ match' = None
    /\ scene' = "menu" /\ paused' = FALSE /\ busy' = FALSE /\ roomStatus' = "idle"
    /\ UNCHANGED <<mode, modeRef, flows, resultTimer>>

\* returnToMenu
ReturnToMenu ==
    /\ generation' = generation + 1
    /\ resultTimer' = FALSE
    /\ DisconnectOnline
    /\ match' = None
    /\ scene' = "menu" /\ paused' = FALSE /\ busy' = FALSE /\ roomStatus' = "idle"
    /\ UNCHANGED <<mode, modeRef, flows>>

-----------------------------------------------------------------------------
(* Buttons and keys *)

\* MUTANT: the socket stays open.
BeginConnected(kind) ==
    /\ ~busy /\ generation < MaxFlows
    /\ busy' = TRUE
    /\ generation' = generation + 1
    /\ resultTimer' = FALSE
    /\ flows' = Append(flows, [kind |-> kind, generation |-> generation + 1])
    /\ UNCHANGED <<scene, mode, modeRef, paused, roomStatus, match, leaveTimers, socketRef, net,
                   records>>

\* run, and what a flow does before it waits.
Begin(kind) ==
    /\ ~busy /\ generation < MaxFlows
    /\ busy' = TRUE
    /\ generation' = generation + 1
    /\ resultTimer' = FALSE
    /\ DisconnectOnline
    /\ flows' = Append(flows, [kind |-> kind, generation |-> generation + 1])
    /\ UNCHANGED <<scene, mode, modeRef, paused, roomStatus, match, leaveTimers,
                   records>>

\* The screens whose buttons begin a flow: the menu, the result card and the
\* card that says the other player left.
MenuOffers == scene = "menu"
ResultCardOffers(kind) ==
    /\ scene = "results" /\ match # None
    /\ kind = IF mode = "online" THEN "quick" ELSE mode
LeftCardOffers(kind) ==
    /\ scene = "match" /\ match # None /\ roomStatus = "disconnected"
    /\ kind = "quick"

Start(kind) ==
    /\ MenuOffers \/ ResultCardOffers(kind) \/ LeftCardOffers(kind)
    /\ Begin(kind)

\* BACK TO MENU, QUIT TO MENU, CANCEL.
Quit ==
    /\ generation < MaxFlows
    /\ \/ scene = "room" /\ roomStatus # "searching"
       \/ scene = "match" /\ match # None /\ (paused \/ roomStatus = "disconnected")
       \/ scene = "results" /\ match # None
    /\ ReturnToMenu
    /\ UNCHANGED <<leaveTimers, records>>

\* cancelQuickMatch.  The button can be pressed again while a timer runs; here
\* it cannot (a bound: one leave timer at a time).
CancelSearch ==
    /\ scene = "room" /\ roomStatus = "searching"
    /\ leaveTimers = 0 /\ generation < MaxFlows
    /\ leaveTimers' = leaveTimers + 1
    /\ IF socketRef # 0 /\ link[socketRef] = "up"
       THEN /\ outbox' = [outbox EXCEPT ![socketRef] = Append(@, "cancel")]
            /\ UNCHANGED <<ui, generation, flows, match, resultTimer, socketRef, link, inbox, seat>>
       ELSE ReturnToMenu
    /\ UNCHANGED records

\* Escape, or the pause button, which the result card does not hide.
Pause ==
    /\ \/ scene = "match"
       \/ scene = "results" /\ match # None
    /\ mode # "online"
    /\ paused' = ~paused
    /\ UNCHANGED <<scene, mode, modeRef, busy, roomStatus, generation, flows, match, timers,
                   socketRef, net, records>>

-----------------------------------------------------------------------------
(* Flows go on *)

\* MUTANT: the score of the match before is kept.
GoOnScoring ==
    LET flow == Head(flows) IN
    /\ flows # <<>> /\ flow.kind \in OfflineModes
    /\ flows' = Tail(flows)
    /\ mode' = flow.kind /\ modeRef' = flow.kind
    /\ match' = [mode |-> flow.kind, of |-> flow.generation, finished |-> FALSE]
    /\ scene' = "match" /\ paused' = FALSE /\ roomStatus' = "idle"
    /\ busy' = FALSE
    /\ UNCHANGED <<generation, timers, socketRef, net, records>>

\* startOfflineMatch, whatever the generation is by now.
GoOnOffline ==
    LET flow == Head(flows) IN
    /\ flows # <<>> /\ flow.kind \in OfflineModes
    /\ flows' = Tail(flows)
    /\ mode' = flow.kind /\ modeRef' = flow.kind
    /\ match' = [mode |-> flow.kind, of |-> flow.generation, finished |-> FALSE]
    /\ scene' = "match" /\ paused' = FALSE /\ roomStatus' = "idle"
    /\ busy' = FALSE
    /\ score' = None
    /\ UNCHANGED <<generation, timers, socketRef, net, best>>

\* prepareOnlineSocket finds that another flow came, or the player left.
GoOnStale ==
    /\ flows # <<>> /\ Head(flows).kind \in OnlineKinds
    /\ Head(flows).generation # generation
    /\ flows' = Tail(flows)
    /\ busy' = FALSE
    /\ UNCHANGED <<scene, mode, modeRef, paused, roomStatus, generation, match, timers,
                   socketRef, net, records>>

\* MUTANT: the generation is not looked at.
InTimeAlways(flow) == TRUE

InTime(flow) == flow.generation = generation

\* prepareOnlineSocket opens the socket, and the request is sent on it.
GoOnOnline ==
    LET flow == Head(flows) IN
    /\ flows # <<>> /\ flow.kind \in OnlineKinds
    /\ InTime(flow)
    /\ flows' = Tail(flows)
    /\ mode' = "online" /\ roomStatus' = "connecting" /\ scene' = "room"
    /\ match' = None
    /\ busy' = FALSE
    /\ socketRef' = flow.generation
    /\ link' = [link EXCEPT ![flow.generation] = "opening"]
    /\ outbox' = [outbox EXCEPT ![flow.generation] = <<flow.kind>>]
    /\ UNCHANGED <<modeRef, paused, generation, timers, inbox, seat, records>>

\* connectOnline throws: run takes the player back to the menu.  Audio never
\* rejects, and nothing else a flow does throws.
GoOnFails ==
    LET flow == Head(flows) IN
    /\ flows # <<>> /\ flow.kind \in OnlineKinds
    /\ InTime(flow)
    /\ flows' = Tail(flows)
    /\ mode' = "online" /\ roomStatus' = "idle" /\ scene' = "menu"
    /\ match' = None
    /\ busy' = FALSE
    /\ UNCHANGED <<modeRef, paused, generation, timers, socketRef, net, records>>

-----------------------------------------------------------------------------
(* Timers and the loop *)

\* saveBest keeps what was the better one.
Saved(run) == {run, best}

\* The effect that records a solo run when the results appear.
Recorded == IF modeRef = "solo" /\ match # None /\ score # None THEN Saved(score) ELSE {best}

\* scheduleResults, 800 ms later.
ResultTimer ==
    /\ resultTimer
    /\ resultTimer' = FALSE
    /\ scene' = "results"
    /\ best' \in Recorded
    /\ UNCHANGED <<mode, modeRef, busy, paused, roomStatus, generation, flows, match, leaveTimers,
                   socketRef, net, score>>

\* cancelQuickMatch, 1500 ms later.
LeaveTimer ==
    /\ leaveTimers > 0
    /\ leaveTimers' = leaveTimers - 1
    /\ scene' = IF scene = "room" THEN "menu" ELSE scene
    /\ UNCHANGED <<mode, modeRef, busy, paused, roomStatus, generation, flows, match, resultTimer,
                   socketRef, net, records>>

\* What the loop plays: a match in the tab.
Playing == scene = "match" /\ mode # "online" /\ ~paused /\ match # None /\ ~match.finished

\* applyScore: points for what the loop has just stepped.
Score ==
    /\ Playing /\ flows = <<>>
    /\ score' = modeRef
    /\ UNCHANGED <<ui, generation, flows, match, timers, socketRef, net, best>>

\* MUTANT: nobody sets the timer.
MatchEndsQuietly ==
    /\ Playing /\ flows = <<>>
    /\ match' = [match EXCEPT !.finished = TRUE]
    /\ UNCHANGED <<ui, generation, flows, timers, socketRef, net, records>>

\* The loop steps a match that is played in the tab to its end.  No flow waits
\* that long: unlock() gives up after 1.5 s, the countdown takes three.
MatchEnds ==
    /\ Playing /\ flows = <<>>
    /\ match' = [match EXCEPT !.finished = TRUE]
    /\ resultTimer' = TRUE
    /\ UNCHANGED <<ui, generation, flows, leaveTimers, socketRef, net, records>>

-----------------------------------------------------------------------------
(* The socket's events *)

\* The handlers' live(): of the present generation, and in use.
Live(g) == generation = g /\ socketRef = g

Shows(g, finished) == match' = [mode |-> "online", of |-> g, finished |-> finished]

\* Each message and what its handler changes.  Everything a handler does not
\* name stays as it is.
Handle(g, message) ==
    \/ /\ message = "searching"
       /\ roomStatus' = "searching"
       /\ UNCHANGED <<scene, busy, match, resultTimer>>
    \/ /\ message = "matched"
       /\ roomStatus' = "matched"
       /\ UNCHANGED <<scene, busy, match, resultTimer>>
    \/ /\ message = "ready"
       /\ roomStatus' = "connected" /\ busy' = FALSE /\ scene' = "match"
       /\ UNCHANGED <<match, resultTimer>>
    \/ /\ message = "update"
       /\ Shows(g, FALSE)
       /\ UNCHANGED <<scene, busy, roomStatus, resultTimer>>
    \/ /\ message = "finished"
       /\ Shows(g, TRUE)
       /\ resultTimer' = TRUE
       /\ UNCHANGED <<scene, busy, roomStatus>>
    \/ /\ message = "topout"
       /\ resultTimer' = TRUE
       /\ UNCHANGED <<scene, busy, roomStatus, match>>
    \/ /\ message = "peer"
       /\ resultTimer' = FALSE
       /\ roomStatus' = "disconnected"
       /\ UNCHANGED <<scene, busy, match>>
    \/ /\ message \in {"created", "joined"}
       /\ roomStatus' = "waiting"
       /\ UNCHANGED <<scene, busy, match, resultTimer>>
    \/ /\ message = "refused"
       /\ roomStatus' = "idle" /\ scene' = "menu"
       /\ UNCHANGED <<busy, match, resultTimer>>
    \/ /\ message = "sought"
       /\ roomStatus' = "searching"
       /\ UNCHANGED <<scene, busy, match, resultTimer>>
    \/ /\ message \in {"unsought", "forfeit"}
       /\ UNCHANGED <<scene, busy, roomStatus, match, resultTimer>>

\* A message reaches the client.  The acknowledgement of a cancelled search
\* asks nobody whether it still matters.
Deliver(g) ==
    /\ inbox[g] # <<>>
    /\ UNCHANGED score
    /\ LET message == Head(inbox[g]) IN
       \/ /\ message = "cancelled"
          /\ generation < MaxFlows
          /\ ReturnToMenu
          /\ UNCHANGED <<leaveTimers, best>>
       \/ /\ message # "cancelled"
          /\ inbox' = [inbox EXCEPT ![g] = Tail(@)]
          \* In the results a message that brings a state runs the effect again.
          /\ best' \in IF /\ Live(g) /\ message \in {"update", "finished"} /\ scene = "results"
                          /\ modeRef = "solo" /\ score # None
                       THEN Saved(score) ELSE {best}
          /\ IF Live(g) THEN Handle(g, message)
             ELSE UNCHANGED <<scene, busy, roomStatus, match, resultTimer>>
          /\ UNCHANGED <<mode, modeRef, paused, generation, flows, leaveTimers, socketRef,
                         link, outbox, seat>>

\* connect.  The client asks for a resync, which a socket without a seat does
\* not get.
Connects(g) ==
    /\ link[g] \in {"opening", "down"}
    /\ link' = [link EXCEPT ![g] = "up"]
    /\ UNCHANGED <<ui, generation, flows, match, timers, socketRef, outbox, inbox, seat, records>>

\* connect_error: an attempt fails, perhaps the last one.
ConnectError(g, last) ==
    /\ link[g] \in {"opening", "down"}
    /\ link' = [link EXCEPT ![g] = IF last THEN "failed" ELSE @]
    /\ IF Live(g) THEN roomStatus' = "idle" /\ busy' = FALSE ELSE UNCHANGED <<roomStatus, busy>>
    /\ UNCHANGED <<scene, mode, modeRef, paused, generation, flows, match, timers, socketRef,
                   outbox, inbox, seat, records>>

\* disconnect: what was on its way is lost, and with it the seat (server.ts,
\* leaveCurrentRoom).
Drops(g) ==
    /\ link[g] = "up"
    /\ link' = [link EXCEPT ![g] = "down"]
    /\ outbox' = [outbox EXCEPT ![g] = <<>>]
    /\ inbox' = [inbox EXCEPT ![g] = <<>>]
    /\ seat' = [seat EXCEPT ![g] = "free"]
    /\ roomStatus' = IF Live(g) /\ roomStatus # "disconnected" THEN "reconnecting" ELSE roomStatus
    /\ UNCHANGED <<scene, mode, modeRef, busy, paused, generation, flows, match, timers, socketRef,
                   records>>

-----------------------------------------------------------------------------
(* The server, as far as this client can see it: external *)

Sends(g, messages, next) ==
    /\ inbox' = [inbox EXCEPT ![g] = @ \o messages]
    /\ seat' = [seat EXCEPT ![g] = next]
    /\ UNCHANGED <<ui, generation, flows, match, timers, socketRef, link, records>>

Answers(g) ==
    /\ link[g] = "up" /\ outbox[g] # <<>>
    /\ outbox' = [outbox EXCEPT ![g] = Tail(@)]
    /\ CASE Head(outbox[g]) = "create" ->
              Sends(g, <<"created">>, "waiting") \/ Sends(g, <<"refused">>, "free")
         [] Head(outbox[g]) = "join" ->
              Sends(g, <<"joined", "ready">>, "playing") \/ Sends(g, <<"refused">>, "free")
         [] Head(outbox[g]) = "quick" ->
              \/ Sends(g, <<"searching", "sought">>, "searching")
              \/ Sends(g, <<"matched", "ready", "unsought">>, "playing")
              \/ Sends(g, <<"unsought">>, "free")
         [] Head(outbox[g]) = "cancel" ->
              Sends(g, <<"cancelled">>, IF seat[g] = "searching" THEN "free" ELSE seat[g])

\* What the server does of its own accord, or for the other player.
Moves(g, from) ==
    /\ link[g] = "up" /\ Len(inbox[g]) < MaxInbox
    /\ seat[g] = from
    /\ UNCHANGED outbox

\* matchmaking:join, room:join: another player comes.
Paired(g) ==
    \/ Moves(g, "searching") /\ Sends(g, <<"matched", "ready">>, "playing")
    \/ Moves(g, "waiting") /\ Sends(g, <<"ready">>, "playing")

\* tickRooms: a state, with which the match may be over.
Ticked(g) ==
    /\ Moves(g, "playing")
    /\ Sends(g, <<"update">>, "playing") \/ Sends(g, <<"finished", "topout">>, "over")

\* MUTANT: whoever stays is not told.
PeerLeavesUnsaid(g) ==
    \/ Moves(g, "playing") /\ Sends(g, <<"forfeit">>, "left")
    \/ \E concluded \in {"over", "closed"} : Moves(g, concluded) /\ Sends(g, <<>>, "left")

\* leaveCurrentRoom of the other player, who forfeits a match that is not
\* concluded.
PeerLeaves(g) ==
    \/ Moves(g, "playing") /\ Sends(g, <<"peer", "forfeit">>, "left")
    \/ \E concluded \in {"over", "closed"} : Moves(g, concluded) /\ Sends(g, <<"peer">>, "left")

\* closeRoom: an operator ends the match.  No state follows, for tickRooms passes
\* over the room; nobody can join a room that was waiting.
CloseRoom(g) ==
    \/ Moves(g, "playing") /\ Sends(g, <<"forfeit">>, "closed")
    \/ Moves(g, "waiting") /\ Sends(g, <<"forfeit">>, "left")

-----------------------------------------------------------------------------
Next ==
    \/ \E kind \in OnlineKinds \cup OfflineModes : Start(kind)
    \/ Quit \/ CancelSearch \/ Pause
    \/ GoOnOffline \/ GoOnStale \/ GoOnOnline \/ GoOnFails
    \/ ResultTimer \/ LeaveTimer \/ Score \/ MatchEnds
    \/ \E g \in Generations :
          \/ Deliver(g) \/ Connects(g) \/ Drops(g) \/ Answers(g)
          \/ Paired(g) \/ Ticked(g) \/ PeerLeaves(g) \/ CloseRoom(g)
          \/ \E last \in BOOLEAN : ConnectError(g, last)

Spec == Init /\ [][Next]_vars

\* The browser serves timers, promises and messages.
FairSpec ==
    /\ Spec
    /\ WF_vars(GoOnOffline \/ GoOnStale \/ GoOnOnline \/ GoOnFails)
    /\ WF_vars(ResultTimer)
    /\ \A g \in Generations : WF_vars(Deliver(g))

-----------------------------------------------------------------------------
(* Properties *)

\* The tab never holds a socket it has lost sight of: whatever buttons are
\* pressed while flows wait, only the socket in use is open.
NoForgottenSocket ==
    \A g \in Generations : link[g] \in {"opening", "up", "down"} => socketRef = g

\* The match on the screen is the one the mode says.  The loop never steps a
\* state the server sent, and no message of the server gets into a match that is
\* played in the tab.
ShowsItsOwnMatch ==
    match # None =>
        /\ match.mode = mode
        /\ mode # "online" => modeRef = mode /\ socketRef = 0
        /\ mode = "online" /\ socketRef # 0 => match.of = socketRef

\* The result card is only ever put up over a finished match.
ResultsOfAFinishedMatch == scene = "results" => match # None /\ match.finished

\* Only points of a solo run become the record, though the results of every mode
\* pass through the effect that keeps it, and an online match leaves modeRef and
\* the score of an earlier run where they were.
OnlySoloIsRecorded == best \in {"solo", None}

\* A finished match does not stay on the screen: the results follow, or the
\* card that says the other player left.  So it is for a match played in the tab;
\* for an online one whose end the client has seen; and for one the server has
\* concluded by a top-out or because the other player left, however many messages
\* are still on their way, while the socket lasts.  Not so for a match an operator
\* has closed (seat "closed"): its board stays until the other player leaves.  (A
\* failing connection takes the card away again, and with it the way out: such a
\* player is left out here.)
FinishedMatchIsLeft ==
    /\ scene = "match" /\ mode # "online" /\ match # None /\ match.finished
           ~> scene # "match"
    /\ scene = "match" /\ roomStatus = "connected" /\ match # None /\ match.finished
           ~> scene # "match" \/ roomStatus = "disconnected"
    /\ \A g \in Generations :
           scene = "match" /\ Live(g) /\ link[g] = "up" /\ seat[g] \in {"over", "left"}
               ~> scene # "match" \/ roomStatus = "disconnected" \/ ~Live(g) \/ link[g] # "up"
=============================================================================
