---------------------------- MODULE ClientProofs ----------------------------
(***************************************************************************)
(* One tab, for any number of flows and any set of offline modes.  The     *)
(* inductive invariant orders what is under way: flows wait in the order   *)
(* of their generations, the socket in use is that of the last one, every  *)
(* other socket is silent, and the server's messages about the end of a    *)
(* match come after all that could bring the match back to life.           *)
(***************************************************************************)
EXTENDS Client, SequenceTheorems, TLAPS

Flow == [kind : OnlineKinds \cup OfflineModes, generation : Generations]

FlowsInOrder ==
    /\ generation \in Nat
    /\ flows \in Seq(Flow)
    /\ \A i \in 1..Len(flows) : flows[i].generation <= generation
    /\ \A i, j \in 1..Len(flows) : i < j => flows[i].generation < flows[j].generation
    /\ flows # <<>> => socketRef = 0 /\ ~resultTimer

SocketOfThisFlow ==
    /\ socketRef \in Generations \cup {0}
    /\ socketRef # 0 => socketRef = generation /\ mode = "online"

NetTyped ==
    /\ link \in [Generations -> {"none", "opening", "up", "down", "failed", "closed"}]
    /\ outbox \in [Generations -> Seq(OnlineKinds \cup {"cancel"})]
    /\ inbox \in [Generations -> Seq(Message)]
    /\ seat \in [Generations -> Seats]

OthersAreSilent ==
    \A g \in Generations : g # socketRef =>
        /\ link[g] \notin {"opening", "up", "down"}
        /\ outbox[g] = <<>> /\ inbox[g] = <<>> /\ seat[g] = "free"

Over(m) == m # None /\ m.finished

InPlay == {"searching", "waiting", "playing"}

\* What may be on its way in either direction, given the server's view of the
\* socket and the match on the screen: the server says nothing before it is
\* asked, and nothing of a match after its end.
Ordered(out, in, sits, m) ==
    /\ \A i \in 1..Len(out) : out[i] # "cancel" => i = 1 /\ in = <<>> /\ sits = "free" /\ m = None
    /\ sits \in InPlay => ~Over(m) /\ \A i \in 1..Len(in) : in[i] \notin {"finished", "topout"}
    /\ \A i, j \in 1..Len(in) : in[i] = "finished" /\ in[j] = "update" => j < i
    /\ \A j \in 1..Len(in) : in[j] = "topout" =>
           Over(m) \/ \E i \in 1..Len(in) : i < j /\ in[i] = "finished"
    /\ Over(m) => \A i \in 1..Len(in) : in[i] # "update"

ServerKeepsOrder ==
    socketRef # 0 => Ordered(outbox[socketRef], inbox[socketRef], seat[socketRef], match)

MatchTyped == match \in Match \cup {None}

TimerForFinished == resultTimer => Over(match)

ScoreOfTheMode == score \in {None, modeRef}

NetInv == NetTyped /\ OthersAreSilent /\ ServerKeepsOrder

ScreenInv ==
    /\ MatchTyped /\ TimerForFinished /\ ScoreOfTheMode
    /\ ShowsItsOwnMatch /\ ResultsOfAFinishedMatch /\ OnlySoloIsRecorded

IInv == FlowsInOrder /\ SocketOfThisFlow /\ NetInv /\ ScreenInv

-----------------------------------------------------------------------------
(* The order of messages                                                   *)

\* A message is taken from the front, and shows the match it brings.
LEMMA TakingKeepsOrder ==
  ASSUME NEW out \in Seq(OnlineKinds \cup {"cancel"}), NEW in \in Seq(Message), NEW sits, NEW m, NEW n,
         Ordered(out, in, sits, m), in # <<>>,
         Head(in) = "finished" => Over(n),
         Head(in) = "update" => ~Over(n),
         Head(in) \notin {"finished", "update"} => n = m
  PROVE  Ordered(out, Tail(in), sits, n)
<1>1. /\ Tail(in) \in Seq(Message) /\ Len(Tail(in)) = Len(in) - 1 /\ Len(in) \in Nat /\ Len(in) > 0
      /\ \A i \in 1..Len(Tail(in)) : Tail(in)[i] = in[i + 1] /\ i + 1 \in 1..Len(in)
      /\ Head(in) = in[1] /\ 1 \in 1..Len(in)
  OBVIOUS
<1>2. \A i \in 1..Len(out) : out[i] = "cancel"
  BY DEF Ordered
<1>3. sits \in InPlay =>
         ~Over(n) /\ \A i \in 1..Len(Tail(in)) : Tail(in)[i] \notin {"finished", "topout"}
  BY <1>1 DEF Ordered
<1>4. \A i, j \in 1..Len(Tail(in)) : Tail(in)[i] = "finished" /\ Tail(in)[j] = "update" => j < i
  <2>1. ASSUME NEW i \in 1..Len(Tail(in)), NEW j \in 1..Len(Tail(in)),
               Tail(in)[i] = "finished", Tail(in)[j] = "update"
        PROVE  j < i
    <3>1. j + 1 < i + 1
      BY <1>1, <2>1 DEF Ordered
    <3>2. QED
      BY <1>1, <3>1
  <2>2. QED
    BY <2>1
<1>5. Over(n) => \A i \in 1..Len(Tail(in)) : Tail(in)[i] # "update"
  <2>1. ASSUME Over(n), NEW i \in 1..Len(Tail(in)), Tail(in)[i] = "update" PROVE FALSE
    <3>1. in[i + 1] = "update" /\ i + 1 \in 1..Len(in) /\ ~(i + 1 < 1)
      BY <1>1, <2>1
    <3>2. Head(in) # "finished"
      BY <1>1, <3>1 DEF Ordered
    <3>3. ~Over(m)
      BY <3>1 DEF Ordered
    <3>4. QED
      BY <2>1, <3>2, <3>3
  <2>2. QED
    BY <2>1
<1>6. ASSUME NEW j \in 1..Len(Tail(in)), Tail(in)[j] = "topout"
      PROVE  Over(n) \/ \E i \in 1..Len(Tail(in)) : i < j /\ Tail(in)[i] = "finished"
  <2>1. in[j + 1] = "topout" /\ j + 1 \in 1..Len(in)
    BY <1>1, <1>6
  <2>2. CASE Over(m)
    <3>1. Head(in) # "update"
      BY <1>1, <2>2 DEF Ordered
    <3>2. QED
      BY <2>2, <3>1
  <2>3. CASE ~Over(m)
    <3>1. PICK i \in 1..Len(in) : i < j + 1 /\ in[i] = "finished"
      BY <2>1, <2>3 DEF Ordered
    <3>2. CASE i = 1
      BY <1>1, <3>1, <3>2
    <3>3. CASE i # 1
      <4>1. i - 1 \in 1..Len(Tail(in)) /\ i - 1 < j /\ Tail(in)[i - 1] = in[i]
        BY <1>1, <3>1, <3>3
      <4>2. QED
        BY <3>1, <4>1
    <3>4. QED
      BY <3>2, <3>3
  <2>4. QED
    BY <2>2, <2>3
<1>7. QED
  BY <1>2, <1>3, <1>4, <1>5, <1>6 DEF Ordered

\* The server sends what says nothing of the state of a match.
LEMMA HarmlessKeepsOrder ==
  ASSUME NEW out, NEW in \in Seq(Message), NEW sits, NEW m, Ordered(out, in, sits, m),
         NEW out2, Len(out2) \in Nat, \A i \in 1..Len(out2) : out2[i] = "cancel",
         NEW more \in Seq(Message),
         \A i \in 1..Len(more) : more[i] \notin {"update", "finished", "topout"},
         NEW next,
         next \in InPlay =>
            ~Over(m) /\ \A i \in 1..Len(in) : in[i] \notin {"finished", "topout"}
  PROVE  Ordered(out2, in \o more, next, m)
<1> DEFINE all == in \o more
<1>1. /\ Len(in) \in Nat /\ Len(more) \in Nat /\ Len(all) = Len(in) + Len(more)
      /\ \A i \in 1..Len(all) :
            \/ i \in 1..Len(in) /\ all[i] = in[i]
            \/ i \notin 1..Len(in) /\ all[i] \notin {"update", "finished", "topout"}
      /\ \A i \in 1..Len(in) : i \in 1..Len(all) /\ all[i] = in[i]
  <2>1. Len(in) \in Nat /\ Len(more) \in Nat /\ Len(all) = Len(in) + Len(more)
    BY ConcatProperties
  <2>2. \A i \in 1..Len(all) : all[i] = IF i <= Len(in) THEN in[i] ELSE more[i - Len(in)]
    BY ConcatProperties
  <2> HIDE DEF all
  <2>3. \A i \in 1..Len(all) : i \in 1..Len(in) \/ i - Len(in) \in 1..Len(more)
    BY <2>1
  <2>4. QED
    BY <2>1, <2>2, <2>3
<1> HIDE DEF all
<1>2. next \in InPlay => ~Over(m) /\ \A i \in 1..Len(all) : all[i] \notin {"finished", "topout"}
  BY <1>1
<1>3. \A i, j \in 1..Len(all) : all[i] = "finished" /\ all[j] = "update" => j < i
  BY <1>1 DEF Ordered
<1>4. \A j \in 1..Len(all) : all[j] = "topout" =>
         Over(m) \/ \E i \in 1..Len(all) : i < j /\ all[i] = "finished"
  BY <1>1 DEF Ordered
<1>5. Over(m) => \A i \in 1..Len(all) : all[i] # "update"
  BY <1>1 DEF Ordered
<1>6. Ordered(out2, all, next, m)
  BY <1>2, <1>3, <1>4, <1>5 DEF Ordered
<1>7. QED
  BY <1>6 DEF all

\* A match that is played goes on, or ends.
LEMMA PlayKeepsOrder ==
  ASSUME NEW out, NEW in \in Seq(Message), NEW m, Ordered(out, in, "playing", m)
  PROVE  /\ Ordered(out, in \o <<"update">>, "playing", m)
         /\ Ordered(out, in \o <<"finished", "topout">>, "over", m)
<1>1. /\ \A i \in 1..Len(out) : out[i] = "cancel"
      /\ ~Over(m) /\ \A i \in 1..Len(in) : in[i] \notin {"finished", "topout"}
  BY DEF Ordered, InPlay
<1>2. Ordered(out, in \o <<"update">>, "playing", m)
  <2> DEFINE all == in \o <<"update">>
  <2>1. Len(all) = Len(in) + 1 /\ Len(in) \in Nat
        /\ \A i \in 1..Len(all) : all[i] \notin {"finished", "topout"}
    BY <1>1
  <2> HIDE DEF all
  <2>2. Ordered(out, all, "playing", m)
    BY <1>1, <2>1 DEF Ordered, InPlay
  <2>3. QED
    BY <2>2 DEF all
<1>3. Ordered(out, in \o <<"finished", "topout">>, "over", m)
  <2> DEFINE all == in \o <<"finished", "topout">>
  <2>1. /\ Len(in) \in Nat /\ Len(all) = Len(in) + 2
        /\ \A i \in 1..Len(in) : all[i] \notin {"finished", "topout"}
        /\ all[Len(in) + 1] = "finished" /\ all[Len(in) + 2] = "topout"
    BY <1>1
  <2> HIDE DEF all
  <2>2. \A i \in 1..Len(all) : i \in 1..Len(in) \/ i = Len(in) + 1 \/ i = Len(in) + 2
    BY <2>1
  <2>3. \A i, j \in 1..Len(all) : all[i] = "finished" /\ all[j] = "update" => j < i
    BY <2>1, <2>2
  <2>4. \A j \in 1..Len(all) : all[j] = "topout" =>
           \E i \in 1..Len(all) : i < j /\ all[i] = "finished"
    BY <2>1, <2>2
  <2>5. Ordered(out, all, "over", m)
    BY <1>1, <2>3, <2>4 DEF Ordered, InPlay
  <2>6. QED
    BY <2>5 DEF all
<1>4. QED
  BY <1>2, <1>3

-----------------------------------------------------------------------------
(* Flows and the socket in use                                             *)

\* Nothing of the network changes, nor the match that a socket brought.
LEMMA NetSame ==
  ASSUME IInv, UNCHANGED <<socketRef, net>>, socketRef # 0 => UNCHANGED match
  PROVE  NetInv'
  BY DEF IInv, NetInv, NetTyped, OthersAreSilent, ServerKeepsOrder, net

\* The socket in use is closed: every socket is silent.
LEMMA DisconnectKeeps ==
  ASSUME IInv, DisconnectOnline
  PROVE  NetInv' /\ socketRef' = 0
<1>1. socketRef' = 0
  BY DEF DisconnectOnline
<1>2. CASE socketRef = 0
  BY <1>1, <1>2 DEF DisconnectOnline, net, IInv, NetInv, NetTyped, OthersAreSilent, ServerKeepsOrder
<1>3. CASE socketRef # 0
  <2>1. /\ link' = [link EXCEPT ![socketRef] = "closed"]
        /\ outbox' = [outbox EXCEPT ![socketRef] = <<>>]
        /\ inbox' = [inbox EXCEPT ![socketRef] = <<>>]
        /\ seat' = [seat EXCEPT ![socketRef] = "free"]
        /\ socketRef \in Generations
    BY <1>3 DEF DisconnectOnline, IInv, SocketOfThisFlow
  <2>2. NetTyped'
    BY <2>1 DEF IInv, NetInv, NetTyped, Seats
  <2>3. OthersAreSilent'
    BY <1>1, <2>1 DEF IInv, NetInv, NetTyped, OthersAreSilent
  <2>4. QED
    BY <1>1, <2>2, <2>3 DEF NetInv, ServerKeepsOrder
<1>4. QED
  BY <1>1, <1>2, <1>3

LEMMA FlowNumbers ==
  ASSUME FlowsInOrder
  PROVE  \A i \in 1..Len(flows) : flows[i].generation \in Nat /\ flows[i].generation <= generation
<1>1. Generations \subseteq Nat
  BY ClientAssumption DEF Generations
<1>2. \A i \in 1..Len(flows) : flows[i] \in Flow
  BY DEF FlowsInOrder
<1>3. QED
  BY <1>1, <1>2 DEF FlowsInOrder, Flow

\* The first flow goes on: the others stay in order, and a flow of the present
\* generation is the last.
LEMMA FirstFlow ==
  ASSUME FlowsInOrder, flows # <<>>
  PROVE  /\ Head(flows) \in Flow /\ Head(flows).generation <= generation
         /\ Tail(flows) \in Seq(Flow)
         /\ \A i \in 1..Len(Tail(flows)) : Tail(flows)[i].generation <= generation
         /\ \A i, j \in 1..Len(Tail(flows)) :
               i < j => Tail(flows)[i].generation < Tail(flows)[j].generation
         /\ Head(flows).generation = generation => Tail(flows) = <<>>
<1>1. flows \in Seq(Flow)
  BY DEF FlowsInOrder
<1>2. /\ Tail(flows) \in Seq(Flow) /\ Len(Tail(flows)) = Len(flows) - 1
      /\ Len(flows) \in Nat /\ Len(flows) > 0
      /\ \A i \in 1..Len(Tail(flows)) : Tail(flows)[i] = flows[i + 1] /\ i + 1 \in 1..Len(flows)
      /\ Head(flows) = flows[1] /\ 1 \in 1..Len(flows)
  BY <1>1
<1>3. Head(flows) \in Flow /\ Head(flows).generation <= generation
  BY <1>1, <1>2 DEF FlowsInOrder
<1>4. \A i \in 1..Len(Tail(flows)) : Tail(flows)[i].generation <= generation
  BY <1>2 DEF FlowsInOrder
<1>5. ASSUME NEW i \in 1..Len(Tail(flows)), NEW j \in 1..Len(Tail(flows)), i < j
      PROVE  Tail(flows)[i].generation < Tail(flows)[j].generation
  <2>1. i + 1 < j + 1
    BY <1>2, <1>5
  <2>2. QED
    BY <1>2, <2>1 DEF FlowsInOrder
<1>6. ASSUME Head(flows).generation = generation, Tail(flows) # <<>> PROVE FALSE
  <2>1. 2 \in 1..Len(flows)
    BY <1>2, <1>6
  <2>2. flows[1].generation < flows[2].generation /\ flows[2].generation <= generation
    BY <1>2, <2>1 DEF FlowsInOrder
  <2>3. flows[1].generation \in Nat /\ flows[2].generation \in Nat /\ generation \in Nat
    BY <1>2, <2>1, FlowNumbers DEF FlowsInOrder
  <2>4. QED
    BY <1>2, <1>6, <2>2, <2>3
<1>7. QED
  BY <1>2, <1>3, <1>4, <1>5, <1>6

\* run: a flow begins, whatever screen it is offered on.
LEMMA BeginKeeps ==
  ASSUME IInv, NEW kind \in OnlineKinds \cup OfflineModes, Begin(kind)
  PROVE  IInv'
<1> DEFINE f == [kind |-> kind, generation |-> generation + 1]
<1>1. /\ generation \in Nat /\ generation' = generation + 1 /\ f \in Flow /\ resultTimer' = FALSE
      /\ flows' = Append(flows, f)
      /\ UNCHANGED <<scene, mode, modeRef, match, records>>
  BY ClientAssumption DEF Begin, IInv, FlowsInOrder, Flow, Generations
<1>2. NetInv' /\ socketRef' = 0
  BY DisconnectKeeps DEF Begin
<1> HIDE DEF f
<1>3. flows \in Seq(Flow)
  BY DEF IInv, FlowsInOrder
<1>4. /\ flows' \in Seq(Flow) /\ Len(flows') = Len(flows) + 1 /\ Len(flows) \in Nat
      /\ \A i \in 1..Len(flows) : flows'[i] = flows[i]
      /\ flows'[Len(flows) + 1] = f /\ f.generation = generation + 1
  BY <1>1, <1>3, AppendProperties DEF f
<1>5. \A i \in 1..Len(flows) : flows[i].generation \in Nat /\ flows[i].generation <= generation
  BY FlowNumbers DEF IInv
<1>6. FlowsInOrder'
  <2>1. \A i \in 1..Len(flows') : flows'[i].generation <= generation'
    BY <1>1, <1>4, <1>5
  <2>2. ASSUME NEW i \in 1..Len(flows'), NEW j \in 1..Len(flows'), i < j
        PROVE  flows'[i].generation < flows'[j].generation
    <3>1. i \in 1..Len(flows)
      BY <1>4, <2>2
    <3>2. CASE j \in 1..Len(flows)
      BY <1>4, <2>2, <3>1, <3>2 DEF IInv, FlowsInOrder
    <3>3. CASE j \notin 1..Len(flows)
      <4>1. j = Len(flows) + 1
        BY <1>4, <3>3
      <4>2. QED
        BY <1>1, <1>4, <1>5, <3>1, <4>1
    <3>4. QED
      BY <3>2, <3>3
  <2>3. QED
    BY <1>1, <1>2, <1>4, <2>1, <2>2 DEF FlowsInOrder
<1>7. SocketOfThisFlow'
  BY <1>2 DEF SocketOfThisFlow
<1>8. ScreenInv'
  BY <1>1, <1>2 DEF IInv, ScreenInv, MatchTyped, TimerForFinished, ScoreOfTheMode,
       ShowsItsOwnMatch, ResultsOfAFinishedMatch, OnlySoloIsRecorded, records
<1>9. QED
  BY <1>2, <1>6, <1>7, <1>8 DEF IInv

\* returnToMenu: flows that wait are of an older generation now.
LEMMA ReturnKeeps ==
  ASSUME IInv, ReturnToMenu, UNCHANGED records
  PROVE  IInv'
<1>1. /\ generation \in Nat /\ generation' = generation + 1 /\ resultTimer' = FALSE
      /\ match' = None /\ scene' = "menu" /\ UNCHANGED <<mode, modeRef, flows>>
  BY DEF ReturnToMenu, IInv, FlowsInOrder
<1>2. NetInv' /\ socketRef' = 0
  BY DisconnectKeeps DEF ReturnToMenu
<1>3. FlowsInOrder'
  <2>1. \A i \in 1..Len(flows) : flows[i].generation \in Nat /\ flows[i].generation <= generation
    BY FlowNumbers DEF IInv
  <2>2. \A i \in 1..Len(flows) : flows[i].generation <= generation + 1
    BY <1>1, <2>1
  <2>3. QED
    BY <1>1, <1>2, <2>2 DEF IInv, FlowsInOrder
<1>4. SocketOfThisFlow'
  BY <1>2 DEF SocketOfThisFlow
<1>5. ScreenInv'
  BY <1>1, <1>2 DEF IInv, ScreenInv, MatchTyped, TimerForFinished, ScoreOfTheMode,
       ShowsItsOwnMatch, ResultsOfAFinishedMatch, OnlySoloIsRecorded, records
<1>6. QED
  BY <1>2, <1>3, <1>4, <1>5 DEF IInv

\* startOfflineMatch: no socket is in use while a flow waits.
LEMMA GoOnOfflineKeeps ==
  ASSUME IInv, GoOnOffline
  PROVE  IInv'
<1> DEFINE flow == Head(flows)
<1>1. /\ flows # <<>> /\ socketRef = 0 /\ ~resultTimer
      /\ flow \in Flow /\ Tail(flows) \in Seq(Flow)
  BY FirstFlow DEF GoOnOffline, IInv, FlowsInOrder
<1>2. /\ flow.kind \in OfflineModes /\ flows' = Tail(flows)
      /\ mode' = flow.kind /\ modeRef' = flow.kind
      /\ match' = [mode |-> flow.kind, of |-> flow.generation, finished |-> FALSE]
      /\ scene' = "match" /\ score' = None
      /\ UNCHANGED <<generation, resultTimer, socketRef, net, best>>
  BY DEF GoOnOffline, timers
<1>3. FlowsInOrder'
  BY <1>1, <1>2, FirstFlow DEF IInv, FlowsInOrder
<1>4. SocketOfThisFlow' /\ NetInv'
  BY <1>1, <1>2, NetSame DEF SocketOfThisFlow
<1>5. match' \in Match
  BY <1>1, <1>2 DEF Match, Modes, Flow
<1>6. ScreenInv'
  BY <1>1, <1>2, <1>5, ClientAssumption
     DEF IInv, ScreenInv, MatchTyped, TimerForFinished, ScoreOfTheMode,
         ShowsItsOwnMatch, ResultsOfAFinishedMatch, OnlySoloIsRecorded
<1>7. QED
  BY <1>3, <1>4, <1>6 DEF IInv

\* The flow opens no socket: it is stale, or connectOnline throws.
LEMMA GoOnNowhereKeeps ==
  ASSUME IInv, GoOnStale \/ GoOnFails
  PROVE  IInv'
<1>1. /\ flows # <<>> /\ socketRef = 0 /\ ~resultTimer /\ flows' = Tail(flows)
      /\ UNCHANGED <<modeRef, generation, resultTimer, socketRef, net, records>>
      /\ \/ UNCHANGED <<scene, mode, match>>
         \/ scene' = "menu" /\ mode' = "online" /\ match' = None
  BY DEF GoOnStale, GoOnFails, IInv, FlowsInOrder, timers
<1>2. FlowsInOrder'
  BY <1>1, FirstFlow DEF IInv, FlowsInOrder
<1>3. SocketOfThisFlow' /\ NetInv'
  BY <1>1 DEF IInv, SocketOfThisFlow, NetInv, NetTyped, OthersAreSilent, ServerKeepsOrder, net
<1>4. ScreenInv'
  BY <1>1 DEF IInv, ScreenInv, MatchTyped, TimerForFinished, ScoreOfTheMode,
       ShowsItsOwnMatch, ResultsOfAFinishedMatch, OnlySoloIsRecorded, records
<1>5. QED
  BY <1>2, <1>3, <1>4 DEF IInv

\* prepareOnlineSocket: the flow is the last one that waits, and its socket the
\* only one that is not silent.
LEMMA GoOnOnlineKeeps ==
  ASSUME IInv, GoOnOnline
  PROVE  IInv'
<1> DEFINE flow == Head(flows)
           g == flow.generation
<1>1. /\ flows # <<>> /\ socketRef = 0 /\ ~resultTimer
      /\ flow \in Flow /\ g = generation /\ Tail(flows) = <<>> /\ g \in Generations
  BY FirstFlow DEF GoOnOnline, InTime, IInv, FlowsInOrder, Flow
<1>2. /\ flow.kind \in OnlineKinds /\ flows' = <<>>
      /\ mode' = "online" /\ scene' = "room" /\ match' = None /\ socketRef' = g
      /\ link' = [link EXCEPT ![g] = "opening"] /\ outbox' = [outbox EXCEPT ![g] = <<flow.kind>>]
      /\ UNCHANGED <<modeRef, generation, resultTimer, inbox, seat, records>>
  BY <1>1 DEF GoOnOnline, timers
<1>3. g # 0 /\ generation \in Nat
  BY <1>1 DEF Generations, IInv, FlowsInOrder
<1> HIDE DEF flow, g
<1>4. FlowsInOrder'
  BY <1>2, <1>3 DEF FlowsInOrder
<1>5. SocketOfThisFlow'
  BY <1>1, <1>2 DEF SocketOfThisFlow
<1>6. inbox[g] = <<>> /\ seat[g] = "free"
  BY <1>1, <1>3 DEF IInv, NetInv, OthersAreSilent
<1>7. NetTyped'
  <2>1. <<flow.kind>> \in Seq(OnlineKinds \cup {"cancel"})
    BY <1>2
  <2>2. QED
    BY <1>1, <1>2, <2>1 DEF IInv, NetInv, NetTyped
<1>8. OthersAreSilent'
  <2>1. \A h \in Generations : h # 0
    BY DEF Generations
  <2>2. \A h \in Generations : h # g => link'[h] = link[h] /\ outbox'[h] = outbox[h]
    BY <1>2 DEF IInv, NetInv, NetTyped
  <2>3. QED
    BY <1>1, <1>2, <2>1, <2>2 DEF IInv, NetInv, OthersAreSilent
<1>9. ServerKeepsOrder'
  <2>1. outbox'[g] = <<flow.kind>> /\ inbox'[g] = <<>> /\ seat'[g] = "free"
    BY <1>1, <1>2, <1>6 DEF IInv, NetInv, NetTyped
  <2>2. Ordered(<<flow.kind>>, <<>>, "free", None)
    BY DEF Ordered, Over, InPlay
  <2>3. QED
    BY <1>2, <2>1, <2>2 DEF ServerKeepsOrder
<1>10. ScreenInv'
  BY <1>1, <1>2 DEF IInv, ScreenInv, MatchTyped, TimerForFinished, ScoreOfTheMode,
       ShowsItsOwnMatch, ResultsOfAFinishedMatch, OnlySoloIsRecorded, records
<1>11. QED
  BY <1>4, <1>5, <1>7, <1>8, <1>9, <1>10 DEF IInv, NetInv

\* cancelQuickMatch asks the server, or goes back at once.
LEMMA CancelSearchKeeps ==
  ASSUME IInv, CancelSearch
  PROVE  IInv'
<1>1. CASE socketRef # 0 /\ link[socketRef] = "up"
  <2>1. /\ outbox' = [outbox EXCEPT ![socketRef] = Append(@, "cancel")]
        /\ UNCHANGED <<scene, mode, modeRef, generation, flows, match, resultTimer, socketRef,
                       link, inbox, seat, records>>
        /\ socketRef \in Generations
    BY <1>1 DEF CancelSearch, ui, IInv, SocketOfThisFlow
  <2> DEFINE out == Append(outbox[socketRef], "cancel")
  <2>2. outbox[socketRef] \in Seq(OnlineKinds \cup {"cancel"})
    BY <2>1 DEF IInv, NetInv, NetTyped
  <2>3. /\ out \in Seq(OnlineKinds \cup {"cancel"}) /\ Len(out) = Len(outbox[socketRef]) + 1
        /\ \A i \in 1..Len(out) : out[i] # "cancel" =>
              i \in 1..Len(outbox[socketRef]) /\ out[i] = outbox[socketRef][i]
    BY <2>2
  <2> HIDE DEF out
  <2>4. NetTyped' /\ OthersAreSilent'
    BY <2>1, <2>3 DEF IInv, NetInv, NetTyped, OthersAreSilent, out
  <2>5. ServerKeepsOrder'
    <3>1. Ordered(out, inbox[socketRef], seat[socketRef], match)
      BY <1>1, <2>3 DEF IInv, NetInv, ServerKeepsOrder, Ordered
    <3>2. outbox'[socketRef] = out
      BY <2>1 DEF IInv, NetInv, NetTyped, out
    <3>3. QED
      BY <2>1, <3>1, <3>2 DEF ServerKeepsOrder
  <2>6. FlowsInOrder' /\ SocketOfThisFlow'
    BY <2>1 DEF IInv, FlowsInOrder, SocketOfThisFlow
  <2>7. ScreenInv'
    BY <2>1 DEF IInv, ScreenInv, MatchTyped, TimerForFinished, ScoreOfTheMode,
         ShowsItsOwnMatch, ResultsOfAFinishedMatch, OnlySoloIsRecorded, records
  <2>8. QED
    BY <2>4, <2>5, <2>6, <2>7 DEF IInv, NetInv
<1>2. CASE ~(socketRef # 0 /\ link[socketRef] = "up")
  BY <1>2, ReturnKeeps DEF CancelSearch
<1>3. QED
  BY <1>1, <1>2

-----------------------------------------------------------------------------
(* Timers, the loop, the pause                                             *)

\* A match is over and its results are shown; only a solo run is recorded.
LEMMA TimersKeep ==
  ASSUME IInv, ResultTimer \/ LeaveTimer \/ Pause \/ Score
  PROVE  IInv'
<1>1. UNCHANGED <<mode, modeRef, generation, flows, match, socketRef, net>>
  BY DEF ResultTimer, LeaveTimer, Pause, Score, ui, timers
<1>2. NetInv' /\ SocketOfThisFlow'
  BY <1>1, NetSame DEF IInv, SocketOfThisFlow
<1>3. FlowsInOrder' /\ TimerForFinished'
  BY <1>1 DEF IInv, FlowsInOrder, ScreenInv, TimerForFinished, ResultTimer, LeaveTimer, Pause, Score, timers
<1>4. MatchTyped' /\ ShowsItsOwnMatch' /\ ScoreOfTheMode'
  BY <1>1 DEF IInv, ScreenInv, MatchTyped, ShowsItsOwnMatch, ScoreOfTheMode,
       ResultTimer, LeaveTimer, Pause, Score, records
<1>5. ResultsOfAFinishedMatch'
  BY <1>1 DEF IInv, ScreenInv, TimerForFinished, Over, ResultsOfAFinishedMatch,
       ResultTimer, LeaveTimer, Pause, Score, ui
<1>6. OnlySoloIsRecorded'
  BY DEF IInv, ScreenInv, OnlySoloIsRecorded, ScoreOfTheMode, Recorded, Saved,
       ResultTimer, LeaveTimer, Pause, Score, records
<1>7. QED
  BY <1>2, <1>3, <1>4, <1>5, <1>6 DEF IInv, ScreenInv

LEMMA MatchEndsKeeps ==
  ASSUME IInv, MatchEnds
  PROVE  IInv'
<1>1. /\ scene = "match" /\ mode # "online" /\ match # None /\ flows = <<>> /\ match \in Match
      /\ match' = [match EXCEPT !.finished = TRUE] /\ resultTimer' = TRUE
      /\ UNCHANGED <<scene, mode, modeRef, generation, flows, socketRef, net, records>>
  BY DEF MatchEnds, Playing, ui, IInv, ScreenInv, MatchTyped
<1>2. match' \in Match /\ match'.finished /\ match'.mode = match.mode /\ match'.of = match.of
  BY <1>1 DEF Match
<1>3. socketRef = 0
  BY <1>1 DEF IInv, SocketOfThisFlow
<1>4. NetInv' /\ SocketOfThisFlow' /\ FlowsInOrder'
  BY <1>1, <1>3, NetSame DEF IInv, SocketOfThisFlow, FlowsInOrder
<1>5. match' # None
  BY <1>2, NoMatchAssumption
<1>6. ScreenInv'
  BY <1>1, <1>2, <1>5 DEF IInv, ScreenInv, MatchTyped, TimerForFinished, ScoreOfTheMode, Over,
       ShowsItsOwnMatch, ResultsOfAFinishedMatch, OnlySoloIsRecorded, records
<1>7. QED
  BY <1>4, <1>6 DEF IInv

-----------------------------------------------------------------------------
(* The socket and the server                                               *)

\* A step of socket g that leaves the flows and the screen alone.
LEMMA SocketStep ==
  ASSUME IInv, NEW g \in Generations,
         UNCHANGED <<scene, mode, modeRef, generation, flows, match, resultTimer, socketRef, records>>,
         NetTyped', socketRef = g \/ link[g] \in {"opening", "up", "down"},
         \A h \in Generations \ {g} : /\ link'[h] = link[h] /\ outbox'[h] = outbox[h]
                                      /\ inbox'[h] = inbox[h] /\ seat'[h] = seat[h],
         socketRef = g => Ordered(outbox'[g], inbox'[g], seat'[g], match)
  PROVE  IInv'
<1>1. socketRef = g
  BY DEF IInv, NetInv, OthersAreSilent
<1>2. OthersAreSilent'
  BY <1>1 DEF IInv, NetInv, OthersAreSilent
<1>3. ServerKeepsOrder'
  BY <1>1 DEF ServerKeepsOrder
<1>4. FlowsInOrder' /\ SocketOfThisFlow'
  BY DEF IInv, FlowsInOrder, SocketOfThisFlow
<1>5. ScreenInv'
  BY DEF IInv, ScreenInv, MatchTyped, TimerForFinished, ScoreOfTheMode,
       ShowsItsOwnMatch, ResultsOfAFinishedMatch, OnlySoloIsRecorded, records
<1>6. QED
  BY <1>2, <1>3, <1>4, <1>5 DEF IInv, NetInv

\* What the socket in use knows of the order of messages.
LEMMA OrderOf ==
  ASSUME IInv, NEW g \in Generations, link[g] \in {"opening", "up", "down"}
  PROVE  /\ socketRef = g /\ g # 0 /\ Ordered(outbox[g], inbox[g], seat[g], match)
         /\ outbox[g] \in Seq(OnlineKinds \cup {"cancel"}) /\ inbox[g] \in Seq(Message)
<1>1. socketRef = g /\ g # 0
  BY DEF IInv, NetInv, OthersAreSilent, Generations
<1>2. QED
  BY <1>1 DEF IInv, NetInv, NetTyped, ServerKeepsOrder

LEMMA EmptyIsOrdered ==
  ASSUME NEW m
  PROVE  Ordered(<<>>, <<>>, "free", m)
  BY DEF Ordered, InPlay

\* The link comes up, fails or drops; with it goes what was on its way.
LEMMA LinkKeeps ==
  ASSUME IInv, NEW g \in Generations,
         Connects(g) \/ Drops(g) \/ \E last \in BOOLEAN : ConnectError(g, last)
  PROVE  IInv'
<1>1. /\ link[g] \in {"opening", "up", "down"}
      /\ UNCHANGED <<scene, mode, modeRef, generation, flows, match, resultTimer, socketRef, records>>
  BY DEF Connects, Drops, ConnectError, ui, timers
<1>2. NetTyped'
  <2>1. CASE Connects(g)
    BY <2>1 DEF IInv, NetInv, NetTyped, Connects
  <2>2. CASE Drops(g)
    <3>1. <<>> \in Seq(OnlineKinds \cup {"cancel"}) /\ <<>> \in Seq(Message)
      OBVIOUS
    <3>2. QED
      BY <2>2, <3>1 DEF IInv, NetInv, NetTyped, Drops, Seats
  <2>3. CASE \E last \in BOOLEAN : ConnectError(g, last)
    <3>1. PICK last \in BOOLEAN : ConnectError(g, last)
      BY <2>3
    <3>2. link' = [link EXCEPT ![g] = "failed"] \/ link' = link
      BY <3>1 DEF ConnectError, IInv, NetInv, NetTyped
    <3>3. UNCHANGED <<outbox, inbox, seat>>
      BY <3>1 DEF ConnectError
    <3>4. QED
      BY <3>2, <3>3 DEF IInv, NetInv, NetTyped
  <2>4. QED
    BY <2>1, <2>2, <2>3
<1>3. \A h \in Generations \ {g} : /\ link'[h] = link[h] /\ outbox'[h] = outbox[h]
                                   /\ inbox'[h] = inbox[h] /\ seat'[h] = seat[h]
  BY DEF IInv, NetInv, NetTyped, Connects, Drops, ConnectError
<1>4. Ordered(outbox'[g], inbox'[g], seat'[g], match)
  <2>1. CASE Drops(g)
    <3>1. outbox'[g] = <<>> /\ inbox'[g] = <<>> /\ seat'[g] = "free"
      BY <2>1 DEF Drops, IInv, NetInv, NetTyped
    <3>2. QED
      BY <3>1, EmptyIsOrdered
  <2>2. CASE Connects(g) \/ \E last \in BOOLEAN : ConnectError(g, last)
    <3>1. UNCHANGED <<outbox, inbox, seat>>
      BY <2>2 DEF Connects, ConnectError
    <3>2. QED
      BY <1>1, <3>1, OrderOf
  <2>3. QED
    BY <2>1, <2>2
<1>5. QED
  BY <1>1, <1>2, <1>3, <1>4, SocketStep

Harmless(more) == \A i \in 1..Len(more) : more[i] \notin {"update", "finished", "topout"}

\* The server answers: it enters a socket into play only if it has said nothing
\* of the end of a match before.
LEMMA AnswersKeep ==
  ASSUME IInv, NEW g \in Generations, Answers(g)
  PROVE  IInv'
<1> DEFINE out == outbox[g]
           in == inbox[g]
<1>1. /\ socketRef = g /\ g # 0 /\ Ordered(out, in, seat[g], match)
      /\ out \in Seq(OnlineKinds \cup {"cancel"}) /\ in \in Seq(Message) /\ out # <<>>
  BY OrderOf DEF Answers
<1>2. /\ Len(Tail(out)) \in Nat /\ Tail(out) \in Seq(OnlineKinds \cup {"cancel"})
      /\ \A i \in 1..Len(Tail(out)) : Tail(out)[i] = out[i + 1] /\ i + 1 \in 1..Len(out) /\ i + 1 # 1
      /\ Head(out) = out[1] /\ 1 \in 1..Len(out) /\ Head(out) \in OnlineKinds \cup {"cancel"}
  BY <1>1
<1>3. \A i \in 1..Len(Tail(out)) : Tail(out)[i] = "cancel"
  BY <1>1, <1>2 DEF Ordered
<1>4. Head(out) # "cancel" => in = <<>> /\ seat[g] = "free" /\ match = None
  BY <1>1, <1>2 DEF Ordered
<1>5. PICK more \in Seq(Message), next \in Seats :
         /\ Sends(g, more, next) /\ Harmless(more)
         /\ next \in InPlay => Head(out) # "cancel" \/ seat[g] \in InPlay
  <2>1. CASE Head(out) = "create"
    <3>1. Sends(g, <<"created">>, "waiting") \/ Sends(g, <<"refused">>, "free")
      BY <2>1 DEF Answers
    <3>2. /\ <<"created">> \in Seq(Message) /\ <<"refused">> \in Seq(Message)
          /\ Harmless(<<"created">>) /\ Harmless(<<"refused">>)
      BY DEF Message, Harmless
    <3>3. QED
      BY <2>1, <3>1, <3>2 DEF Seats
  <2>2. CASE Head(out) = "join"
    <3>1. Sends(g, <<"joined", "ready">>, "playing") \/ Sends(g, <<"refused">>, "free")
      BY <2>2 DEF Answers
    <3>2. /\ <<"joined", "ready">> \in Seq(Message) /\ <<"refused">> \in Seq(Message)
          /\ Harmless(<<"joined", "ready">>) /\ Harmless(<<"refused">>)
      BY DEF Message, Harmless
    <3>3. QED
      BY <2>2, <3>1, <3>2 DEF Seats
  <2>3. CASE Head(out) = "quick"
    <3>1. \/ Sends(g, <<"searching", "sought">>, "searching")
          \/ Sends(g, <<"matched", "ready", "unsought">>, "playing")
          \/ Sends(g, <<"unsought">>, "free")
      BY <2>3 DEF Answers
    <3>2. /\ <<"searching", "sought">> \in Seq(Message) /\ <<"unsought">> \in Seq(Message)
          /\ <<"matched", "ready", "unsought">> \in Seq(Message)
          /\ Harmless(<<"searching", "sought">>) /\ Harmless(<<"unsought">>)
          /\ Harmless(<<"matched", "ready", "unsought">>)
      BY DEF Message, Harmless
    <3>3. QED
      BY <2>3, <3>1, <3>2 DEF Seats
  <2>4. CASE Head(out) = "cancel"
    <3> DEFINE next == IF seat[g] = "searching" THEN "free" ELSE seat[g]
    <3>1. Sends(g, <<"cancelled">>, next)
      BY <2>4 DEF Answers
    <3>2. <<"cancelled">> \in Seq(Message) /\ Harmless(<<"cancelled">>)
      BY DEF Message, Harmless
    <3>3. /\ next \in Seats
          /\ next \in InPlay => seat[g] \in InPlay
      BY DEF IInv, NetInv, NetTyped, InPlay, Seats
    <3> HIDE DEF next
    <3>4. QED
      BY <3>1, <3>2, <3>3
  <2>5. QED
    BY <1>2, <2>1, <2>2, <2>3, <2>4 DEF OnlineKinds
<1>6. /\ UNCHANGED <<scene, mode, modeRef, generation, flows, match, resultTimer, socketRef, link, records>>
      /\ outbox' = [outbox EXCEPT ![g] = Tail(out)]
      /\ inbox' = [inbox EXCEPT ![g] = in \o more] /\ seat' = [seat EXCEPT ![g] = next]
  BY <1>5 DEF Answers, Sends, ui, timers
<1>7. in \o more \in Seq(Message)
  BY <1>1, <1>5, ConcatProperties
<1>8. Ordered(Tail(out), in \o more, next, match)
  <2>1. next \in InPlay =>
          ~Over(match) /\ \A i \in 1..Len(in) : in[i] \notin {"finished", "topout"}
    <3>1. CASE seat[g] \in InPlay
      BY <1>1, <3>1 DEF Ordered
    <3>2. CASE Head(out) # "cancel"
      BY <1>4, <3>2 DEF Over
    <3>3. QED
      BY <1>5, <3>1, <3>2
  <2>2. QED
    BY <1>1, <1>2, <1>3, <1>5, <2>1, HarmlessKeepsOrder DEF Harmless
<1>9. NetTyped'
  BY <1>2, <1>5, <1>6, <1>7 DEF IInv, NetInv, NetTyped
<1>10. /\ outbox'[g] = Tail(out) /\ inbox'[g] = in \o more /\ seat'[g] = next
       /\ \A h \in Generations \ {g} : /\ link'[h] = link[h] /\ outbox'[h] = outbox[h]
                                       /\ inbox'[h] = inbox[h] /\ seat'[h] = seat[h]
  BY <1>6 DEF IInv, NetInv, NetTyped
<1> HIDE DEF out, in
<1>11. QED
  BY <1>1, <1>6, <1>8, <1>9, <1>10, SocketStep

\* The server moves on by itself.
ServerMoves(g) == Paired(g) \/ Ticked(g) \/ PeerLeaves(g) \/ CloseRoom(g)

LEMMA MovesKeep ==
  ASSUME IInv, NEW g \in Generations, ServerMoves(g)
  PROVE  IInv'
<1> DEFINE out == outbox[g]
           in == inbox[g]
           sits == seat[g]
<1>1. /\ socketRef = g /\ g # 0 /\ Ordered(out, in, sits, match)
      /\ out \in Seq(OnlineKinds \cup {"cancel"}) /\ in \in Seq(Message)
  <2>1. link[g] = "up"
    BY DEF ServerMoves, Paired, Ticked, PeerLeaves, CloseRoom, Moves
  <2>2. QED
    BY <2>1, OrderOf
<1>2. PICK more \in Seq(Message), next \in Seats :
         /\ Sends(g, more, next) /\ sits # "free"
         /\ \/ Harmless(more) /\ (next \in InPlay => sits \in InPlay)
            \/ sits = "playing" /\ more = <<"update">> /\ next = "playing"
            \/ sits = "playing" /\ more = <<"finished", "topout">> /\ next = "over"
  <2>1. /\ <<"matched", "ready">> \in Seq(Message) /\ <<"ready">> \in Seq(Message)
        /\ <<"update">> \in Seq(Message) /\ <<"finished", "topout">> \in Seq(Message)
        /\ <<"peer", "forfeit">> \in Seq(Message) /\ <<"peer">> \in Seq(Message)
        /\ <<"forfeit">> \in Seq(Message) /\ Harmless(<<"forfeit">>)
        /\ Harmless(<<"matched", "ready">>) /\ Harmless(<<"ready">>)
        /\ Harmless(<<"peer", "forfeit">>) /\ Harmless(<<"peer">>)
    BY DEF Message, Harmless
  <2>2. \/ sits = "searching" /\ Sends(g, <<"matched", "ready">>, "playing")
        \/ sits = "waiting" /\ Sends(g, <<"ready">>, "playing")
        \/ sits = "playing" /\ Sends(g, <<"update">>, "playing")
        \/ sits = "playing" /\ Sends(g, <<"finished", "topout">>, "over")
        \/ sits = "playing" /\ Sends(g, <<"peer", "forfeit">>, "left")
        \/ sits \in {"over", "closed"} /\ Sends(g, <<"peer">>, "left")
        \/ sits = "playing" /\ Sends(g, <<"forfeit">>, "closed")
        \/ sits = "waiting" /\ Sends(g, <<"forfeit">>, "left")
    BY DEF ServerMoves, Paired, Ticked, PeerLeaves, CloseRoom, Moves
  <2> HIDE DEF sits
  <2>3. QED
    BY <2>1, <2>2 DEF InPlay, Seats
<1>3. /\ UNCHANGED <<scene, mode, modeRef, generation, flows, match, resultTimer, socketRef, link,
                     outbox, records>>
      /\ inbox' = [inbox EXCEPT ![g] = in \o more] /\ seat' = [seat EXCEPT ![g] = next]
  BY <1>2 DEF ServerMoves, Paired, Ticked, PeerLeaves, CloseRoom, Moves, Sends, ui, timers
<1>4. in \o more \in Seq(Message)
  BY <1>1, <1>2, ConcatProperties
<1>5. Ordered(out, in \o more, next, match)
  <2>1. CASE Harmless(more) /\ (next \in InPlay => sits \in InPlay)
    <3>1. \A i \in 1..Len(out) : out[i] = "cancel"
      BY <1>1, <1>2 DEF Ordered
    <3>2. next \in InPlay =>
            ~Over(match) /\ \A i \in 1..Len(in) : in[i] \notin {"finished", "topout"}
      BY <1>1, <2>1 DEF Ordered
    <3>3. Len(out) \in Nat
      BY <1>1
    <3>4. QED
      BY <1>1, <1>2, <2>1, <3>1, <3>2, <3>3, HarmlessKeepsOrder DEF Harmless
  <2>2. CASE sits = "playing" /\ more = <<"update">> /\ next = "playing"
    BY <1>1, <2>2, PlayKeepsOrder
  <2>3. CASE sits = "playing" /\ more = <<"finished", "topout">> /\ next = "over"
    BY <1>1, <2>3, PlayKeepsOrder
  <2>4. QED
    BY <1>2, <2>1, <2>2, <2>3
<1>6. NetTyped'
  BY <1>2, <1>3, <1>4 DEF IInv, NetInv, NetTyped
<1>7. /\ outbox'[g] = out /\ inbox'[g] = in \o more /\ seat'[g] = next
      /\ \A h \in Generations \ {g} : /\ link'[h] = link[h] /\ outbox'[h] = outbox[h]
                                      /\ inbox'[h] = inbox[h] /\ seat'[h] = seat[h]
  BY <1>3 DEF IInv, NetInv, NetTyped
<1> HIDE DEF out, in, sits
<1>8. QED
  BY <1>1, <1>3, <1>5, <1>6, <1>7, SocketStep

\* A message reaches the client: the results it asks for belong to the match it
\* shows.
LEMMA DeliverKeeps ==
  ASSUME IInv, NEW g \in Generations, Deliver(g)
  PROVE  IInv'
<1> DEFINE message == Head(inbox[g])
<1>1. socketRef = g /\ g # 0 /\ generation = g /\ mode = "online" /\ flows = <<>>
  BY DEF Deliver, IInv, NetInv, OthersAreSilent, SocketOfThisFlow, FlowsInOrder, Generations
<1>2. /\ Ordered(outbox[g], inbox[g], seat[g], match)
      /\ outbox[g] \in Seq(OnlineKinds \cup {"cancel"}) /\ inbox[g] \in Seq(Message)
  BY <1>1 DEF IInv, NetInv, NetTyped, ServerKeepsOrder
<1>3. 1 \in 1..Len(inbox[g]) /\ inbox[g][1] = message
  BY <1>2 DEF Deliver
<1>4. CASE message = "cancelled"
  <2>1. ReturnToMenu /\ UNCHANGED records
    BY <1>4 DEF Deliver, records
  <2>2. QED
    BY <2>1, ReturnKeeps
<1>5. CASE message # "cancelled"
  <2>1. /\ inbox' = [inbox EXCEPT ![g] = Tail(@)] /\ Handle(g, message)
        /\ best' \in IF /\ Live(g) /\ message \in {"update", "finished"} /\ scene = "results"
                        /\ modeRef = "solo" /\ score # None
                     THEN Saved(score) ELSE {best}
        /\ UNCHANGED <<mode, modeRef, generation, flows, socketRef, link, outbox, seat, score>>
    BY <1>1, <1>5 DEF Deliver, Live
  <2>2. message = "topout" => Over(match)
    BY <1>2, <1>3 DEF Ordered
  <2>3. message = "update" => ~Over(match)
    BY <1>2, <1>3 DEF Ordered
  <2> HIDE DEF message
  <2>4. /\ message = "update" => Shows(g, FALSE)
        /\ message = "finished" => Shows(g, TRUE)
        /\ message \notin {"update", "finished"} => match' = match
    BY <2>1 DEF Handle
  <2>5. resultTimer' => message \in {"finished", "topout"} \/ resultTimer
    BY <2>1 DEF Handle
  <2>6. scene' = "results" => scene = "results"
    BY <2>1 DEF Handle
  <2>7. ASSUME NEW over \in BOOLEAN, Shows(g, over)
        PROVE  /\ match' \in Match /\ match'.mode = "online" /\ match'.of = g
               /\ match' # None /\ match'.finished = over
    <3>1. match' = [mode |-> "online", of |-> g, finished |-> over]
      BY <2>7 DEF Shows
    <3>2. match' \in Match
      BY <3>1 DEF Match, Modes
    <3>3. QED
      BY <3>1, <3>2, NoMatchAssumption
  <2>8. /\ message = "update" => match' # None /\ ~Over(match)'
        /\ message = "finished" => Over(match)'
    BY <2>4, <2>7 DEF Over
  <2>9. Over(match) => Over(match)'
    BY <2>3, <2>4, <2>8
  <2>10. ServerKeepsOrder'
    <3>1. Ordered(outbox[g], Tail(inbox[g]), seat[g], match')
      <4>1. /\ message = "finished" => Over(match')
            /\ message = "update" => ~Over(match')
            /\ message \notin {"finished", "update"} => match' = match
        BY <2>4, <2>8 DEF Over
      <4>2. inbox[g] # <<>>
        BY DEF Deliver
      <4>3. QED
        BY <1>2, <4>1, <4>2, TakingKeepsOrder DEF message
    <3>2. inbox'[g] = Tail(inbox[g])
      BY <2>1 DEF IInv, NetInv, NetTyped
    <3>3. QED
      BY <1>1, <2>1, <3>1, <3>2 DEF ServerKeepsOrder
  <2>11. NetTyped'
    <3>1. Tail(inbox[g]) \in Seq(Message)
      BY <1>2 DEF Deliver
    <3>2. QED
      BY <2>1, <3>1 DEF IInv, NetInv, NetTyped
  <2>12. OthersAreSilent'
    BY <1>1, <2>1 DEF IInv, NetInv, NetTyped, OthersAreSilent
  <2>13. FlowsInOrder' /\ SocketOfThisFlow'
    BY <1>1, <2>1 DEF IInv, FlowsInOrder, SocketOfThisFlow
  <2>14. MatchTyped' /\ ScoreOfTheMode'
    BY <2>1, <2>4, <2>7 DEF IInv, ScreenInv, MatchTyped, ScoreOfTheMode
  <2>15. TimerForFinished'
    BY <2>2, <2>5, <2>8, <2>9 DEF IInv, ScreenInv, TimerForFinished
  <2>16. ShowsItsOwnMatch'
    BY <1>1, <2>1, <2>4, <2>7 DEF IInv, ScreenInv, ShowsItsOwnMatch
  <2>17. ResultsOfAFinishedMatch'
    BY <2>6, <2>9 DEF IInv, ScreenInv, ResultsOfAFinishedMatch, Over
  <2>18. OnlySoloIsRecorded'
    BY <2>1 DEF IInv, ScreenInv, ScoreOfTheMode, OnlySoloIsRecorded, Saved
  <2>19. QED
    BY <2>10, <2>11, <2>12, <2>13, <2>14, <2>15, <2>16, <2>17, <2>18 DEF IInv, NetInv, ScreenInv
<1>6. QED
  BY <1>4, <1>5

-----------------------------------------------------------------------------
(* The invariant of the tab                                                *)

LEMMA InitKeeps ==
  ASSUME Init
  PROVE  IInv
<1>1. 0 \notin Generations
  BY DEF Generations
<1>2. FlowsInOrder /\ SocketOfThisFlow
  BY DEF Init, FlowsInOrder, SocketOfThisFlow
<1>3. NetTyped
  <2>1. <<>> \in Seq(OnlineKinds \cup {"cancel"}) /\ <<>> \in Seq(Message)
    OBVIOUS
  <2>2. QED
    BY <2>1 DEF Init, NetTyped, Seats
<1>4. OthersAreSilent /\ ServerKeepsOrder
  BY DEF Init, OthersAreSilent, ServerKeepsOrder
<1>5. ScreenInv
  BY DEF Init, ScreenInv, MatchTyped, TimerForFinished, ScoreOfTheMode, ShowsItsOwnMatch,
         ResultsOfAFinishedMatch, OnlySoloIsRecorded
<1>6. QED
  BY <1>2, <1>3, <1>4, <1>5 DEF IInv, NetInv

LEMMA NextKeeps ==
  ASSUME IInv, [Next]_vars
  PROVE  IInv'
<1>1. CASE \E kind \in OnlineKinds \cup OfflineModes : Start(kind)
  BY <1>1, BeginKeeps DEF Start
<1>2. CASE Quit
  BY <1>2, ReturnKeeps DEF Quit
<1>3. CASE CancelSearch
  BY <1>3, CancelSearchKeeps
<1>4. CASE ResultTimer \/ LeaveTimer \/ Pause \/ Score
  BY <1>4, TimersKeep
<1>5. CASE MatchEnds
  BY <1>5, MatchEndsKeeps
<1>6. CASE GoOnOffline
  BY <1>6, GoOnOfflineKeeps
<1>7. CASE GoOnStale \/ GoOnFails
  BY <1>7, GoOnNowhereKeeps
<1>8. CASE GoOnOnline
  BY <1>8, GoOnOnlineKeeps
<1>9. ASSUME NEW g \in Generations,
             \/ Deliver(g) \/ Connects(g) \/ Drops(g) \/ Answers(g) \/ ServerMoves(g)
             \/ \E last \in BOOLEAN : ConnectError(g, last)
      PROVE  IInv'
  BY <1>9, DeliverKeeps, LinkKeeps, AnswersKeep, MovesKeep
<1>10. CASE UNCHANGED vars
  <2>1. UNCHANGED <<scene, mode, modeRef, generation, flows, match, resultTimer, socketRef, net,
                    records>>
    BY <1>10 DEF vars, ui, timers
  <2>2. NetInv'
    BY <2>1, NetSame
  <2>3. FlowsInOrder' /\ SocketOfThisFlow'
    BY <2>1 DEF IInv, FlowsInOrder, SocketOfThisFlow
  <2>4. ScreenInv'
    BY <2>1 DEF IInv, ScreenInv, MatchTyped, TimerForFinished, ScoreOfTheMode,
         ShowsItsOwnMatch, ResultsOfAFinishedMatch, OnlySoloIsRecorded, records
  <2>5. QED
    BY <2>2, <2>3, <2>4 DEF IInv
<1>11. QED
  BY <1>1, <1>2, <1>3, <1>4, <1>5, <1>6, <1>7, <1>8, <1>9, <1>10
     DEF Next, ServerMoves

LEMMA InvariantHolds == Spec => []IInv
<1>1. Init => IInv
  BY InitKeeps
<1>2. IInv /\ [Next]_vars => IInv'
  BY NextKeeps
<1>3. QED
  BY <1>1, <1>2, PTL DEF Spec

-----------------------------------------------------------------------------
(* What follows                                                            *)

\* However many flows are begun, overtaken and left while they wait for the
\* audio, the tab never keeps an open socket it has lost sight of
\* (prepareOnlineSocket compares the generation before it opens one).
THEOREM NoSocketIsForgotten == Spec => []NoForgottenSocket
<1>1. IInv => NoForgottenSocket
  BY DEF IInv, NetInv, OthersAreSilent, NoForgottenSocket
<1>2. QED
  BY <1>1, InvariantHolds, PTL

\* The state on the screen is of the match the mode says: the loop never steps
\* what the server sent, and no message enters a match played in the tab.
THEOREM TheMatchShownIsItsOwn == Spec => []ShowsItsOwnMatch
<1>1. IInv => ShowsItsOwnMatch
  BY DEF IInv, ScreenInv
<1>2. QED
  BY <1>1, InvariantHolds, PTL

\* scheduleResults and the messages that end a match put up the result card only
\* over a match that is finished, although 800 ms lie between.
THEOREM ResultsFollowTheEnd == Spec => []ResultsOfAFinishedMatch
<1>1. IInv => ResultsOfAFinishedMatch
  BY DEF IInv, ScreenInv
<1>2. QED
  BY <1>1, InvariantHolds, PTL

\* The effect that saves the best run never records the points of another mode,
\* although every result card runs it and an online match leaves modeRef and the
\* score of the run before where they were.
THEOREM RecordIsOfSolo == Spec => []OnlySoloIsRecorded
<1>1. IInv => OnlySoloIsRecorded
  BY DEF IInv, ScreenInv
<1>2. QED
  BY <1>1, InvariantHolds, PTL

\* What the types say beyond the invariant.
ScreenTyped ==
    /\ scene \in {"menu", "room", "match", "results"}
    /\ mode \in Modes /\ modeRef \in OfflineModes
    /\ busy \in BOOLEAN /\ paused \in BOOLEAN
    /\ roomStatus \in Statuses
    /\ resultTimer \in BOOLEAN /\ leaveTimers \in Nat
    /\ score \in OfflineModes \cup {None} /\ best \in OfflineModes \cup {None}

LEMMA ScreenStaysTyped ==
  ASSUME IInv, ScreenTyped, [Next]_vars
  PROVE  ScreenTyped'
<1>1. flows # <<>> => Head(flows) \in Flow
  BY FirstFlow DEF IInv
<1>2. ASSUME NEW kind \in OnlineKinds \cup OfflineModes, Start(kind)
      PROVE  ScreenTyped'
  BY <1>2 DEF Start, Begin, ScreenTyped, records
<1>3. CASE Quit
  BY <1>3 DEF Quit, ReturnToMenu, ScreenTyped, Statuses, records
<1>4. CASE CancelSearch
  <2>1. leaveTimers' \in Nat
    BY <1>4 DEF CancelSearch, ScreenTyped
  <2>2. QED
    BY <1>4, <2>1 DEF CancelSearch, ReturnToMenu, ScreenTyped, Statuses, records, ui
<1>5. CASE Pause
  BY <1>5 DEF Pause, ScreenTyped, timers, records
<1>6. CASE GoOnOffline
  BY <1>1, <1>6 DEF GoOnOffline, Flow, ScreenTyped, Modes, Statuses, timers
<1>7. CASE GoOnStale \/ GoOnFails
  BY <1>7 DEF GoOnStale, GoOnFails, ScreenTyped, Modes, Statuses, timers, records
<1>8. CASE GoOnOnline
  BY <1>8 DEF GoOnOnline, ScreenTyped, Modes, Statuses, timers, records
<1>9. CASE ResultTimer
  BY <1>9 DEF ResultTimer, Recorded, Saved, ScreenTyped
<1>10. CASE LeaveTimer
  <2>1. leaveTimers' \in Nat
    BY <1>10 DEF LeaveTimer, ScreenTyped
  <2>2. QED
    BY <1>10, <2>1 DEF LeaveTimer, ScreenTyped, records
<1>11. CASE Score
  BY <1>11 DEF Score, ScreenTyped, ui, timers
<1>12. CASE MatchEnds
  BY <1>12 DEF MatchEnds, ScreenTyped, ui, records
<1>13. ASSUME NEW g \in Generations, Deliver(g)
       PROVE  ScreenTyped'
  <2>1. CASE Head(inbox[g]) = "cancelled"
    BY <1>13, <2>1 DEF Deliver, ReturnToMenu, ScreenTyped, Statuses
  <2>2. CASE Head(inbox[g]) # "cancelled"
    <3>1. /\ UNCHANGED <<score, mode, modeRef, paused, leaveTimers>>
          /\ best' = best \/ best' = score
      BY <1>13, <2>2 DEF Deliver, Saved
    <3>2. \/ Handle(g, Head(inbox[g]))
          \/ UNCHANGED <<scene, busy, roomStatus, resultTimer>>
      BY <1>13, <2>2 DEF Deliver
    <3>3. /\ scene' \in {scene, "match", "menu"} /\ busy' \in {busy, FALSE}
          /\ roomStatus' \in Statuses /\ resultTimer' \in BOOLEAN
      BY <3>2 DEF Handle, ScreenTyped, Statuses
    <3>4. QED
      BY <3>1, <3>3 DEF ScreenTyped
  <2>3. QED
    BY <2>1, <2>2
<1>14. ASSUME NEW g \in Generations, Connects(g) \/ Drops(g)
       PROVE  ScreenTyped'
  BY <1>14 DEF Connects, Drops, ScreenTyped, Statuses, ui, timers, records
<1>15. ASSUME NEW g \in Generations, NEW last \in BOOLEAN, ConnectError(g, last)
       PROVE  ScreenTyped'
  BY <1>15 DEF ConnectError, ScreenTyped, Statuses, timers, records
<1>16. ASSUME NEW g \in Generations, Answers(g) \/ ServerMoves(g)
       PROVE  ScreenTyped'
  <2>1. CASE ServerMoves(g)
    BY <2>1 DEF ServerMoves, Paired, Ticked, PeerLeaves, CloseRoom, Sends, ScreenTyped,
         ui, timers, records
  <2>2. CASE Answers(g)
    <3>1. outbox[g] \in Seq(OnlineKinds \cup {"cancel"}) /\ outbox[g] # <<>>
      BY <2>2 DEF Answers, IInv, NetInv, NetTyped
    <3>2. Head(outbox[g]) \in {"create", "join", "quick", "cancel"}
      BY <3>1 DEF OnlineKinds
    <3>3. UNCHANGED <<ui, timers, records>>
      BY <2>2, <3>2 DEF Answers, Sends
    <3>4. QED
      BY <3>3 DEF ScreenTyped, ui, timers, records
  <2>3. QED
    BY <1>16, <2>1, <2>2
<1>17. CASE UNCHANGED vars
  BY <1>17 DEF vars, ScreenTyped, ui, timers, records
<1>18. QED
  BY <1>2, <1>3, <1>4, <1>5, <1>6, <1>7, <1>8, <1>9, <1>10, <1>11, <1>12, <1>13, <1>14,
     <1>15, <1>16, <1>17 DEF Next, ServerMoves

\* App.tsx: scene, modes, connections and timers keep their kinds, flows and messages
\* are of the kinds the code has, and match and record are of a mode or none.
THEOREM ClientIsTyped == Spec => []TypeOK
<1>1. Init => IInv /\ ScreenTyped
  <2> SUFFICES ASSUME Init PROVE ScreenTyped
    BY InitKeeps
  <2>1. /\ scene = "menu" /\ mode = "local" /\ modeRef = "local" /\ roomStatus = "idle"
        /\ leaveTimers = 0 /\ score = None /\ best = None
    BY DEF Init
  <2>2. busy \in BOOLEAN /\ paused \in BOOLEAN /\ resultTimer \in BOOLEAN
    BY DEF Init
  <2>3. QED
    BY <2>1, <2>2, ClientAssumption DEF ScreenTyped, Modes, Statuses
<1>2. IInv /\ ScreenTyped /\ [Next]_vars => (IInv /\ ScreenTyped)'
  BY NextKeeps, ScreenStaysTyped
<1>3. IInv /\ ScreenTyped => TypeOK
  BY DEF IInv, ScreenTyped, FlowsInOrder, Flow, SocketOfThisFlow, NetInv, NetTyped, ScreenInv,
         MatchTyped, TypeOK
<1>4. QED
  BY <1>1, <1>2, <1>3, PTL DEF Spec
=============================================================================
