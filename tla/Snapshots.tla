----------------------------- MODULE Snapshots -----------------------------
(***************************************************************************)
(* How a client comes to see the match: broadcast and match:resync of      *)
(* packages/server/src/server.ts, SnapshotStream and the match:update      *)
(* handler of the client (game/online.ts, App.tsx).                        *)
(*                                                                         *)
(* The room is one whose two seats are taken.  A socket's messages arrive  *)
(* in order and none is lost while it lives (a lost connection gives up    *)
(* the seat: see Rooms); what a client may meet is a frame it cannot       *)
(* decode.  The states the match goes through are any of States.           *)
(***************************************************************************)
EXTENDS Delta

CONSTANTS
    Sockets,      \* the sockets in the room's seats
    States,       \* states of the match: board, queue, alive
    Cells,        \* cells of a board
    MaxInFlight,  \* messages on their way to and from a socket at once (a bound)
    MaxCorrupted  \* frames that arrive corrupted (a bound)

ASSUME SnapshotsAssumption ==
    /\ Cells \in Nat \ {0}
    /\ MaxInFlight \in Nat \ {0} /\ MaxCorrupted \in Nat
    /\ States \subseteq [board : [1..Cells -> Nat], queue : Seq(Nat), alive : {0, 1}]

VARIABLES
    state,      \* room.state
    finished,   \* its status is 'finished': no tick comes any more
    baselines,  \* room.baselines: what a socket is believed to hold, or <<>>
    needFull,   \* room.needFull
    updates,    \* match:update messages on their way, with the state they stand for
    resyncs,    \* match:resync messages on their way
    baseline,   \* SnapshotStream.baseline of each client, or <<>>
    shown,      \* the state on its screen, or Nothing
    meant,      \* the state the server was in when it sent what is on the screen
    corrupted

vars == <<state, finished, baselines, needFull, updates, resyncs, baseline, shown, meant, corrupted>>

Nothing == [board |-> <<>>, queue |-> <<>>, alive |-> 0]
Garbled == [full |-> FALSE, body |-> <<>>]
Snapshot == {Serialize(s) : s \in States}
Baseline == Snapshot \cup {<<>>}
Frame == [full : BOOLEAN, body : Seq(Nat)]
Update == [frame : Frame, full : BOOLEAN, of : States]

TypeOK ==
    /\ state \in States /\ finished \in BOOLEAN
    /\ baselines \in [Sockets -> Baseline]
    /\ needFull \subseteq Sockets
    /\ updates \in [Sockets -> Seq(Update)]
    /\ resyncs \in [Sockets -> 0..MaxInFlight]
    /\ \A c \in Sockets : Len(updates[c]) + resyncs[c] <= MaxInFlight
    /\ baseline \in [Sockets -> Baseline]
    /\ shown \in [Sockets -> States \cup {Nothing}]
    /\ meant \in [Sockets -> States \cup {Nothing}]
    /\ corrupted \in 0..MaxCorrupted

\* newRoom and seatRoom
Init ==
    /\ state \in States /\ finished = FALSE
    /\ baselines = [c \in Sockets |-> <<>>]
    /\ needFull = Sockets
    /\ updates = [c \in Sockets |-> <<>>]
    /\ resyncs = [c \in Sockets |-> 0]
    /\ baseline = [c \in Sockets |-> <<>>]
    /\ shown = [c \in Sockets |-> Nothing]
    /\ meant = [c \in Sockets |-> Nothing]
    /\ corrupted = 0

-----------------------------------------------------------------------------
(* The server *)

\* The frame broadcast makes for a socket.  A diff made for one socket also
\* goes to another with the same baseline, which changes nothing.
BaseFor(c) == IF c \in needFull THEN <<>> ELSE baselines[c]

UpdateFor(c, next) ==
    [frame |-> SnapshotFrame(BaseFor(c), Serialize(next)), full |-> BaseFor(c) = <<>>, of |-> next]

\* One step of the match and its broadcast.  ends: the step finishes the match.
Tick(next, ends) ==
    /\ ~finished
    /\ \A c \in Sockets : Len(updates[c]) + resyncs[c] < MaxInFlight
    /\ state' = next
    /\ finished' = ends
    /\ updates' = [c \in Sockets |-> Append(updates[c], UpdateFor(c, next))]
    /\ baselines' = [c \in Sockets |-> Serialize(next)]
    /\ needFull' = {}
    /\ UNCHANGED <<resyncs, baseline, shown, meant, corrupted>>

\* MUTANT: only the flag is cleared, so that the next frame is a diff again.
ForgetsToAsk(c) ==
    /\ resyncs[c] > 0
    /\ resyncs' = [resyncs EXCEPT ![c] = @ - 1]
    /\ needFull' = needFull \ {c}
    /\ UNCHANGED <<state, finished, baselines, updates, baseline, shown, meant, corrupted>>

\* match:resync
Resync(c) ==
    /\ resyncs[c] > 0
    /\ resyncs' = [resyncs EXCEPT ![c] = @ - 1]
    /\ baselines' = [baselines EXCEPT ![c] = <<>>]
    /\ needFull' = needFull \cup {c}
    /\ UNCHANGED <<state, finished, updates, baseline, shown, meant, corrupted>>

-----------------------------------------------------------------------------
(* The client *)

\* MUTANT: a frame that fails leaves the baseline as it is.
BaselineKept(c, decoded) == IF decoded = Failed THEN baseline[c] ELSE decoded

\* SnapshotStream.apply: what the stream holds after a frame.
BaselineAfter(c, decoded) == IF decoded = Failed THEN <<>> ELSE decoded

DecodedBy(c, update) ==
    IF update.frame = Garbled THEN Failed
    ELSE DecodeFrame(IF update.full THEN <<>> ELSE baseline[c], update.frame)

\* match:update: what cannot be applied is answered with match:resync.
Apply(c) ==
    /\ updates[c] # <<>>
    /\ updates' = [updates EXCEPT ![c] = Tail(@)]
    /\ \E decoded \in {DecodedBy(c, Head(updates[c]))} :
          /\ baseline' = [baseline EXCEPT ![c] = BaselineAfter(c, decoded)]
          /\ \/ /\ decoded = Failed
                /\ resyncs' = [resyncs EXCEPT ![c] = @ + 1]
                /\ UNCHANGED <<shown, meant>>
             \/ /\ decoded # Failed
                /\ shown' = [shown EXCEPT ![c] = Deserialize(decoded, Cells)]
                /\ meant' = [meant EXCEPT ![c] = Head(updates[c]).of]
                /\ UNCHANGED resyncs
    /\ UNCHANGED <<state, finished, baselines, needFull, corrupted>>

\* A frame is damaged on its way, so that the decoder refuses it.
Corrupt(c) ==
    /\ corrupted < MaxCorrupted
    /\ corrupted' = corrupted + 1
    /\ updates[c] # <<>> /\ Head(updates[c]).frame # Garbled
    /\ updates' = [updates EXCEPT ![c][1].frame = Garbled]
    /\ UNCHANGED <<state, finished, baselines, needFull, resyncs, baseline, shown, meant>>

-----------------------------------------------------------------------------
Next ==
    \/ \E next \in States, ends \in BOOLEAN : Tick(next, ends)
    \/ \E c \in Sockets : Resync(c) \/ Apply(c) \/ Corrupt(c)

Spec == Init /\ [][Next]_vars

\* The server's pump goes on and the connection delivers.
FairSpec ==
    /\ Spec
    /\ WF_vars(\E next \in States : Tick(next, FALSE))
    /\ \A c \in Sockets : WF_vars(Resync(c)) /\ WF_vars(Apply(c))

-----------------------------------------------------------------------------
(* Properties *)

\* What a client shows is the state the server meant when it sent it, byte for
\* byte: a diff is only ever applied to the snapshot it was made against,
\* whatever resyncs, full frames and refused frames are on their way.
ShowsWhatTheServerMeant == shown = meant

\* A client that has lost its baseline gets one again, unless the match ends
\* first.
ViewHeals ==
    \A c \in Sockets : shown[c] # Nothing /\ baseline[c] = <<>> ~> baseline[c] # <<>> \/ finished
=============================================================================
