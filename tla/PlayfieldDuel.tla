--------------------------- MODULE PlayfieldDuel ---------------------------
(* Duel is about real boards: whatever happens on a board in one tick is one *)
(* of the plays Duel chooses from, with the same effect on the exchange.     *)
EXTENDS Playfield

\* The player as Duel sees it; its histories of cancelled rows are not kept here.
Exchange ==
    [alive |-> player.alive, active |-> InPlay(player), spawnTicks |-> player.spawnTicks,
     combo |-> player.combo, backToBack |-> player.backToBack,
     attackSent |-> player.attackSent,
     garbageQueue |-> [i \in 1..Len(player.garbageQueue) |->
                          [amount |-> player.garbageQueue[i].amount,
                           readyAtFrame |-> player.garbageQueue[i].readyAtFrame]],
     landed |-> player.landed, cancelled |-> 0, absorbed |-> 0]

D == INSTANCE Duel WITH CountdownTicks <- 0, match <- player,
                        Clears <- {c \in [lines : 1..4, tspin : BOOLEAN, mini : BOOLEAN,
                                          perfect : BOOLEAN] : c.mini => c.tspin}

Forget(p) == [p EXCEPT !.cancelled = 0, !.absorbed = 0]

\* The play a tick amounts to; of a clear, how the piece was spun is still open.
EndOf == IF ~player'.alive THEN "topout" ELSE IF InPlay(player') THEN "none" ELSE "lock"
PlayOf(spin) ==
    LET lines == player'.linesCleared - player.linesCleared
    IN  [end |-> EndOf,
         clear |-> IF lines = 0 THEN D!NoClear
                   ELSE [lines |-> lines, tspin |-> spin # "none", mini |-> spin = "mini",
                         perfect |-> player'.board = {}]]

\* Every tick of a board is a play of Duel followed by the delivery of what
\* arrived: the rules Duel is checked for are those of the game with boards.
TicksArePlays ==
    [][\E spin \in {"none", "full", "mini"}, amount \in Attacks \cup {0} :
          LET play == PlayOf(spin)
          IN  /\ play \in D!Plays
              /\ Exchange' = Forget(D!Deliver(D!StepPlayer(Exchange, play, frame).player,
                                              amount, frame))]_vars

=============================================================================
