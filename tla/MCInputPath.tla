----------------------------- MODULE MCInputPath -----------------------------
EXTENDS InputPath

\* Both key sets have a key for left.
MCActionOf == [k \in Keys |-> "left"]
MCBitOf == [a \in Actions |-> 0]
=============================================================================
