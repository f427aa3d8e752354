----------------------------- MODULE MCSnapshots -----------------------------
EXTENDS Snapshots

MCStates ==
    {[board |-> <<a, 0, 0, 0>>, queue |-> q, alive |-> a] : a \in {0, 1}, q \in {<<>>, <<1>>}}
=============================================================================
