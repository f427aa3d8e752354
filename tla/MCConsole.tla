----------------------------- MODULE MCConsole -----------------------------
(* Three databases: a new one; one player with as many failed sign-ins as    *)
(* are tolerated; an admin, whose hash has weaker settings, and an owner.    *)
(* One address, two sign-ins at once.  bob only uses sessions he has.        *)
EXTENDS Console, TLC

CONSTANTS w1, w2, src, hello

MCNormalize == [s \in {"Amy", "Cyd"} |-> IF s = "Amy" THEN "amy" ELSE "cyd"]

Row(n, weaker, role) ==
    [name |-> n, secret |-> w1, weaker |-> weaker, role |-> role, banned |-> FALSE]
NoRows == [a \in {} |-> 0]
OneFailure(n) == [a \in {[name |-> n, source |-> src, age |-> 0, what |-> "failed"]} |-> 1]
MCDatabases == {
    [players |-> <<>>, attempts |-> NoRows],
    [players |-> <<Row("cyd", FALSE, "player")>>, attempts |-> OneFailure("cyd")],
    [players |-> <<Row("amy", TRUE, "admin"), Row("bob", FALSE, "owner")>>, attempts |-> NoRows]}

Symmetry == Permutations(Requests) \cup Permutations(Tokens) \cup Permutations(Sockets)
=============================================================================
