--------------------------- MODULE MCJobCreation ---------------------------
(* Three creators that meet on one node.                                   *)
EXTENDS JobCreation

CONSTANTS c1, c2, c3, k1, k2

Auto(k) == [kind |-> "auto", keys |-> <<k>>, address |-> 0]
Explicit(k, a) == [kind |-> "explicit", keys |-> <<k>>, address |-> a]
Batch(ks) == [kind |-> "batch", keys |-> ks, address |-> 0]
Default(n) == [kind |-> "default", keys |-> <<>>, address |-> n]

Meeting(x, y, z) == [c \in Creators |-> CASE c = c1 -> x [] c = c2 -> y [] OTHER -> z]
MCScenarios == {
    Meeting(Auto(k1), Auto(k1), Batch(<<k1, NoKey>>)),
    Meeting(Auto(k1), Explicit(k1, 2), Batch(<<k1>>)),
    Meeting(Auto(NoKey), Explicit(NoKey, 2), Default(1)),
    Meeting(Batch(<<k1, k2>>), Batch(<<k2>>), Default(1))}
=============================================================================
