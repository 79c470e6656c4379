-------------------------- MODULE MCFileOperations --------------------------
(* Two operations of the node and one recovery, in the pairs of kinds that *)
(* can meet, and one operation with two recoveries.                        *)
EXTENDS FileOperations

CONSTANTS o1, o2, r1

Meeting(a, b, rs) == [kind |-> [o \in Ops |-> IF o = o1 THEN a ELSE b], crew |-> rs]
Pairs == {<<"membership", "input">>, <<"resume", "input">>, <<"input", "input">>, <<"clipboard", "preparation">>,
          <<"clipboard", "input">>, <<"recovery", "recovery">>}
MCScenarios == {Meeting(k[1], k[2], {r1}) : k \in Pairs}
               \cup {Meeting(k, "idle", Recoverers) : k \in {"membership", "input", "clipboard", "recovery"}}
=============================================================================
