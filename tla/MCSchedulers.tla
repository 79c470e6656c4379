---------------------------- MODULE MCSchedulers ----------------------------
(***************************************************************************)
(* An instance of Schedulers for TLC.  The component {a, b} is made by an  *)
(* autostart edge and waits within itself; d comes before it; in {c, e} a  *)
(* live c has a peer e that waits for it.  a, b and c run on the API       *)
(* runner.                                                                 *)
(***************************************************************************)
EXTENDS Schedulers
MCNodes == {"a", "b", "c", "d", "e"}
MCEdges == {<<"a", "b">>, <<"c", "c">>, <<"c", "e">>, <<"d", "a">>}
MCAuto == {<<"a", "b">>, <<"c", "e">>}
MCWaitFor == [n \in MCNodes |-> CASE n = "a" -> {"b"} [] n = "b" -> {"a"} [] n = "e" -> {"c"}
                                [] OTHER -> {}]
MCRank == [n \in MCNodes |-> CASE n = "a" -> 1 [] n = "b" -> 2 [] n = "c" -> 3 [] n = "d" -> 4
                             [] n = "e" -> 5]
MCLimit == [n \in {"a", "b", "c"} |-> IF n = "c" THEN 3 ELSE 2]
MCJobs == {"a1", "a2", "b1", "c1", "c2", "d1", "d2", "e1"}
MCHome == [j \in MCJobs |-> CASE j \in {"a1", "a2"} -> "a" [] j = "b1" -> "b"
                             [] j \in {"c1", "c2"} -> "c" [] j \in {"d1", "d2"} -> "d"
                             [] j = "e1" -> "e"]
MCProduces == [j \in MCJobs |-> CASE j = "d1" -> {"a1"} [] j = "a1" -> {"b1"} [] j = "c1" -> {"c2"}
                                 [] OTHER -> {}]
Ask(S, after, before, resolver, mayPause) ==
    [queued |-> S, after |-> after, before |-> before, resolver |-> resolver, paused |-> mayPause]
MCRequests ==
    {Ask({"d1", "a2"}, {}, {}, FALSE, {}), Ask({"d1", "d2"}, {}, {{"a", "b"}}, FALSE, {}),
     Ask({"a2", "b1"}, {}, {}, FALSE, {}), Ask({"a2", "b1"}, {}, {}, TRUE, {}),
     Ask({"c1"}, {{"c", "e"}}, {}, FALSE, {}), Ask({"c1", "e1"}, {}, {}, FALSE, {{"a", "b"}})}
=============================================================================
