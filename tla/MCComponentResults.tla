-------------------------- MODULE MCComponentResults --------------------------
(* Two nodes whose graph is edited: b after a, a and b in one component, a *)
(* alone.                                                                  *)
EXTENDS ComponentResults

CONSTANTS a, b, ja, jb, x

AllShapes ==
    "split" :> [parts |-> {{a}, {b}}, edges |-> {<<a, b>>}] @@
    "joined" :> [parts |-> {{a, b}}, edges |-> {<<a, b>>, <<b, a>>}] @@
    "lone" :> [parts |-> {{a}}, edges |-> {}]
AllJobs == ja :> a @@ jb :> b @@ x :> a

Scene(first, cmds, late, to, d) ==
    [first |-> first, cmds |-> cmds, late |-> late, to |-> to,
     edits |-> IF to = {} THEN 0 ELSE 1, deaths |-> d]

(* Sessions 1 to 3 are main sessions or resets, session 4 an interrupt. *)
AllScenes == {
    Scene("split", <<"run", "run", "jobs", None>>, {}, {}, 0),
    Scene("split", <<"run", "jobs", "resume", None>>, {}, {}, 0),
    Scene("split", <<"jobs", "resume", None, None>>, {x}, {}, 1),
    Scene("split", <<"run", "resume", None, "run">>, {}, {}, 1),
    Scene("split", <<"run", "reset", None, "run">>, {x}, {}, 0),
    Scene("split", <<"run", "run", "reset", None>>, {}, {"joined", "lone"}, 0),
    Scene("joined", <<"run", "run", None, None>>, {x}, {"split"}, 1)}

ResetScenes == {Scene("split", <<"run", "run", None, None>>, {}, {"lone"}, 0)}
===============================================================================
