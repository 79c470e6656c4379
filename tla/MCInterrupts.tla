---------------------------- MODULE MCInterrupts ----------------------------
(***************************************************************************)
(* An instance of Interrupts for TLC.  In the chain P -> T -> U the        *)
(* interrupt a starts at T and has U too, b starts at U and may borrow it  *)
(* from a.                                                                 *)
(***************************************************************************)
EXTENDS Interrupts
MCComps == {"P", "T", "U"}
ChainPred == [c \in MCComps |-> CASE c = "P" -> {} [] c = "T" -> {"P"} [] c = "U" -> {"T"}]
ChainScope == [s \in {"main", "a", "b"} |->
                 CASE s = "main" -> {"P", "T", "U"} [] s = "a" -> {"T", "U"} [] s = "b" -> {"U"}]
MCTarget == [k \in {"a", "b"} |-> IF k = "a" THEN "T" ELSE "U"]
MCHome == [j \in {"p1", "t1", "t2", "u1"} |->
             CASE j = "p1" -> "P" [] j \in {"t1", "t2"} -> "T" [] j = "u1" -> "U"]
MCFeeds == [j \in {"p1", "t1", "t2", "u1"} |-> IF j = "p1" THEN {"t2"} ELSE {}]
=============================================================================
