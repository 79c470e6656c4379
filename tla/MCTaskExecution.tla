--------------------------- MODULE MCTaskExecution ---------------------------
(***************************************************************************)
(* The instance of TaskExecution for TLC: two API jobs that meet one       *)
(* mishap, or one job with a deadline and a second attempt that meets      *)
(* several.                                                                *)
(***************************************************************************)
EXTENDS TaskExecution

RetryTimed == [j \in Jobs |-> IF j \in Timed THEN 2 ELSE 1]
Mishaps == [S \in Workloads |-> IF Cardinality(S) > 1 THEN 1 ELSE 2]
=============================================================================
