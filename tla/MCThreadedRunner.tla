-------------------------- MODULE MCThreadedRunner --------------------------
(* Instances of ThreadedRunner for TLC. *)
EXTENDS ThreadedRunner
CONSTANTS a, b
TwoJobs == <<a, b>>
=============================================================================
