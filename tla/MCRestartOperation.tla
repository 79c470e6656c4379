------------------------- MODULE MCRestartOperation -------------------------
(* Instances of RestartOperation for TLC: an operation and two recoveries  *)
(* beside attempts that go on, without and (one recovery less) with a file *)
(* fault; two operations over overlapping batches; one operation with two  *)
(* crashes and two faults.                                                 *)
EXTENDS RestartOperation, TLC
CONSTANTS o1, o2, r1, r2
Scene(actors, first, interfering, c, f) ==
    [actors |-> actors, first |-> first, interfering |-> interfering,
     crashes |-> c, faults |-> f]
MCScenarios == {
    Scene({o1, r1, r2}, {"running"}, TRUE, 1, 0),
    Scene({o1, r1}, {"running"}, TRUE, 1, 1),
    Scene({o1, o2, r1}, {"failed"}, FALSE, 1, 0),
    Scene({o1, r1}, {"failed"}, FALSE, 2, 2)}
=============================================================================
