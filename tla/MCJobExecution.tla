--------------------------- MODULE MCJobExecution ---------------------------
(* Instances of JobExecution for TLC.                                      *)
EXTENDS JobExecution, TLC

JobSymmetry == Permutations(Jobs)

(* What the run job_lifecycle explores.  Two jobs move together as long as *)
(* nobody is suspected and nothing is cancelled, through one restart of    *)
(* each; once one of them is done at its first attempt, under a session    *)
(* that runs the component, the other is followed through two restarts     *)
(* with a cancellation or a false suspicion.                               *)
NobodySuspected == \A s \in Sessions : alive[s] => fresh[s]
BothMove ==
    /\ cancels = 0 /\ NobodySuspected
    /\ issued <= 3 /\ \A j \in Jobs : row[j].gen <= 1
OneMoves ==
    /\ cancels = 0 \/ NobodySuspected
    /\ \E j \in Jobs :
          /\ row[j].gen = 0 /\ row[j].status = "done" /\ row[j].last = 1
          /\ owner[1].session \notin NodeCalls
          /\ \A s \in Sessions : ctl[s][j].pc \in {"idle", "done"}
Explored == BothMove \/ OneMoves
=============================================================================
