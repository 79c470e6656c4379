--------------------------- MODULE AtomicRestart ---------------------------
(***************************************************************************)
(* What a manual restart promises: it moves its whole selection to the     *)
(* next generation and takes its outputs away in one step, or does         *)
(* nothing.  Between restarts jobs are claimed, publish an output, become  *)
(* terminal, and are put back by a resume.                                 *)
(***************************************************************************)
EXTENDS Integers

CONSTANTS Jobs, MaxGeneration

VARIABLES
    row,   \* status and generation of every job
    out    \* the generation whose output a job has, or NoOutput

vars == <<row, out>>
NoOutput == -1
Terminal == {"done", "failed"}

Init ==
    /\ row \in [Jobs -> [status : {"queued", "running"} \cup Terminal, gen : {0}]]
    /\ out = [j \in Jobs |-> IF row[j].status \in Terminal THEN 0 ELSE NoOutput]

Requeued(T) ==
    /\ \A j \in T : row[j].gen < MaxGeneration
    /\ row' = [j \in Jobs |-> IF j \in T THEN [status |-> "queued", gen |-> row[j].gen + 1]
                              ELSE row[j]]
    /\ out' = [j \in Jobs |-> IF j \in T THEN NoOutput ELSE out[j]]

Restart(T) == T # {} /\ Requeued(T)
Resume(j) == row[j].status = "failed" /\ Requeued({j})
Claim(j) ==
    /\ row[j].status = "queued" /\ row' = [row EXCEPT ![j].status = "running"]
    /\ out' = out
Publish(j) ==
    /\ row[j].status = "running" /\ out' = [out EXCEPT ![j] = row[j].gen] /\ row' = row
Finish(j, status) ==
    /\ row[j].status = "running" /\ out[j] = row[j].gen
    /\ row' = [row EXCEPT ![j].status = status] /\ out' = out

Next ==
    \/ \E T \in SUBSET Jobs : Restart(T)
    \/ \E j \in Jobs : Resume(j) \/ Claim(j) \/ Publish(j) \/ \E s \in Terminal : Finish(j, s)
Spec == Init /\ [][Next]_vars
=============================================================================
