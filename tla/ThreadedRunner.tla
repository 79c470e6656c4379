--------------------------- MODULE ThreadedRunner ---------------------------
(***************************************************************************)
(* ThreadedRunner._run_adaptive (runners/threaded.py): worker threads that *)
(* pull the jobs of one node from a shared lazy source, and a manager that *)
(* follows the live limit of "mwf threads" by starting workers and by      *)
(* letting surplus ones retire between two jobs.                           *)
(*                                                                         *)
(* Two locks are at work: "condition" over the worker table, the limit and *)
(* the first error, and "source_condition" over the source.  A step is one *)
(* critical section of either, a pull of the source, or a job.             *)
(*                                                                         *)
(* An operator named Bug... is not part of the specification: it is the    *)
(* definition after it with a plausible mistake, for mutation runs.        *)
(***************************************************************************)
EXTENDS Integers, Sequences, FiniteSets

CONSTANTS
    Jobs,        \* the jobs of the source, a sequence without repetition
    Threads,     \* worker threads; one that has ended stands for a new one
    Limits,      \* values "mwf threads" can give to the node
    MaxChanges,  \* bound on the changes of the limit
    PullSize,    \* jobs of one pull of a source (64); a list gives one at a time
    Burst,       \* INITIAL_WORKER_BURST
    Kinds,       \* what may be run: a list (run_jobs), a snapshot source, or a
                 \* live source with wait_for_change, fed while it runs
    Failing,     \* jobs whose run_one may raise
    LoadFails,   \* whether a pull may raise
    LimitFails   \* whether limit_provider may raise

ASSUME RunnerAssumption ==
    /\ IsFiniteSet(Threads) /\ Limits \subseteq 1 .. Cardinality(Threads)
    /\ MaxChanges \in Nat /\ PullSize \in Nat \ {0} /\ Burst \in Nat \ {0}
    /\ Jobs \in Seq({Jobs[i] : i \in DOMAIN Jobs})
    /\ \A i, k \in DOMAIN Jobs : Jobs[i] = Jobs[k] => i = k
    /\ {LoadFails, LimitFails} \subseteq BOOLEAN /\ Kinds \subseteq {"list", "snapshot", "live"}

VARIABLES
    limit,      \* the stored limit
    changes,    \* how often it was changed
    desired,    \* the limit as the manager last read it
    kind,       \* what is run
    queued,     \* jobs the source can give: Jobs[1 .. queued] exist
    cursor,     \* jobs pulled from the source
    closed,     \* stop_event of a live source: open, quiet or abandoned
    loading,    \* source_loading
    buffer,     \* source_buffer
    exhausted,  \* source_exhausted
    taken,      \* next_item_index
    stop,
    failed,     \* first_error is not None
    alive,      \* the keys of workers
    pc,         \* where a worker is in worker_loop and take_item
    hand,       \* the batch a worker has pulled
    item,       \* the (index, job) pair a worker runs
    results,    \* set of (index, job)
    mgr         \* the manager: managing, returned, failed or raised

limitVars == <<limit, changes, desired>>
sourceVars == <<kind, queued, cursor, closed, loading, buffer, exhausted, taken>>
workerVars == <<alive, pc, hand, item>>
vars == <<limitVars, sourceVars, stop, failed, workerVars, results, mgr>>

Positions == 1 .. Len(Jobs)
Pairs == [index : Positions, job : {Jobs[i] : i \in Positions}]
Nothing == [index |-> 0, job |-> 0]

TypeOK ==
    /\ limit \in Limits /\ desired \in Limits /\ changes \in 0 .. MaxChanges
    /\ kind \in Kinds /\ queued \in 0 .. Len(Jobs) /\ cursor \in 0 .. queued /\ taken \in 0 .. cursor
    /\ closed \in {"open", "quiet", "abandoned"} /\ loading \in BOOLEAN /\ exhausted \in BOOLEAN
    /\ stop \in BOOLEAN /\ failed \in BOOLEAN
    /\ buffer \in Seq({Jobs[i] : i \in Positions})
    /\ alive \subseteq Threads
    /\ pc \in [Threads -> {"check", "take", "load", "deliver", "failing", "run", "record",
                        "exit", "gone"}]
    /\ hand \in [Threads -> Seq({Jobs[i] : i \in Positions})]
    /\ item \in [Threads -> Pairs \cup {Nothing}]
    /\ results \subseteq Pairs
    /\ mgr \in {"managing", "returned", "failed", "raised"}

Least(S) == CHOOSE n \in S : \A m \in S : n <= m
Known == kind = "list"
Live == kind = "live"
Unused == {t \in Threads : pc[t] = "gone"}

(* The first workers are started before any of them can enter condition.   *)
Init ==
    /\ limit \in Limits /\ desired = limit /\ changes = 0
    /\ kind \in Kinds /\ queued = (IF Live THEN 0 ELSE Len(Jobs)) /\ cursor = 0 /\ closed = "open"
    /\ loading = FALSE /\ buffer = <<>> /\ exhausted = FALSE /\ taken = 0
    /\ stop = FALSE /\ failed = FALSE
    /\ LET first == Least({desired, Burst} \cup (IF Known THEN {Len(Jobs)} ELSE {}))
       IN  \E S \in SUBSET Threads : Cardinality(S) = first /\ alive = S
    /\ pc = [t \in Threads |-> IF t \in alive THEN "check" ELSE "gone"]
    /\ hand = [t \in Threads |-> <<>>] /\ item = [t \in Threads |-> Nothing]
    /\ results = {} /\ mgr = "managing"

(***************************************************************************)
(* Outside the runner: mwf threads, the siblings that feed a live source,  *)
(* and the component scheduler that stops it at quiescence.                *)
(***************************************************************************)
SetLimit ==
    /\ changes < MaxChanges /\ mgr = "managing"
    /\ limit' \in Limits \ {limit} /\ changes' = changes + 1
    /\ UNCHANGED <<desired, sourceVars, stop, failed, workerVars, results, mgr>>
Feed ==
    /\ Live /\ closed = "open" /\ queued < Len(Jobs) /\ queued' = queued + 1
    /\ UNCHANGED <<limitVars, kind, cursor, closed, loading, buffer, exhausted, taken,
                   stop, failed, workerVars, results, mgr>>
SourceCloses(why) ==
    /\ Live /\ closed = "open" /\ closed' = why
    /\ UNCHANGED <<limitVars, kind, queued, cursor, loading, buffer, exhausted, taken,
                   stop, failed, workerVars, results, mgr>>

(* No row is queued or running: a job a worker has taken and not yet run   *)
(* is still a queued row.                                                  *)
Quiescent == queued = Len(Jobs) /\ taken = queued /\ \A t \in Threads : pc[t] # "run"
QuietSource == Quiescent /\ SourceCloses("quiet")

(* A sibling of the component failed. *)
AbandonSource == SourceCloses("abandoned")

(***************************************************************************)
(* Workers.                                                                *)
(***************************************************************************)
Goto(t, place) == pc' = [pc EXCEPT ![t] = place]

(* Between two jobs, under condition: a surplus worker retires. *)
Surplus == Cardinality(alive) > desired
Check(t) ==
    /\ pc[t] = "check"
    /\ Goto(t, IF stop \/ Surplus THEN "exit" ELSE "take")
    /\ UNCHANGED <<limitVars, sourceVars, stop, failed, alive, hand, item, results, mgr>>

(* take_item under source_condition: a buffered job, or the end. *)
PopLeft == Tail(buffer)
TakeItem(t) ==
    /\ pc[t] = "take" /\ ~ stop /\ buffer # <<>>
    /\ buffer' = PopLeft /\ taken' = taken + 1
    /\ item' = [item EXCEPT ![t] = [index |-> taken + 1, job |-> Head(buffer)]]
    /\ Goto(t, "run")
    /\ UNCHANGED <<limitVars, kind, queued, cursor, closed, loading, exhausted,
                   stop, failed, alive, hand, results, mgr>>
TakeNothing(t) ==
    /\ pc[t] = "take" /\ (stop \/ (buffer = <<>> /\ exhausted))
    /\ Goto(t, "exit")
    /\ UNCHANGED <<limitVars, sourceVars, stop, failed, alive, hand, item, results, mgr>>

(* One worker at a time loads the next batch, outside the lock. *)
MayLoad == buffer = <<>> /\ ~ exhausted /\ ~ loading
BugKeepsLoading == loading' = loading
ReleaseLoaders == loading' = FALSE
StartLoading(t) ==
    /\ pc[t] = "take" /\ ~ stop /\ MayLoad
    /\ loading' = TRUE /\ Goto(t, "load")
    /\ UNCHANGED <<limitVars, kind, queued, cursor, closed, buffer, exhausted, taken,
                   stop, failed, alive, hand, item, results, mgr>>
(* A live source gives nothing only when it was closed or the run stops,   *)
(* and then possibly less than it has.                                     *)
BugStopsAtEmpty == {Least({PullSize, queued - cursor})}
Pulled ==
    LET full == Least({IF Known THEN 1 ELSE PullSize, queued - cursor}) IN
    CASE ~ Live -> {full}
      [] Live /\ (stop \/ closed # "open") -> 0 .. full
      [] OTHER -> {full} \ {0}
Load(t) ==
    /\ pc[t] = "load"
    /\ \E n \in Pulled :
          /\ cursor' = cursor + n
          /\ hand' = [hand EXCEPT ![t] = SubSeq(Jobs, cursor + 1, cursor + n)]
    /\ Goto(t, "deliver")
    /\ UNCHANGED <<limitVars, kind, queued, closed, loading, buffer, exhausted, taken,
                   stop, failed, alive, item, results, mgr>>
Deliver(t) ==
    /\ pc[t] = "deliver" /\ ReleaseLoaders
    /\ buffer' = buffer \o hand[t] /\ hand' = [hand EXCEPT ![t] = <<>>]
    /\ exhausted' = (exhausted \/ hand[t] = <<>>)
    /\ Goto(t, IF buffer' # <<>> THEN "take" ELSE "exit")
    /\ UNCHANGED <<limitVars, kind, queued, cursor, closed, taken, stop, failed, alive, item, results, mgr>>

(* A pull that raises releases the other loaders, then reports the error.  *)
LoadRaises(t) ==
    /\ LoadFails /\ pc[t] = "load" /\ ReleaseLoaders /\ Goto(t, "failing")
    /\ UNCHANGED <<limitVars, kind, queued, cursor, closed, buffer, exhausted, taken,
                   stop, failed, alive, hand, item, results, mgr>>
ReportLoadError(t) ==
    /\ pc[t] = "failing" /\ failed' = TRUE /\ stop' = TRUE /\ Goto(t, "exit")
    /\ UNCHANGED <<limitVars, sourceVars, alive, hand, item, results, mgr>>

RunOne(t) ==
    /\ pc[t] = "run" /\ Goto(t, "record")
    /\ UNCHANGED <<limitVars, sourceVars, stop, failed, alive, hand, item, results, mgr>>
Record(t) ==
    /\ pc[t] = "record" /\ Goto(t, "check")
    /\ results' = results \cup {item[t]} /\ item' = [item EXCEPT ![t] = Nothing]
    /\ UNCHANGED <<limitVars, sourceVars, stop, failed, alive, hand, mgr>>
RunRaises(t) ==
    /\ pc[t] = "run" /\ item[t].job \in Failing
    /\ failed' = TRUE /\ stop' = TRUE /\ item' = [item EXCEPT ![t] = Nothing]
    /\ Goto(t, "exit")
    /\ UNCHANGED <<limitVars, sourceVars, alive, hand, results, mgr>>

(* The finally block: the thread leaves the worker table after its cleanup. *)
Exit(t) ==
    /\ pc[t] = "exit" /\ alive' = alive \ {t} /\ Goto(t, "gone")
    /\ UNCHANGED <<limitVars, sourceVars, stop, failed, hand, item, results, mgr>>

(***************************************************************************)
(* The manager, which holds condition except while it waits.               *)
(***************************************************************************)
Growth == IF alive = {} THEN 1 ELSE Cardinality(alive)
Wanted ==
    IF exhausted \/ Cardinality(alive) >= desired' THEN 0
    ELSE Least({desired' - Cardinality(alive), Growth}
               \cup (IF Known THEN {Len(Jobs) - taken} ELSE {}))
Manage ==
    /\ mgr = "managing" /\ ~ failed /\ desired' = limit
    /\ \E S \in SUBSET Unused :
          /\ Cardinality(S) = Wanted /\ alive' = alive \cup S
          /\ pc' = [t \in Threads |-> IF t \in S THEN "check" ELSE pc[t]]
    /\ UNCHANGED <<limit, changes, sourceVars, stop, failed, hand, item, results, mgr>>

(* The loop ends when no worker is left and nothing more is to come. *)
Over == alive = {} /\ (exhausted \/ failed)
Finish ==
    /\ mgr = "managing" /\ Over /\ mgr' = IF failed THEN "failed" ELSE "returned"
    /\ UNCHANGED <<limitVars, sourceVars, stop, failed, workerVars, results>>

(* effective_limit raises out of the loop. *)
LimitRaises ==
    /\ LimitFails /\ mgr = "managing" /\ ~ failed /\ mgr' = "raised"
    /\ UNCHANGED <<limitVars, sourceVars, stop, failed, workerVars, results>>

WorkerStep(t) ==
    \/ Check(t) \/ TakeItem(t) \/ TakeNothing(t) \/ StartLoading(t) \/ Load(t) \/ Deliver(t)
    \/ LoadRaises(t) \/ ReportLoadError(t) \/ RunOne(t) \/ Record(t) \/ RunRaises(t)
    \/ Exit(t)
Next ==
    \/ SetLimit \/ Feed \/ QuietSource \/ AbandonSource \/ Manage \/ Finish \/ LimitRaises
    \/ \E t \in Threads : WorkerStep(t)

Spec == Init /\ [][Next]_vars

(***************************************************************************)
(* Safety.                                                                 *)
(***************************************************************************)
(* The results are those of the jobs in the order of the source, whichever *)
(* worker loaded, took and ran them: "sorted(results)" is the source order *)
(* and no job is run twice.                                                *)
Holds(t) == pc[t] \in {"run", "record"}
InOrder ==
    /\ \A r \in results : r.job = Jobs[r.index]
    /\ \A t \in Threads : Holds(t) =>
          /\ item[t].job = Jobs[item[t].index] /\ item[t] \notin results
          /\ \A u \in Threads : Holds(u) /\ item[u] = item[t] => u = t

(* A run that returns has run every job of its source, although workers    *)
(* retire, exit and are started again all the time; only a sibling's       *)
(* failure, which abandons a live source, excuses the rest.                *)
ReturnedAll ==
    mgr = "returned" /\ closed # "abandoned" =>
        \A i \in Positions : [index |-> i, job |-> Jobs[i]] \in results

(* A run that returns, or raises the error of a job or of its source,      *)
(* leaves no worker behind.                                                *)
Joined == mgr \in {"returned", "failed"} => \A t \in Threads : pc[t] = "gone"

(* A run delivers: every job once, at its place, and no worker is left.    *)
Delivers == TypeOK /\ InOrder /\ ReturnedAll /\ Joined

(***************************************************************************)
(* Liveness: threads run, jobs end, the poll of the manager goes on, a     *)
(* live source is fed and is stopped at quiescence.                        *)
(***************************************************************************)
Fairness ==
    /\ \A t \in Threads : WF_vars(WorkerStep(t))
    /\ WF_vars(Manage) /\ WF_vars(Finish) /\ WF_vars(Feed) /\ WF_vars(QuietSource)
FairSpec == Spec /\ Fairness

(* A run ends. *)
RunEnds == <>(mgr # "managing")

(* Workers left behind by a manager that raised still end.                 *)
LeftoversEnd == mgr = "raised" ~> alive = {}

(* Whatever fails, the manager and its workers end.                        *)
ThreadsEnd == RunEnds /\ LeftoversEnd
=============================================================================
