------------------------------ MODULE Schedulers ------------------------------
(***************************************************************************)
(* The DAG scheduler (workflow/dag_scheduler.py) and the component         *)
(* scheduler (workflow/component_scheduler.py) of one session.             *)
(*                                                                         *)
(* The DAG loop runs execution units, the Hoeflein components of the graph *)
(* (topology.py), in its own threads.  The coordinator of a unit keeps a   *)
(* resident pump on every ordinary member of a live component, starts a    *)
(* finite pump for a waiting member when its peers have nothing to do, and *)
(* stops the unit when one snapshot of the rows shows it quiescent or      *)
(* deadlocked.  Pumps pull jobs from a cursor over the queue, and running  *)
(* jobs publish new jobs into their own unit and into later ones.          *)
(*                                                                         *)
(* A step is a transaction, one read of the database, a change of an Event *)
(* or of a Future, or one pass of a loop between two of those.             *)
(*                                                                         *)
(* An operator named Bug... is not part of the specification: it is the    *)
(* definition after it with a plausible mistake, for mutation runs.        *)
(***************************************************************************)
EXTENDS Integers, Sequences, FiniteSets

CONSTANTS
    Nodes,
    Edges,        \* the graph, a set of pairs of nodes
    AutoEdges,    \* autostart edges
    WaitFor,      \* node -> the peers it waits for; {} for a node that does not wait
    Resident,     \* nodes with a threaded or API runner
    Preclaiming,  \* API nodes, whose source claims each burst it pulls
    Rank,         \* node -> the place of its name in sorted order
    Limit,        \* API node -> requested_max_threads
    PumpSize,     \* jobs one controller pump serves (64)
    PumpCap,      \* pumps one node can use (12)
    Budget,       \* max(12, processors + 5)
    Jobs,
    Home,         \* job -> its node
    Produces,     \* job -> the jobs it publishes
    Requests,     \* what a session may be asked for: the jobs queued at the start, the
                  \* components of refuseafter and refuse, each a set with at most one,
                  \* whether it has a wait_deadlock_resolver, and the components an
                  \* interrupt of another session may pause
    Failing,      \* jobs whose task may raise
    Lost,         \* jobs whose terminal update may fail (EMFILE)
    Broken,       \* nodes whose source may fail to open
    MaxPauses     \* bound on the pauses an interrupt puts on a component

(***************************************************************************)
(* topology.py.                                                            *)
(***************************************************************************)
HoefleinGraph == Edges \cup {<<e[2], e[1]>> : e \in AutoEdges \cap Edges}
Closed(S) == \A e \in HoefleinGraph : e[1] \in S => e[2] \in S
Reaches(n, m) == \A S \in SUBSET Nodes : n \in S /\ Closed(S) => m \in S
ComponentFor(n) == {m \in Nodes : Reaches(n, m) /\ Reaches(m, n)}
Units == {ComponentFor(n) : n \in Nodes}
UnitOf == [n \in Nodes |-> ComponentFor(n)]
Cyclic(U) == Cardinality(U) > 1 \/ \E n \in U : <<n, n>> \in Edges
Parents == [U \in Units |-> {UnitOf[e[1]] : e \in {d \in Edges : d[2] \in U /\ d[1] \notin U}}]
UnitOrder ==
    CHOOSE q \in [1 .. Cardinality(Units) -> Units] :
        \A i, k \in 1 .. Cardinality(Units) :
            /\ i # k => q[i] # q[k]
            /\ q[i] \in Parents[q[k]] => i < k

JobsOf(U) == {j \in Jobs : Home[j] \in U}
LiveNodes(U) == IF Cyclic(U) THEN {n \in U : n \in Resident /\ WaitFor[n] = {}} ELSE {}
IsLive(n) == n \in LiveNodes(UnitOf[n])

ASSUME GraphAssumption ==
    /\ IsFiniteSet(Nodes) /\ IsFiniteSet(Jobs)
    /\ AutoEdges \subseteq Edges /\ Edges \subseteq Nodes \X Nodes
    /\ Preclaiming \subseteq Resident /\ Resident \subseteq Nodes
    /\ Home \in [Jobs -> Nodes]
    /\ Requests \subseteq [queued : SUBSET Jobs, after : SUBSET Units, before : SUBSET Units,
                      resolver : BOOLEAN, paused : SUBSET Units]
    /\ \A j \in Jobs : \A k \in Produces[j] :
          UnitOf[Home[j]] = UnitOf[Home[k]] \/ UnitOf[Home[j]] \in Parents[UnitOf[Home[k]]]
    /\ \A n \in Nodes : WaitFor[n] \subseteq UnitOf[n] \ {n}    \* validate_waiting_configuration
    /\ {PumpSize, PumpCap, Budget} \subseteq Nat \ {0} /\ MaxPauses \in Nat
    /\ Limit \in [Preclaiming -> Nat] /\ Rank \in [Nodes -> Nat]

VARIABLES
    request,
    row,      \* job -> its status in the database
    place,    \* job -> where a pump of this process has it
    passed,   \* jobs the cursor of the current pump of their node is past
    pump,     \* node -> its pump and the Future of it
    life,     \* unit -> lifecycle of the component
    coord,    \* unit -> where its coordinator is
    seen,     \* unit -> its last snapshot of the rows
    stop,     \* unit -> stop_event
    why,      \* unit -> why its coordinator left the loop
    outcome,  \* unit -> result of its Future
    dag,      \* where the DAG loop is
    scan,     \* units of this pass whose readiness is still to be read
    ready,
    flight,   \* in_flight
    stopped,  \* admission_stopped
    share,    \* API node -> pumps allocated to it (future_api_pumps)
    paused,   \* units an interrupt has paused
    pauses

jobVars == <<row, place, passed>>
unitVars == <<coord, seen, stop, why, outcome>>
dagVars == <<dag, scan, ready, flight, stopped, share>>
pauseVars == <<request, paused, pauses>>
vars == <<jobVars, pump, life, unitVars, dagVars, pauseVars>>

Snapshots == [queued : SUBSET Nodes, running : SUBSET Nodes, failed : SUBSET Nodes]

TypeOK ==
    /\ request \in Requests
    /\ row \in [Jobs -> {"absent", "queued", "running", "done", "failed"}]
    /\ place \in [Jobs -> {"none", "taken", "cleared", "running", "published", "failing"}]
    /\ passed \subseteq Jobs
    /\ pump \in [Nodes -> {"none", "starting", "ready", "open", "unwinding", "returned", "raised"}]
    /\ life \in [Units -> {"queued", "running", "done"}]
    /\ coord \in [Units -> {"idle", "begin", "first", "attach", "reap", "observe", "decide",
                            "join", "finish", "ended"}]
    /\ seen \in [Units -> Snapshots]
    /\ stop \in [Units -> BOOLEAN]
    /\ why \in [Units -> {"none", "quiet", "deadlock", "error"}]
    /\ outcome \in [Units -> {"none", "ok", "error", "paused"}]
    /\ dag \in {"boundary", "scan", "launch", "wait", "drain", "returned", "raised"}
    /\ scan \in 0 .. Cardinality(Units) /\ ready \subseteq Units /\ flight \subseteq Units
    /\ stopped \in BOOLEAN
    /\ share \in [Preclaiming -> 0 .. PumpCap]
    /\ paused \subseteq Units /\ pauses \in 0 .. MaxPauses

Init ==
    /\ request \in Requests
    /\ row = [j \in Jobs |-> IF j \in request.queued THEN "queued" ELSE "absent"]
    /\ place = [j \in Jobs |-> "none"] /\ passed = {}
    /\ pump = [n \in Nodes |-> "none"]
    /\ life = [U \in Units |-> "queued"]
    /\ coord = [U \in Units |-> "idle"]
    /\ seen = [U \in Units |-> [queued |-> {}, running |-> {}, failed |-> {}]]
    /\ stop = [U \in Units |-> FALSE] /\ why = [U \in Units |-> "none"]
    /\ outcome = [U \in Units |-> "none"]
    /\ dag = "boundary" /\ scan = 0 /\ ready = {} /\ flight = {} /\ stopped = FALSE
    /\ share = [n \in Preclaiming |-> 0]
    /\ paused = {} /\ pauses = 0

With(status, U) == {Home[j] : j \in {k \in JobsOf(U) : row[k] = status}}
Holds(n, where) == {j \in Jobs : Home[j] = n /\ place[j] \in where}
Busy(n) == Holds(n, {"cleared", "running", "published", "failing"})

(***************************************************************************)
(* A pump: NodeScheduler._run_queued_node_jobs with its source and runner. *)
(***************************************************************************)
Queued(n) == {j \in Jobs : Home[j] = n /\ row[j] = "queued"}

(* A live node and an API node follow the queue with a cursor; the finite  *)
(* pump of another node has a snapshot of it.                              *)
Refreshable(n) == IsLive(n) \/ n \in Preclaiming

(* The source is constructed: a cursor begins at the start of the queue, a *)
(* snapshot lists the rows that are queued now.                            *)
OpenSource(n) ==
    /\ pump[n] = "starting"
    /\ pump' = [pump EXCEPT ![n] = IF IsLive(n) THEN "ready" ELSE "open"]
    /\ passed' = (passed \ {j \in Jobs : Home[j] = n})
                 \cup IF Refreshable(n) THEN {} ELSE {j \in Jobs : Home[j] = n} \ Queued(n)
    /\ UNCHANGED <<row, place, life, unitVars, dagVars, pauseVars>>

OpenFails(n) ==
    /\ n \in Broken /\ pump[n] = "starting"
    /\ pump' = [pump EXCEPT ![n] = "raised"]
    /\ stop' = [stop EXCEPT ![UnitOf[n]] = TRUE]
    /\ UNCHANGED <<jobVars, life, coord, seen, why, outcome, dagVars, pauseVars>>

(* wait_for_live_component_release: no member of a live component pulls    *)
(* before every one of them follows its queue.                             *)
Released(U) == coord[U] \notin {"first", "attach"}
PumpStarts(n) ==
    /\ pump[n] = "ready" /\ (Released(UnitOf[n]) \/ stop[UnitOf[n]])
    /\ pump' = [pump EXCEPT ![n] = "open"]
    /\ UNCHANGED <<jobVars, life, unitVars, dagVars, pauseVars>>

Offered(n) == {j \in Jobs : Home[j] = n /\ j \notin passed /\ (Refreshable(n) => row[j] = "queued")}

(* A pull moves the cursor past the job for good.  The source of an API    *)
(* node claims what it pulls in the same call.                             *)
Pull(j) ==
    /\ pump[Home[j]] = "open" /\ ~stop[UnitOf[Home[j]]] /\ j \in Offered(Home[j])
    /\ passed' = passed \cup {j}
    /\ place' = [place EXCEPT ![j] = "taken"]
    /\ row' = IF Home[j] \in Preclaiming THEN [row EXCEPT ![j] = "running"] ELSE row
    /\ UNCHANGED <<pump, life, unitVars, dagVars, pauseVars>>

(* run_source_item and close: an item that meets a stopped component goes  *)
(* back, a preclaimed one by the release of its claim.                     *)
PutBack(j) ==
    /\ place[j] = "taken" /\ stop[UnitOf[Home[j]]] /\ Home[j] \notin Preclaiming
    /\ place' = [place EXCEPT ![j] = "none"]
    /\ UNCHANGED <<row, passed, pump, life, unitVars, dagVars, pauseVars>>
AbandonUnstarted(j) ==
    /\ place[j] = "taken" /\ stop[UnitOf[Home[j]]] /\ Home[j] \in Preclaiming
    /\ place' = [place EXCEPT ![j] = "none"] /\ row' = [row EXCEPT ![j] = "queued"]
    /\ UNCHANGED <<passed, pump, life, unitVars, dagVars, pauseVars>>

ClearToRun(j) ==
    /\ place[j] = "taken" /\ pump[Home[j]] = "open" /\ ~stop[UnitOf[Home[j]]]
    /\ place' = [place EXCEPT ![j] = "cleared"]
    /\ UNCHANGED <<row, passed, pump, life, unitVars, dagVars, pauseVars>>
StartJob(j) ==
    /\ place[j] = "cleared"
    /\ place' = [place EXCEPT ![j] = "running"] /\ row' = [row EXCEPT ![j] = "running"]
    /\ UNCHANGED <<passed, pump, life, unitVars, dagVars, pauseVars>>

(* A publication adds rows; a job that exists already keeps its own.       *)
Publish(j) ==
    /\ place[j] = "running" /\ Produces[j] # {}
    /\ place' = [place EXCEPT ![j] = "published"]
    /\ row' = [k \in Jobs |-> IF k \in Produces[j] /\ row[k] = "absent"
                            THEN "queued" ELSE row[k]]
    /\ UNCHANGED <<passed, pump, life, unitVars, dagVars, pauseVars>>
JobDone(j) ==
    /\ place[j] = "published" \/ (place[j] = "running" /\ Produces[j] = {})
    /\ place' = [place EXCEPT ![j] = "none"] /\ row' = [row EXCEPT ![j] = "done"]
    /\ UNCHANGED <<passed, pump, life, unitVars, dagVars, pauseVars>>

(* A failed job publishes its terminal state; one whose update fails keeps *)
(* a running row that no thread works on.                                  *)
JobFails(j) ==
    /\ j \in Failing /\ place[j] \in {"running", "published"}
    /\ place' = [place EXCEPT ![j] = "failing"] /\ row' = [row EXCEPT ![j] = "failed"]
    /\ UNCHANGED <<passed, pump, life, unitVars, dagVars, pauseVars>>
JobIsLost(j) ==
    /\ j \in Lost /\ place[j] \in {"running", "published"}
    /\ place' = [place EXCEPT ![j] = "failing"]
    /\ UNCHANGED <<row, passed, pump, life, unitVars, dagVars, pauseVars>>

(* execute_source_item stops sibling admission before the pump unwinds. *)
JobRaises(j) ==
    /\ place[j] = "failing"
    /\ place' = [place EXCEPT ![j] = "none"]
    /\ pump' = [pump EXCEPT ![Home[j]] = "unwinding"]
    /\ stop' = [stop EXCEPT ![UnitOf[Home[j]]] = TRUE]
    /\ UNCHANGED <<row, passed, life, coord, seen, why, outcome, dagVars, pauseVars>>

(* A live source ends with its component, a snapshot source with its rows. *)
BugNeverExhausted(n) == ~IsLive(n) /\ Offered(n) = {}
Exhausted(n) == stop[UnitOf[n]] \/ (~IsLive(n) /\ Offered(n) = {})

(* The runner has joined its workers. *)
PumpReturns(n) ==
    /\ pump[n] = "open" /\ Busy(n) = {} /\ Holds(n, {"taken"}) = {} /\ Exhausted(n)
    /\ pump' = [pump EXCEPT ![n] = "returned"]
    /\ UNCHANGED <<jobVars, life, unitVars, dagVars, pauseVars>>
PumpRaises(n) ==
    /\ pump[n] = "unwinding" /\ Busy(n) = {} /\ Holds(n, {"taken"}) = {}
    /\ pump' = [pump EXCEPT ![n] = "raised"]
    /\ UNCHANGED <<jobVars, life, unitVars, dagVars, pauseVars>>

(***************************************************************************)
(* The coordinator of a unit: ComponentExecutionOperation.run and          *)
(* ComponentScheduler._run_component.                                      *)
(***************************************************************************)
Over(n) == pump[n] \in {"returned", "raised"}
Active(U) == {n \in U : pump[n] # "none"}

ComponentReady(U) == \A V \in Parents[U] : life[V] = "done"

(* An interrupt may pause the component after unit_ready has looked. *)
BeginUnit(U) ==
    /\ coord[U] = "begin" /\ U \notin paused
    /\ life[U] = "queued" /\ ComponentReady(U)
    /\ life' = [life EXCEPT ![U] = "running"]
    /\ coord' = [coord EXCEPT ![U] = "first"]
    /\ UNCHANGED <<jobVars, pump, seen, stop, why, outcome, dagVars, pauseVars>>
BeginPaused(U) ==
    /\ coord[U] = "begin" /\ U \in paused
    /\ coord' = [coord EXCEPT ![U] = "ended"] /\ outcome' = [outcome EXCEPT ![U] = "paused"]
    /\ UNCHANGED <<jobVars, pump, life, seen, stop, why, dagVars, pauseVars>>

(* The first look; without queued work there is nothing to pump. *)
FirstLook(U) ==
    /\ coord[U] = "first"
    /\ coord' = [coord EXCEPT ![U] = IF With("queued", U) = {} THEN "finish" ELSE "attach"]
    /\ pump' = [n \in Nodes |-> IF n \in LiveNodes(U) /\ With("queued", U) # {}
                                THEN "starting" ELSE pump[n]]
    /\ UNCHANGED <<jobVars, life, seen, stop, why, outcome, dagVars, pauseVars>>

Attached(U) == (\A n \in LiveNodes(U) : pump[n] = "ready") \/ \E n \in U : Over(n)
ReleasePumps(U) ==
    /\ coord[U] = "attach" /\ Attached(U)
    /\ coord' = [coord EXCEPT ![U] = "reap"]
    /\ UNCHANGED <<jobVars, pump, life, seen, stop, why, outcome, dagVars, pauseVars>>

(* Futures that are done: an error ends the loop, a live pump that came    *)
(* back before the stop is started again.                                  *)
Reap(U) ==
    /\ coord[U] = "reap" /\ \A n \in U : pump[n] # "raised"
    /\ pump' = [n \in Nodes |-> IF n \in U /\ pump[n] = "returned"
                                THEN IF IsLive(n) /\ ~stop[U] THEN "starting" ELSE "none"
                                ELSE pump[n]]
    /\ coord' = [coord EXCEPT ![U] = "observe"]
    /\ UNCHANGED <<jobVars, life, seen, stop, why, outcome, dagVars, pauseVars>>
ReapError(U) ==
    /\ coord[U] = "reap" /\ \E n \in U : pump[n] = "raised"
    /\ stop' = [stop EXCEPT ![U] = TRUE] /\ why' = [why EXCEPT ![U] = "error"]
    /\ coord' = [coord EXCEPT ![U] = "join"]
    /\ UNCHANGED <<jobVars, pump, life, seen, outcome, dagVars, pauseVars>>

(* One snapshot of queued, running and failed rows. *)
Snapshot(U) == [queued |-> With("queued", U), running |-> With("running", U),
                failed |-> With("failed", U)]
BugTwoReads(U) == [Snapshot(U) EXCEPT !.queued = seen[U].queued]
Observation(U) == Snapshot(U)
Observe(U) ==
    /\ coord[U] = "observe"
    /\ seen' = [seen EXCEPT ![U] = Observation(U)]
    /\ coord' = [coord EXCEPT ![U] = "decide"]
    /\ UNCHANGED <<jobVars, pump, life, stop, why, outcome, dagVars, pauseVars>>

(* What the coordinator concludes from the snapshot, which may be old by   *)
(* now, and from the pumps it has not reaped.                              *)
Blocking(U) == seen[U].queued \cup seen[U].running \cup seen[U].failed
Blocked(U) == {n \in seen[U].queued : WaitFor[n] \cap Blocking(U) # {}}
Startable(U) == IF stop[U] THEN {} ELSE seen[U].queued \ (Active(U) \cup Blocked(U))
Quiescent(U) == seen[U].queued = {} /\ seen[U].running = {}
BugIgnoresPumps(U) ==
    /\ seen[U].queued # {} /\ seen[U].running = {}
    /\ Blocked(U) = seen[U].queued
Deadlocked(U) ==
    /\ seen[U].queued # {} /\ seen[U].running = {}
    /\ Active(U) \subseteq LiveNodes(U)
    /\ Blocked(U) = seen[U].queued

LeaveLoop(U, reason) ==
    /\ stop' = [stop EXCEPT ![U] = TRUE] /\ why' = [why EXCEPT ![U] = reason]
    /\ coord' = [coord EXCEPT ![U] = "join"]
    /\ UNCHANGED <<jobVars, pump, life, seen, outcome, dagVars, pauseVars>>
Submit(U, S) ==
    /\ pump' = [n \in Nodes |-> IF n \in S THEN "starting" ELSE pump[n]]
    /\ coord' = [coord EXCEPT ![U] = "reap"]
    /\ UNCHANGED <<jobVars, life, seen, stop, why, outcome, dagVars, pauseVars>>

LeaveQuiet(U) == coord[U] = "decide" /\ Quiescent(U) /\ LeaveLoop(U, "quiet")
LeaveDeadlock(U) ==
    coord[U] = "decide" /\ Deadlocked(U) /\ ~request.resolver /\ LeaveLoop(U, "deadlock")
ResolveDeadlock(U) ==
    /\ coord[U] = "decide" /\ Deadlocked(U) /\ request.resolver
    /\ \E n \in seen[U].queued : Submit(U, IF stop[U] THEN {} ELSE {n})
KeepPumping(U) ==
    coord[U] = "decide" /\ ~Quiescent(U) /\ ~Deadlocked(U) /\ Submit(U, Startable(U))

(* executor.shutdown(wait=True), then every Future is looked at. *)
Joinable(U) == \A n \in U : pump[n] = "none" \/ Over(n)
PumpFailed(U) == why[U] = "error" \/ \E n \in U : pump[n] = "raised"
NoPumps(U) == [n \in Nodes |-> IF n \in U THEN "none" ELSE pump[n]]
JoinPumps(U) ==
    /\ coord[U] = "join" /\ Joinable(U) /\ ~PumpFailed(U)
    /\ pump' = NoPumps(U) /\ coord' = [coord EXCEPT ![U] = "finish"]
    /\ UNCHANGED <<jobVars, life, seen, stop, why, outcome, dagVars, pauseVars>>

(* _finalize_failed_component: a running row whose output was written is   *)
(* completed from it, the others are failed.                               *)
Finalized(U, S) ==
    [j \in Jobs |-> IF j \in JobsOf(U) /\ row[j] = "running"
                    THEN IF j \in S THEN "done" ELSE "failed" ELSE row[j]]
FinalizeFailed(U) ==
    /\ coord[U] = "join" /\ Joinable(U) /\ PumpFailed(U)
    /\ \E S \in SUBSET {j \in Lost \cap JobsOf(U) : row[j] = "running"} : row' = Finalized(U, S)
    /\ pump' = NoPumps(U) /\ coord' = [coord EXCEPT ![U] = "ended"]
    /\ outcome' = [outcome EXCEPT ![U] = "error"]
    /\ UNCHANGED <<place, passed, life, seen, stop, why, dagVars, pauseVars>>

(* finish_successful_component_execution refuses a component that has      *)
(* unfinished jobs.                                                        *)
Complete(U) == \A j \in JobsOf(U) : row[j] \in {"absent", "done"}
BugCompletesAnyway(U) == TRUE
MayComplete(U) == Complete(U)
FinishUnit(U) ==
    /\ coord[U] = "finish" /\ MayComplete(U)
    /\ life' = [life EXCEPT ![U] = "done"]
    /\ coord' = [coord EXCEPT ![U] = "ended"] /\ outcome' = [outcome EXCEPT ![U] = "ok"]
    /\ UNCHANGED <<jobVars, pump, seen, stop, why, dagVars, pauseVars>>
FinishRefused(U) ==
    /\ coord[U] = "finish" /\ ~MayComplete(U)
    /\ coord' = [coord EXCEPT ![U] = "ended"] /\ outcome' = [outcome EXCEPT ![U] = "error"]
    /\ UNCHANGED <<jobVars, pump, life, seen, stop, why, dagVars, pauseVars>>

(***************************************************************************)
(* allocate_api_pumps: one pump each, and the rest of the budget one by    *)
(* one to the node whose load per pump it lowers most.                     *)
(***************************************************************************)
Smaller(x, y) == IF x < y THEN x ELSE y
Larger(x, y) == IF x < y THEN y ELSE x
SumOver(S, f) ==
    LET total[T \in SUBSET S] == IF T = {} THEN 0
                                 ELSE LET n == CHOOSE n \in T : TRUE IN f[n] + total[T \ {n}]
    IN  total[S]
Independent(n) == Smaller(PumpCap, Larger(1, (Limit[n] + PumpSize - 1) \div PumpSize))
Gains(a, n, m) ==  \* limit / (p * (p + 1)) of n is above that of m, or equal and n is first
    LET left == Limit[n] * a[m] * (a[m] + 1)
        right == Limit[m] * a[n] * (a[n] + 1)
    IN  left > right \/ (left = right /\ Rank[n] <= Rank[m])
Allocate(S, budget) ==
    LET total == SumOver(S, [n \in S |-> Independent(n)])
        extra == Larger(Cardinality(S), Smaller(total, budget)) - Cardinality(S)
        give[k \in 0 .. extra] ==
            IF k = 0 THEN [n \in S |-> 1]
            ELSE LET a == give[k - 1]
                     open == {n \in S : a[n] < Independent(n)}
                 IN  IF open = {} THEN a
                     ELSE [a EXCEPT ![CHOOSE n \in open : \A m \in open : Gains(a, n, m)] = @ + 1]
    IN  give[extra]

(***************************************************************************)
(* The DAG loop: DagScheduler._run_concurrently.                           *)
(***************************************************************************)
(* A unit that has begun is in flight, or its operation has completed. *)
UnitReady(U) == U \notin paused /\ life[U] = "queued" /\ ComponentReady(U)

BoundaryTerminal(U) == life[U] = "done"

(* The boundaries are read first, the readiness of each unit after them. *)
ReadBoundary ==
    /\ dag = "boundary"
    /\ stopped' = (stopped \/ \E U \in request.after \cup request.before : BoundaryTerminal(U))
    /\ ready' = {} /\ scan' = IF stopped' THEN 0 ELSE Cardinality(Units)
    /\ dag' = "scan"
    /\ UNCHANGED <<jobVars, pump, life, unitVars, flight, share, pauseVars>>
ScanUnit ==
    /\ dag = "scan" /\ scan > 0
    /\ LET U == UnitOrder[Cardinality(Units) - scan + 1]
       IN  ready' = IF U \notin flight /\ UnitReady(U) THEN ready \cup {U} ELSE ready
    /\ scan' = scan - 1
    /\ UNCHANGED <<jobVars, pump, life, unitVars, dag, flight, stopped, share, pauseVars>>
Scanned ==
    /\ dag = "scan" /\ scan = 0
    /\ LET refused == ready \cap request.before # {}
       IN  stopped' = (stopped \/ refused) /\ ready' = IF refused THEN {} ELSE ready
    /\ dag' = "launch"
    /\ UNCHANGED <<jobVars, pump, life, unitVars, scan, flight, share, pauseVars>>

ApiOf(U) == U \cap Preclaiming
Held == SumOver(Preclaiming, share)
ActiveApi == {n \in Preclaiming : share[n] > 0}
ReadyApi == UNION {ApiOf(U) : U \in ready}
Target == SumOver(ActiveApi \cup ReadyApi, Allocate(ActiveApi \cup ReadyApi, Budget))
Available == Larger(0, Target - Held)

(* The ready units in order, as long as each API member can have a pump. *)
Chosen ==
    LET n == Cardinality(Units)
        left[i \in 0 .. n] ==
            IF i = 0 THEN Available
            ELSE LET U == UnitOrder[i] size == Cardinality(ApiOf(U))
                 IN  IF U \in ready /\ size <= left[i - 1] THEN left[i - 1] - size ELSE left[i - 1]
    IN  {UnitOrder[i] : i \in {k \in 1 .. n : UnitOrder[k] \in ready
                                   /\ Cardinality(ApiOf(UnitOrder[k])) <= left[k - 1]}}
Wave ==
    LET api == UNION {ApiOf(U) : U \in Chosen}
        budget == IF Chosen # ready THEN Cardinality(api) ELSE Target - Held
    IN  Allocate(api, budget)

(* Each chosen unit is looked at again before it is submitted. *)
Launched == {U \in Chosen : UnitReady(U)}
Launch ==
    /\ dag = "launch" /\ Launched # {}
    /\ flight' = flight \cup Launched
    /\ coord' = [U \in Units |-> IF U \in Launched THEN "begin" ELSE coord[U]]
    /\ outcome' = [U \in Units |-> IF U \in Launched THEN "none" ELSE outcome[U]]
    /\ share' = [n \in Preclaiming |-> IF UnitOf[n] \in Launched THEN Wave[n] ELSE share[n]]
    /\ dag' = "wait" /\ ready' = {}
    /\ UNCHANGED <<jobVars, pump, life, seen, stop, why, scan, stopped, pauseVars>>

(* Nothing to launch: wait for a unit, for an interrupt, or return. *)
WaitingOnInterrupt == ~stopped /\ paused # {}
LaunchNothing ==
    /\ dag = "launch" /\ Launched = {}
    /\ dag' = IF flight # {} THEN "wait" ELSE IF WaitingOnInterrupt THEN "boundary" ELSE "returned"
    /\ ready' = {}
    /\ UNCHANGED <<jobVars, pump, life, unitVars, scan, flight, stopped, share, pauseVars>>

(* wait(FIRST_COMPLETED) and the results of the futures that are done.  A  *)
(* component that met a pause is forgotten and may be launched again.      *)
DoneUnits == {U \in flight : outcome[U] # "none"}
Collect ==
    /\ dag = "wait" /\ DoneUnits # {} /\ \A U \in DoneUnits : outcome[U] # "error"
    /\ flight' = flight \ DoneUnits
    /\ share' = [n \in Preclaiming |-> IF UnitOf[n] \in DoneUnits THEN 0 ELSE share[n]]
    /\ stopped' = (stopped \/ \E U \in request.after \cap DoneUnits : outcome[U] = "ok")
    /\ coord' = [U \in Units |-> IF U \in DoneUnits /\ outcome[U] = "paused" THEN "idle" ELSE coord[U]]
    /\ dag' = "boundary"
    /\ UNCHANGED <<jobVars, pump, life, seen, stop, why, outcome, scan, ready, pauseVars>>
CollectError ==
    /\ dag = "wait" /\ \E U \in DoneUnits : outcome[U] = "error"
    /\ dag' = "drain"
    /\ UNCHANGED <<jobVars, pump, life, unitVars, scan, ready, flight, stopped, share, pauseVars>>
Drained == \A U \in flight : outcome[U] # "none"
Raise ==
    /\ dag = "drain" /\ Drained
    /\ dag' = "raised" /\ flight' = {} /\ share' = [n \in Preclaiming |-> 0]
    /\ UNCHANGED <<jobVars, pump, life, unitVars, scan, ready, stopped, pauseVars>>

(* An interrupt pauses a component that has not begun and later lets go.   *)
PauseUnit(U) ==
    /\ U \in request.paused /\ pauses < MaxPauses /\ U \notin paused /\ life[U] = "queued"
    /\ dag \notin {"returned", "raised"}
    /\ paused' = paused \cup {U} /\ pauses' = pauses + 1
    /\ UNCHANGED <<request, jobVars, pump, life, unitVars, dagVars>>
ReleaseUnit(U) ==
    /\ U \in paused /\ paused' = paused \ {U}
    /\ UNCHANGED <<request, jobVars, pump, life, unitVars, dagVars, pauses>>

JobStep(j) == Pull(j) \/ PutBack(j) \/ AbandonUnstarted(j) \/ ClearToRun(j) \/ StartJob(j)
                \/ Publish(j) \/ JobDone(j) \/ JobRaises(j)
Mishap(j) == JobFails(j) \/ JobIsLost(j)
PumpStep(n) == OpenSource(n) \/ PumpStarts(n) \/ PumpReturns(n) \/ PumpRaises(n)
UnitStep(U) == BeginUnit(U) \/ BeginPaused(U) \/ FirstLook(U) \/ ReleasePumps(U) \/ Reap(U)
    \/ ReapError(U) \/ Observe(U) \/ LeaveQuiet(U) \/ LeaveDeadlock(U) \/ ResolveDeadlock(U)
    \/ KeepPumping(U) \/ JoinPumps(U) \/ FinalizeFailed(U) \/ FinishUnit(U) \/ FinishRefused(U)
DagStep == ReadBoundary \/ ScanUnit \/ Scanned \/ Launch \/ LaunchNothing \/ Collect
    \/ CollectError \/ Raise

Next ==
    \/ \E j \in Jobs : JobStep(j) \/ Mishap(j)
    \/ \E n \in Nodes : PumpStep(n) \/ OpenFails(n)
    \/ \E U \in Units : UnitStep(U) \/ PauseUnit(U) \/ ReleaseUnit(U)
    \/ DagStep

Spec == Init /\ [][Next]_vars

(* Every thread takes its next step in the end, a job returns or raises,   *)
(* and an interrupt releases what it pauses.                               *)
FairSpec ==
    /\ Spec /\ WF_vars(DagStep)
    /\ \A j \in Jobs : WF_vars(JobStep(j))
    /\ \A n \in Nodes : WF_vars(PumpStep(n))
    /\ \A U \in Units : WF_vars(UnitStep(U)) /\ WF_vars(ReleaseUnit(U))

(***************************************************************************)
(* Properties.                                                             *)
(***************************************************************************)

(* A coordinator that leaves its loop because nothing is queued or running *)
(* is right, then and for the rest of the session: no job of the component *)
(* was published between the rows it combined (component_scheduler.py:368).*)
NoFalseQuiescence ==
    \A U \in Units : why[U] = "quiet" =>
        \A j \in JobsOf(U) : row[j] \notin {"queued", "running"}

(* A coordinator that gives its component up as deadlocked leaves no job   *)
(* that a pump still has to run, at most one whose exception is on its way *)
(* to the pump, and every queued job waits for a peer that has unfinished  *)
(* work: a pump between two claims is not taken for a deadlock             *)
(* (component_scheduler.py:400).                                           *)
NoFalseDeadlock ==
    \A U \in Units : why[U] = "deadlock" => \A j \in JobsOf(U) :
        /\ row[j] # "running" /\ place[j] \in {"none", "failing"}
        /\ row[j] = "queued" => \E k \in JobsOf(U) :
              Home[k] \in WaitFor[Home[j]] /\ row[k] \in {"queued", "failed"}

(* When a unit has ended, whatever its result, no pump of it is left, no   *)
(* thread has a job of it and no row of it is running; and the DAG loop    *)
(* returns or raises only when every unit it launched has ended.           *)
NothingRunsOn ==
    /\ \A U \in Units : coord[U] = "ended" =>
          /\ \A n \in U : pump[n] = "none"
          /\ \A j \in JobsOf(U) : place[j] = "none" /\ row[j] # "running"
    /\ dag \in {"returned", "raised"} => \A U \in Units : coord[U] \in {"idle", "ended"}

(* The waves of the DAG loop share one pump budget: what the units in      *)
(* flight hold never exceeds it, except for the one pump every API node is *)
(* promised, and each API node in flight has that pump.                    *)
PumpBudgetKept ==
    /\ Held <= Larger(Budget, Cardinality(Preclaiming))
    /\ \A U \in flight : \A n \in ApiOf(U) : share[n] >= 1

(* A DAG loop that returns without a refusal has completed every unit, the *)
(* ones that had to wait for pumps included, and no job is left over.      *)
AllComplete ==
    /\ \A U \in Units : life[U] = "done"
    /\ \A j \in Jobs : row[j] \in {"absent", "done"}
ReturnsComplete == dag = "returned" /\ ~stopped /\ pauses = 0 => AllComplete

(* Whatever fails on the way, the DAG loop accounts for its units: none    *)
(* runs on unseen, the pump budget is kept and success means that every    *)
(* unit is complete.                                                       *)
UnitsAccounted == TypeOK /\ NothingRunsOn /\ PumpBudgetKept /\ ReturnsComplete

(* The DAG loop ends. *)
DagEnds == <>(dag \in {"returned", "raised"})
=============================================================================
