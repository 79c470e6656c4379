--------------------------- MODULE ComponentResults ---------------------------
(***************************************************************************)
(* What MWF remembers about a component between two executions: its row    *)
(* (component_states), the successful result the row points to             *)
(* (component_successful_results), the first arrival that made the result  *)
(* stale (component_misalignment_causes) and the partition of the nodes    *)
(* into components (active_components), which an edited graph replaces.    *)
(*                                                                         *)
(* The actors are commands (main sessions, interrupt sessions and resets), *)
(* the jobs they run, jobs and managed inputs that arrive while nobody or  *)
(* somebody else owns the receiver, an editor of the graph, process deaths *)
(* and the recovery.  Every action is one transaction of the writer; the   *)
(* guards are the checks whose failure rolls the transaction back.         *)
(*                                                                         *)
(* Left to other modules: leases and outputs of jobs (JobExecution), the   *)
(* admission of interrupts (Interrupts), the files a preparation moves     *)
(* (FileOperations).  A command selects one component here; the units of a *)
(* repair commit in any order, in the code by name.                        *)
(*                                                                         *)
(* An operator named Bug... is not part of the specification: it is the    *)
(* definition after it with a plausible mistake, for mutation runs.        *)
(***************************************************************************)
EXTENDS Naturals, FiniteSets, FiniteSetsExt, TLC

CONSTANTS
    Nodes,          \* the raw nodes
    Shapes,         \* graph shapes: name -> [parts: components, edges]
    Jobs,           \* the node of each job
    Sessions,       \* the sessions, numbers
    Interrupting,   \* the sessions that are interrupts
    Scenes,         \* the scenarios
    MaxGen,         \* bound on alignment generations
    None            \* a model value

(* A scenario: the shape of the graph at first, the command of each session *)
(* (None: it is not used), the jobs created later from outside, the shapes  *)
(* the graph is edited to, and bounds on edits and on process deaths.       *)
Components == UNION {Shapes[i].parts : i \in DOMAIN Shapes}
Settled == {"sampled", "done", "failed"}

ASSUME ShapesArePartitions ==
    \A i \in DOMAIN Shapes : \A c, d \in Shapes[i].parts :
        c # d => c \cap d = {}

VARIABLES
    scene,      \* the scenario
    graph,      \* the shape of the graph file
    edits,      \* how often the file was edited
    est,        \* active component -> the revision that established it
    revision,   \* the revision of the active partition
    row,        \* registered component -> its row of component_states
    results,    \* <<component, shape, generation>> -> successful result
    causes,     \* <<receiver, generation>> -> component of the first cause
    job,        \* each job's status and last owner
    input,      \* the producer of each node's managed input
    pending,    \* each session's begun execution
    sess,       \* the sessions
    deaths      \* how many processes died

vars == <<scene, graph, edits, est, revision, row, results, causes, job, input,
          pending, sess, deaths>>

Active == DOMAIN est
Member(n) == \E c \in Active : n \in c
ActiveOf(n) == CHOOSE c \in Active : n \in c
JobsIn(c) == {j \in DOMAIN Jobs : Jobs[j] \in c /\ job[j].st # "absent"}
NoneRuns(N) == \A j \in JobsIn(N) : job[j].st # "running"
Live(s) == sess[s].pc \notin {"idle", "over"} /\ sess[s].cmd # "reset"
Guarded == UNION {sess[s].guard : s \in Sessions}

(* The result a row points to, if any. *)
Retained(c) == IF row[c].kept = None THEN None
               ELSE results[<<c, row[c].kept[1], row[c].kept[2]>>]

-------------------------------------------------------------------------------
(* Readiness of a component from the results of its direct parents. *)
Parents(sh, c) ==
    {p \in Shapes[sh].parts \ {c} : \E e \in Shapes[sh].edges :
                                        e[1] \in p /\ e[2] \in c}

Readiness(rows, ps, origin) ==
    LET lineages == {rows[p].lin : p \in ps}
    IN  IF (\E p \in ps : rows[p].life # "done") \/ Cardinality(lineages) > 1
        THEN origin
        ELSE IF ps = {} THEN "stable" ELSE CHOOSE l \in lineages : TRUE

SampledLineage(retained, ready) ==
    IF ready # "stable" /\ ready # retained THEN None ELSE retained

-------------------------------------------------------------------------------
(* The region of the graph that changing one component would touch. *)
Reusable ==
    {job[j].own.c : j \in {k \in DOMAIN job : job[k].own # None}}
        \cup {input[n].c : n \in {m \in Nodes : input[m] # None}}
        \cup {c \in Active : row[c].kept # None}

Region(sh, c) ==
    LET closed == {N \in SUBSET Nodes :
            /\ c \subseteq N
            /\ \A m \in Active \cup Reusable \cup Shapes[sh].parts :
                   m \cap N # {} => m \subseteq N}
    IN  {n \in Nodes : \A N \in closed : n \in N}

Sources(N) == {m \in Active : m \cap N # {}}
Targets(sh, N) == {m \in Shapes[sh].parts : m \cap N # {}}
Works(N) == {m \in Reusable : m \cap N # {}}
Changes(sh, N) == Sources(N) # Targets(sh, N)
NeedsPreparation(sh, N) ==
    Works(N) # {} /\ (Changes(sh, N) \/ ~(Works(N) \subseteq Targets(sh, N)))

Floor(c) == Max({row[d].gen : d \in {e \in DOMAIN row : e \cap c # {}}} \cup {0})

Idle(N) ==
    /\ \A s \in Sessions : Live(s) => sess[s].c \cap N = {}
    /\ Guarded \cap N = {} /\ NoneRuns(N)

-------------------------------------------------------------------------------
(* register_component_topology: unknown components get a row; regions      *)
(* without reusable work are reconciled, removed components retired.       *)
Unproduced(sh) == {N \in {Region(sh, c) : c \in Shapes[sh].parts} :
                       Changes(sh, N) /\ Works(N) = {}}
Reconciled(sh) == UNION {Targets(sh, N) : N \in Unproduced(sh)}
Replaced(sh) == UNION {Sources(N) : N \in Unproduced(sh)}
Retired(sh) == {m \in Active \ Replaced(sh) :
                    m \cap UNION Shapes[sh].parts = {} /\ Works(m) = {}}

Queued(sh, g) == [sh |-> sh, life |-> "queued", lin |-> None, mis |-> FALSE,
                  gen |-> g, kept |-> None]

UnproducedGeneration(c) ==
    IF c \in DOMAIN row THEN Max({row[c].gen, Floor(c)}) + 1 ELSE 0

Registers(sh) ==
    LET changed == (Unproduced(sh) # {}) \/ (Retired(sh) # {})
        next == IF changed THEN revision + 1 ELSE revision
        fresh == Reconciled(sh) \ Active
    IN  /\ \A N \in Unproduced(sh) \cup {UNION Retired(sh)} : Idle(N)
        /\ \A c \in fresh : UnproducedGeneration(c) <= MaxGen
        /\ row' = [c \in DOMAIN row \cup Shapes[sh].parts |->
                       IF c \in fresh THEN Queued(sh, UnproducedGeneration(c))
                       ELSE IF c \in DOMAIN row THEN row[c] ELSE Queued(sh, 0)]
        /\ est' = [c \in (Active \ (Replaced(sh) \cup Retired(sh)))
                            \cup Reconciled(sh) |->
                       IF c \in Reconciled(sh) THEN next ELSE est[c]]
        /\ revision' = next

-------------------------------------------------------------------------------
(* _mark_component_arrival: a settled receiver becomes misaligned and keeps *)
(* the first cause at its generation; the row of that key must be its own.  *)
BugMarksRunning(rows, n) == rows[ActiveOf(n)].life # "queued"

Marks(rows, n) == rows[ActiveOf(n)].life \in Settled
CauseKey(rows, n) == <<n, rows[ActiveOf(n)].gen>>
Recordable(rows, n) ==
    Marks(rows, n) /\ CauseKey(rows, n) \in DOMAIN causes
        => causes[CauseKey(rows, n)] = ActiveOf(n)

MarkRows(rows, ns) ==
    [d \in DOMAIN rows |-> [rows[d] EXCEPT !.mis = @ \/
        \E n \in ns : ActiveOf(n) = d /\ Marks(rows, n)]]
MarkCauses(rows, ns) ==
    LET marked == {n \in ns : Marks(rows, n)}
        keys == {CauseKey(rows, n) : n \in marked}
    IN  causes @@ [k \in keys |-> ActiveOf(k[1])]

Accepts(rows, ns) == \A n \in ns : Member(n) /\ Recordable(rows, n)

-------------------------------------------------------------------------------
(* Starting a command: registration, the session and its reservation, all  *)
(* under the active-run-state lock.                                        *)
MayStart(s, cmd, c) ==
    LET N == Region(graph, c)
    IN  /\ sess[s].pc = "idle"
        /\ \A t \in Sessions : sess[t].pc # "repairing"
        /\ s \notin Interrupting =>
               \A t \in Sessions \ Interrupting :
                   ~Live(t) /\ (t < s => sess[t].pc = "over")
        /\ cmd = "reset" => \A t \in Sessions : ~Live(t)
        /\ cmd \in {"jobs", "resume"} => ~NeedsPreparation(graph, N)
        /\ Changes(graph, N) => Idle(UNION (Sources(N) \cup Targets(graph, N)))

Free(s, c) ==
    /\ \A t \in Sessions \ {s} : Live(t) => sess[t].c \cap c = {}
    /\ Guarded \cap c = {}

Start(s) ==
    \E c \in Shapes[graph].parts, cmd \in {scene.cmds[s]} \ {None},
       root \in DOMAIN Jobs \cup {None} :
        /\ MayStart(s, cmd, c) /\ Registers(graph)
        /\ cmd = "jobs" <=> root # None
        /\ root # None => root \in JobsIn(c)
        /\ Free(s, c)
        /\ s \in Interrupting => Parents(graph, c) \subseteq DOMAIN est'
        /\ sess' = [sess EXCEPT ![s] =
               [@ EXCEPT !.pc = "admitted", !.cmd = cmd, !.c = c, !.sh = graph,
                         !.rev = revision', !.root = root,
                         !.lin = IF s \in Interrupting
                                 THEN Readiness(row', Parents(graph, c), s)
                                 ELSE None]]
        /\ UNCHANGED <<scene, graph, edits, results, causes, job, input, pending,
                       deaths>>

(* The registration stands although the reservation is refused. *)
Refused(s) ==
    \E c \in Shapes[graph].parts, cmd \in {scene.cmds[s]} \ {None} :
        /\ MayStart(s, cmd, c) /\ Registers(graph) /\ ~Free(s, c)
        /\ sess' = [sess EXCEPT ![s].pc = "over"]
        /\ UNCHANGED <<scene, graph, edits, results, causes, job, input, pending,
                       deaths>>

-------------------------------------------------------------------------------
(* Preparation. *)
Established(s) == sess[s].c \in Active /\ est[sess[s].c] <= sess[s].rev

Ready(s) ==
    LET ps == Parents(sess[s].sh, sess[s].c)
    IN  s \in Interrupting \/ (ps \subseteq Active /\ Readiness(row, ps, None) # None)

ResetJobs(c) ==
    [j \in DOMAIN job |-> IF j \in JobsIn(c) THEN [st |-> "queued", own |-> None]
                          ELSE job[j]]
Dropped(ns) == [n \in Nodes |-> IF n \in ns THEN None ELSE input[n]]

(* Receivers outside the prepared component are guarded: nobody may own    *)
(* them or run work of their component.                                    *)
Undisturbed(s, ns) ==
    \A n \in ns :
        /\ n \notin Guarded /\ Member(n)
        /\ \A t \in Sessions \ {s} : Live(t) => n \notin sess[t].c
        /\ NoneRuns(ActiveOf(n)) /\ row[ActiveOf(n)].life # "running"

Preparable(s) ==
    LET c == sess[s].c
    IN  /\ sess[s].pc = "admitted" /\ Established(s)
        /\ row[c].life # "running" /\ NoneRuns(c)
        /\ \A t \in Sessions : pending[t] # None => pending[t].c # c
        /\ Guarded \cap c = {}

Prepared(s) == IF sess[s].cmd = "reset" THEN "over" ELSE "prepared"

(* The inputs that jobs of a component produced, the nodes outside it that *)
(* received them and lose them, and the generation of the prepared row.    *)
Made(c) == {n \in Nodes : input[n] # None /\ input[n].c = c}

BugNobodyTold(c) == {}

Receivers(c) == Made(c) \ c

BugSameGeneration(c) == row[c].gen

FreshGeneration(c) == row[c].gen + 1

PrepareFresh(s) ==
    LET c == sess[s].c
        rows == [row EXCEPT ![c] = Queued(sess[s].sh, FreshGeneration(c))]
    IN  /\ Preparable(s) /\ sess[s].cmd \in {"run", "reset"}
        /\ ~NeedsPreparation(sess[s].sh, Region(sess[s].sh, c))
        /\ sess[s].cmd = "run" => Ready(s)
        /\ Undisturbed(s, Receivers(c)) /\ Accepts(rows, Receivers(c))
        /\ row[c].gen < MaxGen
        /\ row' = MarkRows(rows, Receivers(c))
        /\ causes' = MarkCauses(rows, Receivers(c))
        /\ job' = ResetJobs(c) /\ input' = Dropped(Made(c))
        /\ sess' = [sess EXCEPT ![s].pc = Prepared(s)]
        /\ UNCHANGED <<scene, graph, edits, est, revision, results, pending, deaths>>

(* Selected jobs are reset with what they produced; the component keeps    *)
(* its generation and its result.                                          *)
PrepareSelected(s) ==
    LET c == sess[s].c
        made == {n \in Made(c) : input[n].j = sess[s].root}
    IN  /\ Preparable(s) /\ sess[s].cmd = "jobs" /\ Ready(s)
        /\ Undisturbed(s, made \ c) /\ Accepts(row, made \ c)
        /\ row' = MarkRows(row, made \ c)
        /\ causes' = MarkCauses(row, made \ c)
        /\ job' = [job EXCEPT ![sess[s].root] = [st |-> "queued", own |-> None]]
        /\ input' = Dropped(made)
        /\ sess' = [sess EXCEPT ![s].pc = "prepared"]
        /\ UNCHANGED <<scene, graph, edits, est, revision, results, pending, deaths>>

(* Unsuccessful work is queued again; a failed component returns to its    *)
(* retained sampled result, or to the queue without any result.            *)
BugKeepsResult(c) ==
    IF row[c].life # "failed" THEN row[c] ELSE [row[c] EXCEPT !.life = "queued"]

RestoredRow(c) ==
    LET kept == Retained(c)
    IN  IF row[c].life # "failed" THEN row[c]
        ELSE IF kept # None /\ kept.life = "sampled"
             THEN [row[c] EXCEPT !.life = "sampled", !.lin = kept.lin]
             ELSE [row[c] EXCEPT !.life = "queued", !.kept = None]

PrepareResume(s) ==
    LET c == sess[s].c
    IN  /\ Preparable(s) /\ sess[s].cmd = "resume" /\ Ready(s)
        /\ ~row[c].mis
        /\ \A j \in JobsIn(c) : job[j].st = "failed" => job[j].own.c = c
        /\ row[c].life = "done" => \A j \in JobsIn(c) : job[j].st = "done"
        /\ row' = [row EXCEPT ![c] = RestoredRow(c)]
        /\ job' = [j \in DOMAIN job |->
                       IF j \in JobsIn(c) /\ job[j].st = "failed"
                       THEN [job[j] EXCEPT !.st = "queued"] ELSE job[j]]
        /\ sess' = [sess EXCEPT ![s].pc = "prepared"]
        /\ UNCHANGED <<scene, graph, edits, est, revision, results, causes, input,
                       pending, deaths>>

-------------------------------------------------------------------------------
(* Repair of a changed membership: every unit is prepared by a transaction *)
(* of its own, and the partition is replaced after the last.               *)
Units(s) ==
    LET N == Region(sess[s].sh, sess[s].c)
    IN  {u \in Targets(sess[s].sh, N) :
             u = sess[s].c \/ u \cap UNION Works(N) # {}}

RegionInputs(N) == {n \in Nodes : input[n] # None /\ input[n].c \cap N # {}}

BeginRepair(s) ==
    LET c == sess[s].c
        N == Region(sess[s].sh, c)
        outside == (UNION Units(s) \cup RegionInputs(N)) \ c
        touched == Sources(N) \cup Targets(sess[s].sh, N)
    IN  /\ sess[s].pc = "admitted" /\ sess[s].cmd \in {"run", "reset"}
        /\ NeedsPreparation(sess[s].sh, N)
        /\ sess[s].cmd = "run" => Ready(s)
        /\ revision = sess[s].rev
        /\ NoneRuns(UNION touched) /\ \A d \in touched : row[d].life # "running"
        /\ \A t \in Sessions \ {s} : Live(t) => sess[t].c \cap N = {}
        /\ Undisturbed(s, outside) /\ Guarded \cap c = {}
        /\ sess' = [sess EXCEPT ![s] =
               [@ EXCEPT !.pc = "repairing", !.units = Units(s), !.todo = Units(s),
                         !.guard = outside,
                         !.seen = [d \in touched |-> row[d]]]]
        /\ UNCHANGED <<scene, graph, edits, est, revision, row, results, causes, job,
                       input, pending, deaths>>

(* What the attempt captured, with the units it has prepared so far. *)
AsCaptured(s) == \A d \in DOMAIN sess[s].seen : row[d] = sess[s].seen[d]

(* A unit deletes the inputs of its own nodes, and those its producers     *)
(* published outside every unit; the receipt of the deletion must name the *)
(* unit of the producer.                                                   *)
OwnerUnit(s, n) ==
    LET at == {u \in sess[s].units : Jobs[input[n].j] \in u}
    IN  IF at # {} THEN CHOOSE u \in at : TRUE
        ELSE CHOOSE u \in sess[s].units : u \cap input[n].c # {}
UnitInputs(s, u) ==
    {n \in RegionInputs(UNION DOMAIN sess[s].seen) :
        n \in u \/ (n \notin UNION sess[s].units /\ OwnerUnit(s, n) = u)}
ReceiptNamesProducer(s, u) ==
    \A n \in UnitInputs(s, u) \cap sess[s].guard :
        Marks(row, n) => OwnerUnit(s, n) = u

RepairUnit(s) ==
    \E u \in sess[s].todo :
        LET gone == UnitInputs(s, u)
            rows == [row EXCEPT ![u] = Queued(sess[s].sh,
                                              Max({row[u].gen, Floor(u)}) + 1)]
            marked == gone \cap sess[s].guard
        IN  /\ sess[s].pc = "repairing" /\ AsCaptured(s)
            /\ ReceiptNamesProducer(s, u) /\ Accepts(rows, marked)
            /\ rows[u].gen <= MaxGen
            /\ row' = MarkRows(rows, marked)
            /\ causes' = MarkCauses(rows, marked)
            /\ job' = ResetJobs(u) /\ input' = Dropped(gone)
            /\ sess' = [sess EXCEPT ![s].todo = @ \ {u},
                                    ![s].seen[u] = rows[u]]
            /\ UNCHANGED <<scene, graph, edits, est, revision, results, pending, deaths>>

FinishRepair(s) ==
    LET targets == {u \in DOMAIN sess[s].seen : u \in Shapes[sess[s].sh].parts}
        sources == DOMAIN sess[s].seen \cap Active
        next == IF sources = targets THEN revision ELSE revision + 1
    IN  /\ sess[s].pc = "repairing" /\ sess[s].todo = {} /\ AsCaptured(s)
        /\ est' = [d \in (Active \ sources) \cup targets |->
                       IF d \in targets /\ sources # targets THEN next
                       ELSE est[d]]
        /\ revision' = next
        /\ sess' = [sess EXCEPT ![s] =
               [@ EXCEPT !.pc = Prepared(s), !.rev = next, !.guard = {},
                         !.units = {}, !.seen = <<>>]]
        /\ UNCHANGED <<scene, graph, edits, row, results, causes, job, input, pending,
                       deaths>>

-------------------------------------------------------------------------------
(* The start of an execution: the parents are read, and read again in the  *)
(* transaction that starts it.                                             *)
Lineage(s) ==
    LET c == sess[s].c
        ready == IF s \in Interrupting THEN sess[s].lin
                 ELSE Readiness(row, Parents(sess[s].sh, c), None)
    IN  IF sess[s].cmd = "resume" /\ row[c].life = "sampled"
        THEN SampledLineage(row[c].lin, ready) ELSE ready

Observe(s) ==
    LET c == sess[s].c
        ps == Parents(sess[s].sh, c)
    IN  /\ sess[s].pc = "prepared" /\ ps \subseteq Active
        /\ Ready(s) /\ Lineage(s) # None
        /\ ~(sess[s].cmd = "resume" /\ row[c].life = "done")
        /\ sess' = [sess EXCEPT ![s] =
               [@ EXCEPT !.pc = "observed", !.lin = Lineage(s),
                         !.seen = [d \in ps \cup {c} |-> row[d]]]]
        /\ UNCHANGED <<scene, graph, edits, est, revision, row, results, causes, job,
                       input, pending, deaths>>

ParentsAsSeen(s) ==
    \A d \in DOMAIN sess[s].seen \ {sess[s].c} : row[d] = sess[s].seen[d]

(* In inp (history): the managed inputs an execution begins with, and what *)
(* takes their places while it runs (Reaches).                             *)
Begun(s, kind) ==
    LET c == sess[s].c
    IN  [inp |-> [n \in c |-> input[n]], c |-> c, sh |-> sess[s].sh,
         gen |-> row[c].gen, lin |-> sess[s].lin, kind |-> kind,
         life |-> row[c].life, mis |-> row[c].mis, ready |-> FALSE]

Begins(s, kind, lin) ==
    /\ sess[s].pc = "observed" /\ Established(s) /\ ParentsAsSeen(s)
    /\ row' = [row EXCEPT ![sess[s].c] =
                   [@ EXCEPT !.sh = sess[s].sh, !.life = "running", !.lin = lin]]
    /\ pending' = [pending EXCEPT ![s] = Begun(s, kind)]
    /\ sess' = [sess EXCEPT ![s].pc = "running", ![s].seen = <<>>]
    /\ UNCHANGED <<scene, graph, edits, est, revision, results, causes, job, input,
                   deaths>>

(* begin_queued_component_execution and begin_sampled_component_execution. *)
BeginFull(s) ==
    LET r == row[sess[s].c]
    IN  /\ sess[s].pc = "observed"
        /\ sess[s].cmd # "jobs" /\ r.life \in {"queued", "sampled"}
        /\ r.life = "sampled" => sess[s].cmd = "resume" /\ r.lin = sess[s].lin
        /\ ~r.mis /\ r.gen = sess[s].seen[sess[s].c].gen
        /\ Begins(s, IF r.life = "queued" THEN "full" ELSE "resume", r.lin)

(* begin_selected_component_execution: from any row that is as it was read. *)
BeginSelected(s) ==
    LET c == sess[s].c
        kept == Retained(c)
    IN  /\ sess[s].pc = "observed" /\ sess[s].cmd = "jobs"
        /\ row[c] = sess[s].seen[c]
        /\ row[c].life # "running"
        /\ kept # None => kept.lin = sess[s].lin
        /\ Begins(s, "jobs", IF kept = None THEN None ELSE kept.lin)

-------------------------------------------------------------------------------
(* Jobs of a begun execution, and what arrives. *)
Owner(s, j) == [c |-> sess[s].c, sh |-> sess[s].sh, gen |-> pending[s].gen,
                j |-> j, s |-> s]

Claim(s, j) ==
    /\ sess[s].pc = "running" /\ j \in JobsIn(sess[s].c)
    /\ sess[s].cmd = "jobs" => j = sess[s].root
    /\ job[j].st = "queued" /\ ~pending[s].ready
    /\ job' = [job EXCEPT ![j] = [st |-> "running", own |-> Owner(s, j)]]
    /\ UNCHANGED <<scene, graph, edits, est, revision, row, results, causes, input,
                   pending, sess, deaths>>

FinishJob(s, j, st) ==
    /\ sess[s].pc = "running" /\ job[j].st = "running" /\ job[j].own.s = s
    /\ job' = [job EXCEPT ![j].st = st]
    /\ UNCHANGED <<scene, graph, edits, est, revision, row, results, causes, input,
                   pending, sess, deaths>>

(* A managed input: along an edge of the producer's shape, to a receiver   *)
(* whose component that shape still has.                                   *)
Reaches(i, n) ==
    [t \in Sessions |-> IF pending[t] # None /\ n \in pending[t].c
                        THEN [pending[t] EXCEPT !.inp[n] = i] ELSE pending[t]]

Publish(s, j, n) ==
    /\ sess[s].pc = "running" /\ job[j].st = "running" /\ job[j].own.s = s
    /\ <<Jobs[j], n>> \in Shapes[sess[s].sh].edges /\ input[n] # job[j].own
    /\ n \notin Guarded /\ Accepts(row, {n})
    /\ ActiveOf(n) \in Shapes[sess[s].sh].parts
    /\ input' = [input EXCEPT ![n] = job[j].own]
    /\ row' = MarkRows(row, {n}) /\ causes' = MarkCauses(row, {n})
    /\ pending' = Reaches(job[j].own, n)
    /\ UNCHANGED <<scene, graph, edits, est, revision, results, job, sess, deaths>>

(* A job created from outside. *)
Arrive(j) ==
    /\ job[j].st = "absent" /\ Jobs[j] \notin Guarded
    /\ Accepts(row, {Jobs[j]})
    /\ job' = [job EXCEPT ![j].st = "queued"]
    /\ row' = MarkRows(row, {Jobs[j]}) /\ causes' = MarkCauses(row, {Jobs[j]})
    /\ UNCHANGED <<scene, graph, edits, est, revision, results, input, pending, sess,
                   deaths>>

-------------------------------------------------------------------------------
(* Settlement. *)
MarkReady(s) ==
    /\ sess[s].pc = "running" /\ sess[s].cmd = "jobs"
    /\ job[sess[s].root].st = "done"
    /\ pending' = [pending EXCEPT ![s].ready = TRUE]
    /\ UNCHANGED <<scene, graph, edits, est, revision, row, results, causes, job,
                   input, sess, deaths>>

AllDone(c) == \A j \in JobsIn(c) : job[j].st = "done"

(* _selected_component_result and the proposal of a full execution. *)
SuccessfulLife(s) ==
    LET kept == Retained(pending[s].c)
    IN  IF pending[s].kind # "jobs" \/ AllDone(pending[s].c)
           \/ (kept # None /\ kept.life = "done")
        THEN "done" ELSE "sampled"

Succeeds(s) == IF pending[s].kind = "jobs" THEN pending[s].ready
               ELSE AllDone(pending[s].c)

(* What the settlement validates about the begun execution. *)
Settleable(s) ==
    LET p == pending[s]
        r == row[p.c]
        kept == Retained(p.c)
    IN  /\ Established(s) /\ r.sh = p.sh /\ r.gen = p.gen
        /\ r.life = "running" /\ r.mis = p.mis
        /\ p.kind = "resume" => /\ r.lin = p.lin
                                /\ kept # None
                                /\ kept.life = "sampled" /\ kept.lin = p.lin
        /\ p.kind = "jobs" =>
               /\ p.life = "queued" => kept = None
               /\ p.life \in {"sampled", "done"} =>
                      kept # None /\ kept.life = p.life
               /\ kept # None => kept.lin = p.lin
        /\ r.lin # None => r.lin = p.lin

SettleDone(s) ==
    LET p == pending[s]
        life == SuccessfulLife(s)
        key == <<p.c, p.sh, p.gen>>
    IN  /\ sess[s].pc = "running" /\ Settleable(s) /\ NoneRuns(p.c) /\ Succeeds(s)
        /\ results' = (key :> [life |-> life, lin |-> p.lin, inp |-> p.inp]) @@ results
        /\ row' = [row EXCEPT ![p.c] =
                       [@ EXCEPT !.life = life, !.lin = p.lin,
                                 !.kept = <<p.sh, p.gen>>]]
        /\ pending' = [pending EXCEPT ![s] = None]
        /\ sess' = [sess EXCEPT ![s].pc = "over"]
        /\ UNCHANGED <<scene, graph, edits, est, revision, causes, job, input, deaths>>

FailedRow(c) == [row[c] EXCEPT !.life = "failed", !.lin = None]

(* A failed or stopped execution: the retained result stays. *)
SettleFailed(s) ==
    /\ sess[s].pc = "running" /\ Settleable(s) /\ NoneRuns(pending[s].c)
    /\ pending[s].kind = "jobs" => ~pending[s].ready
    /\ row' = [row EXCEPT ![pending[s].c] = FailedRow(pending[s].c)]
    /\ pending' = [pending EXCEPT ![s] = None]
    /\ sess' = [sess EXCEPT ![s].pc = "over"]
    /\ UNCHANGED <<scene, graph, edits, est, revision, results, causes, job, input,
                   deaths>>

(* A command that is refused, has nothing to do or stops before its start. *)
Quit(s) ==
    /\ sess[s].pc \in {"admitted", "repairing", "prepared", "observed"}
    /\ sess' = [sess EXCEPT ![s] =
           [@ EXCEPT !.pc = "over", !.guard = {}, !.units = {}, !.todo = {},
                     !.seen = <<>>]]
    /\ UNCHANGED <<scene, graph, edits, est, revision, row, results, causes, job,
                   input, pending, deaths>>

Die(s) ==
    /\ sess[s].pc \in {"repairing", "prepared", "running"} /\ deaths < scene.deaths
    /\ sess' = [sess EXCEPT ![s].pc = "dead"]
    /\ deaths' = deaths + 1
    /\ UNCHANGED <<scene, graph, edits, est, revision, row, results, causes, job,
                   input, pending>>

(* The recovery takes an output that was finished, queues other abandoned  *)
(* jobs again and settles the begun execution as failed.                   *)
Recover(s) ==
    /\ sess[s].pc = "dead" /\ \A t \in Sessions : sess[t].pc # "repairing"
    /\ pending[s] # None => Settleable(s)
    /\ \E st \in {"done", "failed", "queued"} :
           job' = [j \in DOMAIN job |->
               IF job[j].st = "running" /\ job[j].own.s = s
               THEN [job[j] EXCEPT !.st = st] ELSE job[j]]
    /\ row' = IF pending[s] = None THEN row
              ELSE [row EXCEPT ![pending[s].c] = FailedRow(pending[s].c)]
    /\ pending' = [pending EXCEPT ![s] = None]
    /\ sess' = [sess EXCEPT ![s] =
           [@ EXCEPT !.pc = "over", !.guard = {}, !.units = {}, !.todo = {},
                     !.seen = <<>>]]
    /\ UNCHANGED <<scene, graph, edits, est, revision, results, causes, input, deaths>>

(* The user edits the graph. *)
Edit(sh) ==
    /\ edits < scene.edits /\ sh # graph
    /\ graph' = sh /\ edits' = edits + 1
    /\ UNCHANGED <<scene, est, revision, row, results, causes, job, input, pending,
                   sess, deaths>>

-------------------------------------------------------------------------------
NoSession == [pc |-> "idle", cmd |-> None, c |-> {}, sh |-> None, rev |-> 0,
              root |-> None, lin |-> None, seen |-> <<>>, units |-> {},
              todo |-> {}, guard |-> {}]

(* A project whose graph has been registered and that has run nothing. *)
Init ==
    /\ scene \in Scenes
    /\ graph = scene.first /\ edits = 0 /\ revision = 0 /\ deaths = 0
    /\ est = [c \in Shapes[graph].parts |-> 0]
    /\ row = [c \in Shapes[graph].parts |-> Queued(graph, 0)]
    /\ results = <<>> /\ causes = <<>>
    /\ job = [j \in DOMAIN Jobs |->
                  [st |-> IF j \in scene.late THEN "absent" ELSE "queued", own |-> None]]
    /\ input = [n \in Nodes |-> None]
    /\ pending = [s \in Sessions |-> None]
    /\ sess = [s \in Sessions |-> NoSession]

Next ==
    \/ \E s \in Sessions :
           \/ Start(s) \/ Refused(s)
           \/ PrepareFresh(s) \/ PrepareSelected(s) \/ PrepareResume(s)
           \/ BeginRepair(s) \/ RepairUnit(s) \/ FinishRepair(s)
           \/ Observe(s) \/ BeginFull(s) \/ BeginSelected(s)
           \/ MarkReady(s) \/ SettleDone(s) \/ SettleFailed(s)
           \/ Quit(s) \/ Die(s) \/ Recover(s)
    \/ \E s \in Sessions, j \in DOMAIN Jobs :
           \/ Claim(s, j)
           \/ \E st \in {"done", "failed"} : FinishJob(s, j, st)
           \/ \E n \in Nodes : Publish(s, j, n)
    \/ \E j \in scene.late : Arrive(j)
    \/ \E sh \in scene.to : Edit(sh)

Spec == Init /\ [][Next]_vars
-------------------------------------------------------------------------------
(* A row read_component_state_record accepts. *)
Readable(c) ==
    LET r == row[c]
        kept == Retained(c)
    IN  /\ c \in Shapes[r.sh].parts
        /\ r.kept # None => r.kept[2] = r.gen
        /\ r.life = "queued" => r.lin = None /\ ~r.mis /\ kept = None
        /\ r.life = "running" => r.lin = IF kept = None THEN None ELSE kept.lin
        /\ r.life \in {"sampled", "done"} =>
               kept # None /\ kept.life = r.life /\ kept.lin = r.lin
        /\ r.life = "failed" => r.lin = None

(* However executions, preparations, repairs and recoveries follow each    *)
(* other, every row stays one that read_component_state_record accepts:    *)
(* the lifecycle, the lineage and the retained result of a row agree, so   *)
(* no later command stops on damaged component state.                      *)
RowsReadable == \A c \in DOMAIN row : Readable(c)

(* Whatever arrives, and whatever other commands do, while a component     *)
(* runs, its begun execution can still be settled: the settlement never    *)
(* finds that the row it started from has moved on.                        *)
PendingSettles ==
    \A s \in Sessions : pending[s] # None => Settleable(s)

(* A component is misaligned exactly when one of its nodes has a recorded  *)
(* first cause at the current generation, whichever arrivals, preparations *)
(* and settlements interleave.                                             *)
CausesAgree ==
    \A c \in Active :
        row[c].mis <=> \E n \in c :
            <<n, row[c].gen>> \in DOMAIN causes /\ causes[<<n, row[c].gen>>] = c

Foreign(i, c) == IF i = None \/ i.c \cap c # {} THEN None ELSE i

(* Nothing that other components gave to a component that counts as done   *)
(* and aligned has changed behind its back: its managed inputs are those   *)
(* its successful execution began with, except where another arrived while *)
(* it ran, which nothing marks (component_misalignment.py:227).  So none   *)
(* was taken away under the running component, and nothing was taken away, *)
(* replaced or added after it had settled.                                 *)
AlignedCurrent ==
    \A c \in Active \cap Shapes[graph].parts :
        row[c].life = "done" /\ ~row[c].mis =>
            \A n \in c : Foreign(input[n], c) = Foreign(Retained(c).inp[n], c)

(* With nobody at work, a reset of an active component of the graph is not *)
(* refused by what the project itself recorded about the receivers of its  *)
(* inputs.  README.md:431 promises the same full preparation as a run; the *)
(* registration that retires a removed receiver breaks it.                 *)
ResetPossible ==
    (\A s \in Sessions : sess[s].pc \in {"idle", "over"}) =>
        \A c \in Active \cap Shapes[graph].parts : Accepts(row, Receivers(c))
===============================================================================
