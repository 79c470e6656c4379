# Verification of the micro-workflow manager (MWF)

MWF runs the jobs of a graph of nodes on one machine or on several processes
that share a project directory. Its state is a SQLite database
(`.mwf/state.db`: jobs, owners, sessions, components, receipts) and plain files
(`node/<node>/jobs/<id>/output.json`, lock files). This directory holds TLA+
models of its core, TLC runs over small instances, and TLAPS proofs that hold
for every instance. `PROJECT.json` maps every definition to the lines it
models, and lists components, runs, mutants, hazards, findings and theorems.

    tlc -workers 2 -config JobExecution.cfg MCJobExecution
    tlapm JobExecutionProofs.tla

## 1. Inventory

| Component | State | Operations | What makes it correct | Module |
|---|---|---|---|---|
| Job execution (`storage/execution_*.py`, `workflow/job_lifecycle.py`) | `jobs`, `job_instances`, `job_execution_owners`, `output.json`, execution fences | claim, release, publish, finalize, clean up | an active execution belongs to the one running session that holds its component; no result of an overtaken attempt becomes visible | `JobExecution` |
| Sessions (`storage/execution_sessions.py`, `session_*.py`, `workflow/execution_session_driver.py`) | `execution_sessions`, heartbeats | create, heartbeat, exit decision, settle | the end of a pending component overlooks no accepted restart, and the session ends | `JobExecution`, `Interrupts` |
| Component rows (`storage/component_*.py`, `resume_preparation.py`, `selected_*.py`) | `component_reservations`, `component_states`, successful results, alignment generations, misalignment causes | reserve, begin, settle, resume, mark an arrival | lifecycle, retained result, cause and pending work agree; nothing changes the inputs of an aligned result unmarked | `ComponentResults`, `JobExecution` |
| Membership (`storage/membership_*.py`, `unproduced_membership.py`) | `active_components`, revisions, history | register an edited graph, retire, repair unit by unit | repaired rows are readable, the rest of the project goes on | `ComponentResults`, `FileOperations` |
| Session recovery (`storage/native_recovery*.py`) | `recovery_receipts`, staged files | observe, stage, commit, replay | only abandoned sessions are recovered, finished outputs are kept, a recovery that dies is replayed | `JobExecution`, `FileOperations`, `Interrupts` |
| Restart (`storage/restart_*.py`, `native_cleanup.py`, `operation_lock.py`) | `restart_receipts`, private outputs, fences | preflight, fence, capture, prepare, stage, commit, restore, abort, discard, recover | all or nothing, no output lost, none of an earlier generation visible | `RestartOperation`, `AtomicRestart` |
| Preparation, input publication, clipboard (`storage/preparation_*.py`, `input_publication*.py`, `clipboard_*.py`) | receipts, attempts, staged trees, receiver guards | hold, stage, commit, abort, clean up, recover | files and rows agree, everything undecided can be undone, everything is settled | `FileOperations` |
| Job creation (`storage/job_creation.py`, `job_batches.py`, `auto_job_creation.py`, `workflow/job_creation.py`) | rows, job directories, idempotency keys, id sequence | allocate, reserve, make, commit, discard | each job has the input of its own creator, one key is one job | `JobCreation` |
| Mutation lane (`storage/sqlite/mutation_writer.py`, `connection.py`) | priority queue, serials, heap, writer thread, futures | submit, batch, execute, resolve, barrier, retire, close | one writer, no lost request, exact watermark, drained close; what a caller is told is never better than what the database holds | `MutationWriter`, `AtomicMutations` |
| Threaded runner (`runners/threaded.py`, `storage/job_sources.py`) | worker table, source buffer, limit, results | take, load, run, retire, manage | source order, no job lost, workers joined, the run ends | `ThreadedRunner` |
| Burst operations (`workflow/component_execution_operation.py`, `node_execution_group.py`) | offered restarts, refusals | replace, offer, refuse | a restart of a running component is served | `JobExecution` |
| Schedulers (`workflow/dag_scheduler.py`, `component_scheduler.py`, `node_scheduler.py`) | ready sets, pumps, waiting gates, budget | launch, pump, observe, resolve, stop | no false quiescence or deadlock, failure joins the pumps, the loop ends | `Schedulers` |
| Interrupts (`storage/interrupt_*.py`, `workflow/interrupt_execution.py`) | admissions, pause requests, holds, transfers, fences | admit, pause, acknowledge, freeze, settle, recover | predecessors stand still while a target is frozen, reservations return, all go on | `Interrupts` |
| Tasks (`workflow/task_execution.py`, `supervisor*.py`, `api_admission*.py`, `fibers.py`, `runners/api.py`) | permits, watches, deadlines, lanes | acquire, start, watch, time out, retry, release | capacity is exact under limits that go up and down, no false timeout, controllers return | `TaskExecution` |
| Network manager (`network/`) | clients, shards, request queue | dispatch, replace a shard | requests resolve once | not modelled |
| Sampling, command line, monitoring, paths | none | select, parse, render | | not modelled |

Interactions. A scheduler gives a node's jobs to a runner; a worker of the
runner pulls a job, claims it through the mutation lane, runs its task, takes
the job's fence (a file lock shared by all processes), checks that its
execution is still current, writes `output.json`, releases the fence and
finalizes the row through the lane. Meanwhile `mwf restart`, `mwf recover`,
`mwf cancel` and `mwf threads` act from other processes through the same
database, fences and operation locks.

What is hard: every claim, publication and terminal update races restarts,
recoveries and resumes of other processes; file moves and database commits
cannot be one transaction, so receipts must survive a crash between any two of
them; the liveness of a session is a guess when its host is another one; worker
and writer threads are started and retired on demand.

## 2. Plan

The order in which the modules were written, most important behaviour first,
and what each composes with:

1. `JobExecution`, with proofs: the lease protocol everything else relies on.
2. `MutationWriter` against `AtomicMutations`, with proofs: why a transaction
   may be one step in the other modules.
3. `RestartOperation` against `AtomicRestart`: why a restart may be one step in
   `JobExecution`.
4. `ThreadedRunner`, then `Schedulers`, which takes from it that a pump runs
   what its source gives and ends.
5. `Interrupts` over sessions, `TaskExecution` below the claim of a job.
6. `FileOperations`, `JobCreation` and `ComponentResults`: the operations
   between executions.

Proved since: everything that the runs check of 1 to 5 and of `JobCreation`,
liveness apart. Still worth proving, in this order: `RowsReadable` of
`ComponentResults`, `Undoable` of `FileOperations`. No module with a theorem
reaches a `RECURSIVE` operator.

## 3. The models

Mutations of the database are serialized by the lane (that is what
`MutationWriter` is about), so in the other modules one transaction is one
step. File operations and lock operations are steps of their own wherever two
of them are not under one lock. Operators named `Bug...` are not part of any
specification: each is the definition after it with a plausible mistake, used
to show that a property can fail.

### JobExecution

One component, its jobs, and sessions that are processes. `row` is a `jobs` row
with its last owner and its last restart event, `owner` the owners table, `ctl`
the place of an attempt controller in `_run_job`, `fence` the file locks, `out`
the files. The actions are those of the code: claim, start, detect a restart,
take the fence, write, finalize, clean up, replace, publish the success of the
component, the exit decision, recovery, owned and independent restarts, cancel,
resume, crash, stale and fresh heartbeats. `FalseSuspicion` lets a living process look dead (another host with
a late heartbeat). The sessions in `NodeCalls` follow `NodeExecutionGroup`, the
others `ComponentExecutionOperation`.

Two running sessions are a main session and an interrupt session: a unique index
allows one main session only. Batched claims and terminal updates are taken one
job at a time. A cancelled job that a worker had already pulled is still
claimed, as in the code. An independent restart of a done job in a session that
still has pending work makes the exit decision raise (`ExitFails`).

The end of a component and that of its session are two transactions.
`FinishComponent` publishes a success and deletes the pending row, while session
and reservation stay; `ExitSession` decides the exit later and fails a component
that is still pending. Between them every operation of other processes is
possible. A terminal update may be made although its answer is lost (`Finalize`);
a claim whose answer is lost is the path that `RaisePermitError` takes from it.

### MutationWriter and AtomicMutations

A submitting thread holds the close gate, takes a serial under `_guard` and
enqueues. A writer thread takes the first request, collects a batch of one
priority within row limits, executes it in one transaction with a savepoint for
each unit, resolves the futures, records the serials in the lazily cleaned heap,
rechecks the queue and retires. The 250 ms timeout of the get is no action: it
cannot fire, since a writer starts with a request queued and retires with the
batch that drains the queue (`NeverIdles`, checked and proved).
`close_database_connections` is a barrier that keeps the gate. `AtomicMutations` says what a caller may rely on, and
`ImplementsService` that the lane provides it. The urgent flag is cleared
outside the mutex and can be lost; it is a hint for admission only, so the
property is that a set flag is justified, not that it is set.

A transaction may refuse some of its requests (`ExecuteBatch`), be rolled back
(`TransactionFails`), or be kept and reported as failed: the notification after
the COMMIT can raise (`storage/sqlite/connection.py:364`), and then the whole
batch gets the error (`NotificationFails`). `AtomicMutations` therefore does not
say that an error leaves no effect, which the code's own callers do not rely on
either (`storage/job_batches.py:86`). It says that a success is never told of
what the database does not hold, and that a transaction is never half told:
either what it accepts is exactly what it keeps, or all of it is refused
(`Doubt`). `SubmissionOrder` is about the effects that were kept, those of
refused batches included.

### ThreadedRunner

Workers and the manager of `_run_adaptive`, with the two conditions it uses:
one over the worker table, one over the source. A step is a critical section, a
pull or a job. `kind` is what is run: a list (`run_jobs`), a snapshot source, or
a live source that siblings feed and that closes at quiescence or is abandoned.
The schedulers always use a source (`known_count` is `None`).

### RestartOperation and AtomicRestart

`Begin` is the preflight with the operation lock, `TakeFence` waits for the
fences in address order, `Capture` validates again and records the outputs,
`Prepare` writes the receipt, `Stage` moves one output, `Commit` is the
transaction. A failure goes through `Restore`, `Rollback`, `Abort` and
`Discard`; a death leaves the receipt, and recoveries observe it without locks,
try the locks once, check again and go on with the same steps. An output is
identified by the generation that wrote it. Rows only move forward, so status
and generation stand for the whole row with its events when the code compares it
with a recorded reading. A recovery takes its locks in one step: it waits for
none of them and lets go of all if one is held.

`AtomicRestart` requeues the selection and withdraws its outputs in one step.
A scenario says who takes part, how the jobs stand at first, whether claims,
terminal updates and resumes of a target go on under a prepared receipt
(`interfering`), and how many deaths and faults there are. The refinement and
the settlement of every receipt hold where nobody interferes; the outputs are
intact in every scenario.

### Schedulers

The DAG loop (`dag`, `flight`, waves and the pump budget), one coordinator for
each Hoeflein component (`coord`, `why`), the pumps of its nodes and the place
of each job between cursor, claim and terminal update. Components, readiness
and the order of units are computed from the graph as in `topology.py`. A pump
is resident in a live component and finite elsewhere; a waiting node gets its
pump when its peers have nothing to do. `Requests` says what a session is asked
for: the queued jobs, a `refuse` and a `refuseafter` component, a deadlock
resolver, the components that an interrupt of another session may pause. Jobs
publish jobs, fail, or lose their terminal update; a source may fail to open.
What a selected execution changes is only the set of queued jobs.

### Interrupts

A main session over a chain of components and interrupt sessions that borrow a
part of its reservations, ask the running attempts of the direct predecessors
to pause, freeze the target when every attempt has acknowledged or ended, run
it and give back what they borrowed. Sessions, reservations, pause requests,
paused executions, transfers, holds and post-interrupt fences are the rows of
the tables of that name. Whether a pause request is requested or acknowledged
decides nothing and is left out; reading the parent states and freezing are two
steps, as in the code.

### TaskExecution

A job between its claim and its terminal update. API jobs are fibers of lanes
that share the limit of the node, and hold a permit of the project while their
handler runs; permit requests are mutations that are applied in order, in
batches, and whose answers may get lost. Every other job has a controller
thread and a handler thread for each attempt. The supervisor holds watches with
a total and a checkpoint deadline, exempts framework waits and handlers that
have left user code, and compares generations when the restart revision moves.
Time is the fact that a deadline has passed. A handler may run for ever.

The limit of the node and that of the project go up and down at any time
(`SetNodeLimit`, `SetApiLimit`: `mwf threads` and the limits a project reads
again). Lowering one takes nothing away: held permits and running fibers stay,
only new ones are refused. A lane reads its share (`ReadLimit`) before it pulls,
so a pull may rest on a share that has shrunk since. Two history variables
say what was there at the last reduction, `keptPermits` and `kept`; `CapacityExact`
lets nothing else exceed a limit.

### FileOperations

Preparations (fresh, resume, membership), input publications, clipboard
restores and session recoveries, each with the step order of its function
(`PreparationOrder` and so on): observe, take the operation lock and the locks
of the node, guard the receiver, allocate, stage, record `prepared`, publish,
commit, clean up; or restore, abort, discard. The node has two paths; a file is
the original, one of an operation, or one that an outsider wrote. An owner or a
recovery may die at every step, a step may fail, and the answer to a
transaction may be lost, in which case the owner reads the receipt to learn what
was decided. `mwf recover` observes rows without locks and checks them again
under its locks.

### JobCreation

Creators with automatic ids (published in groups by the lane), with an explicit
id, in batches that reserve their ids first, and the default jobs of a router.
The directory of a job is made before its row is committed, so each path cleans
up after a refusal, an error or a lost answer; a preparation of another session
deletes jobs and rewinds the id sequence in between. The staging files of
automatic inputs and the refresh of an existing default job are left out; the
file moves of the preparation are one step (they are in `FileOperations`).

### ComponentResults

What remains of a component between executions: row, retained result, first
cause of misalignment, managed inputs, and the partition of the nodes with its
revisions. The actors are runs, resets, resumes and selected executions, an
interrupt, jobs that arrive from outside, an editor of the graph, deaths and
the recovery. A command selects one component; the units of a repair commit in
any order; the regions of one registration share a revision; the cache that
skips a second arrival (`_component_arrival_latches`) is left out, since it only
saves a write; an interrupt is a run of its component (its admission is in
`Interrupts`).

An execution notes the managed inputs it begins with (`inp`, history). An input
that arrives while it runs takes its place there (`Reaches`), since the code
marks a settled receiver only (`storage/component_misalignment.py:227`) and
regards the result as aligned. `AlignedCurrent` then says that nothing else
changed: no preparation took an input from under a running component, and
nothing came, went or was replaced unmarked after it had settled.

## 4. Runs

| Run | Checks | Bounds |
|---|---|---|
| `job_lifecycle` | `LeaseOwnership`, `FenceProtectsGeneration`, `OutputMatchesRow`, `ReservationLifecycle`, `RowsMoveForward` (no stale publication, done stays done, a reclaim advances), `ExitServedRestarts` | 2 jobs, a component session and a node call; both jobs move together through one restart each; when one is done, the other is followed through 2 restarts with a cancellation or a false suspicion (constraint `Explored`) |
| `job_lifecycle_live` | `SessionEnds` | 1 job, 2 component sessions, no node call, 2 restarts, 1 cancellation |
| `mutation_lane` | `LaneSafe` (one writer, no lost request, no idle writer, exact watermark, justified pressure), `SubmissionOrder`, `ImplementsService`, `RequestsEnd` | 3 requests of which 2 in an urgent group and one that its caller may drop (`Droppable`), 2 threads, the barrier of a closing storage, every way a batch can fail |
| `runner_live` | `Delivers` (source order, nothing lost or run twice, workers joined), `ThreadsEnd` | 2 jobs, 3 threads, 1 limit change, snapshot and live source, failing job, pull and limit |
| `restart` | `OutputIntact` (kept, none stale, aborts clean), `NoMutualWait`, `ImplementsAtomic`, `Settled` | 2 jobs; four scenarios with 1 or 2 operations, 1 or 2 recoveries, up to 2 deaths and 2 faults, with and without interfering attempts |
| `schedulers` | `NoFalseQuiescence`, `NoFalseDeadlock`, `UnitsAccounted` (nothing runs on, pump budget, success is complete), `DagEnds` | 5 nodes in 3 components, 8 jobs, six requests, a budget of 3 pumps |
| `interrupts` | `PausedStandStill`, `ScopeAccounted`, `FrozenInput`, `AllGoesOn` | 3 components in a chain, 4 jobs, 2 interrupts that nest, 1 restart, the death of the main session |
| `task_execution` | `CapacityExact` (permits, lanes), `NoFalseTimeout`, `ControllersReturn` | two API jobs on 2 lanes that meet one mishap; one API job with a deadline, or one threaded job with both, a retry and two mishaps (a change of a limit, a restart, a pause, a fault); node limits 1 and 3, project limits 2 and 3 with one permit held elsewhere |
| `file_operations` | `FilesMatchRows`, `Undoable`, `OthersUndisturbed` (outsiders, live owners), `RecoverySettles` | six pairs of operations with one recovery, four single operations with two; 2 mishaps |
| `job_creation` | `DirectoriesMatchRows` (each job its input, no litter, next address free), `OneJobPerKey`, `CreatorsEnd` | four meetings of 3 creators, 2 keys, 5 ids, 2 mishaps, one preparation |
| `component_results` | `RowsReadable`, `PendingSettles`, `CausesAgree`, `AlignedCurrent` | 2 nodes, three graph shapes, seven scenarios of up to 3 commands and an interrupt, an arrival, an edit, a death |
| `reset_after_removed_receiver` | `ResetPossible`, expected to fail | 2 runs, one edit that removes the receiver |

Why the bounds are enough: the races are between an attempt or operation, the
action that overtakes it and a third party that acts on what either left (a
recovery, a second session, a second restart); two jobs are needed where order
or partial completion matters, a second generation where something could come
back, two writer threads where one retires while the next starts, three workers
where one loads, one waits and one runs, three creators where one cleans up
what the second has replaced for the third. Scenarios name the meetings that
can happen, so that each is explored to its end instead of all at once. Every
property is broken by a mutant of the code within the same bounds. Deadlock
checking is off: a workflow that has finished stops. Symmetry (over jobs) is
used only in `job_lifecycle`, which checks no liveness; its constraint cuts off
states and therefore stands in a safety run only. In `task_execution` the number
of mishaps depends on the workload (`Mishaps`): the race for capacity needs two
jobs and one change of a limit, under what is held or above it; the deadlines
need a single job and an overlap of two mishaps. Longer sequences of changes are
the matter of `CapacitySafety`, which is proved for every bound.

One run is expected to fail. `reset_after_removed_receiver`: once a component that received a managed input
is removed from the graph, it is retired (`storage/membership_retirement.py:6`)
although the input is still recorded, and the producer can be neither reset nor
run again ("Raw node has no active component membership"). `README.md:431` of
the repository promises for `reset` "the same full fresh preparation without
task execution".

### Where the properties stop

The properties hold as stated; each exception in them is a behaviour of the code
that was met while modelling and is spelled out here rather than hidden.

- `SessionEnds` is checked without node calls: `NodeExecutionGroup` forgets a
  refused restart (`workflow/node_execution_group.py:156`), and the exit
  decision offers it for ever. With `NodeCalls = {s1, s2}` TLC shows the loop.
  Of node calls only the safety is checked.
- `ExitServedRestarts` is about the step that ends the pending execution of a
  component, publication or exit: it leaves no accepted restart behind that was
  not offered and turned down. Nothing is said of what is accepted between a
  published success and the exit. A job that is cancelled and restarted there is
  a restart of the running session, but the exit decision looks only at failed
  attempts and at components with a pending row (`storage/execution_sessions.py:334`),
  so the session ends over the queued job. The plan of that decision says "An
  accepted restart returns its successor while preserving the running component,
  session, and reservation" (`docs/plans/0.6.2/component-session-settlement.md:9`).
  TLC shows the case with one job: success published (`FinishComponent`),
  `Cancel`, `OwnedRestart`, `ExitSession`.
- A restart accepted under a session that dies is adopted by a resume; the
  reader of pending work then raises (`storage/execution_ownership.py:213`).
  The model has the error (`UnreadableJobs`), no property forbids it.
- `runner_live` runs sources. `run_jobs` over a list loses all its workers when
  the limit is lowered over the last jobs (`runners/threaded.py:284`) and waits
  for ever; no scheduler calls it that way.
- An error of the limit provider ends the manager of a run while its workers go
  on (`runners/threaded.py:275`); `Joined` is about the other runs, and
  `LeftoversEnd` says that those workers end by themselves.
- A claim or terminal update between the receipt of a restart and its commit
  makes commit, abort (`storage/restart_receipts.py:474`) and every recovery
  refuse; the receipt stays prepared. `Settled` is about scenarios without.
- `ReturnsComplete` is about runs without pauses: a component that an interrupt
  releases between the readiness scan and the last look of the DAG loop
  (`workflow/dag_scheduler.py:337`) is not run, and the loop returns.
- `AllGoesOn` is checked where no attempt is paused twice at once: an attempt
  that already waits acknowledges no further pause (`interrupt_cooperation.py:61`),
  so a second interrupt on it waits for ever, and it for the interrupt. This needs
  two interrupts with the same predecessor (a fork instead of the chain).
- Only the main session dies in `interrupts`: an interrupt that dies while
  another has borrowed from it cannot be recovered, and neither can the other
  (`storage/interrupt_settlement.py:155`).
- `PermitsExact` promises a permit to the first attempt of an API job only: a
  deadline that passes during a pause starts the next attempt without one
  (`interrupt_cooperation.py:53`).
- `ControllersReturn` is about tasks with a deadline: a poll whose read fails
  after the restart revision was stored (`workflow/supervisor_core.py:328`)
  forgets the restart, and the controller waits for its stale handler.
- `CapacityExact` promises nothing to work that ran before a limit was lowered,
  and lets a lane that had read the higher share pull once more.
- `NoFalseTimeout` counts a pause as user code, as the deadlines of the code do.
- `RecoverySettles` excepts `HalfCleared`: a recovery of an allocating clipboard
  that dies between removing the tree and the directory
  (`storage/clipboard_recovery.py:322`) leaves what every later one refuses.
- `OutsiderKeepsFile` leaves out managed inputs, which are replaced in place,
  and `RecoverySettles` private material that no row records.
- `RowsHaveInputs` and `AddressFree` except `overtaken`: a preparation rewinds
  the id sequence over reserved ids, and the clean-up of a doubtful publication
  may then remove the directory of a replacement (`storage/job_batches.py:94`).
- A process that dies between making the directory of an automatic id and the
  commit (`storage/auto_job_creation.py:253`) blocks that id (`left`).
- `AlignedCurrent` does not say that a result used what arrived while it was
  computed; a job may have read before. It is about the components of the
  current graph, after at most one edit. A repair that stops after a unit, followed by an edit back, leaves
  rows that are done although their inputs are gone.

Observations without a run: splitting a cyclic component with an internal
managed input makes `run` and `reset` of the producer fail with "Damaged
membership preparation producing identity" (the deletion is planned in the unit
of the receiver, the receipt wants that of the producer; `ReceiptNamesProducer`);
`reset` of the receiver helps. A target component starts at generation 0
(`storage/unproduced_membership.py:26`), so a later arrival may meet the cause of
an older generation. A job that arrives while a done component is re-run by a
selected execution is not marked. `refuseafter` reads its boundary before
readiness (`workflow/dag_scheduler.py:191`). `signal_handler_complete` without a
supervisor overwrites "superseded". A lost answer to the preparation of a
clipboard leaves the node guarded until the next recovery. Some functions have
no caller: `fail_running_component`, `complete_component_fresh_preparation` and
`complete_component_reset_preparation` of `component_transitions.py`,
`delete_jobs_generated_by_components` and `clear_node` of `cli/cleanup.py`.

### Fairness

Threads and processes that are not dead keep taking their steps: weak fairness
of each worker, writer, manager, driver, controller, operation and recovery. A
task and a file write end. `mwf recover` is run again as long as something is
left; a dead process is found dead in the end (its heartbeat ages). Nothing is
assumed about claims, limit changes, restarts, crashes and faults, which happen
or not, within their bounds. Strong fairness is assumed in one place: in
`FileOperations` the observation of an operation by `mwf recover`, which is
possible only between two attempts of the same recovery; someone runs the
command until it has dealt with every operation. In `Schedulers` an interrupt
releases what it pauses (that is `AllGoesOn` of `Interrupts`). In `TaskExecution`
a deadline passes; no handler is assumed to end.

## 5. Proofs

Each theorem is about `Spec`, for every value of the constants that satisfies the
named `ASSUME` of its module. An invariant that a run checks is seldom inductive.
Each proof module therefore states an invariant that is (TLC has checked it on
the bounds of the run before it was proved), shows that every action preserves
it, one lemma for each action, and reads the properties off it.

| Module | Theorems | Invariant |
|---|---|---|
| `JobExecutionProofs` | `TypeCorrect`, `LeaseSafety`, `ReservationSafety`; `FenceSafety`, `OutputSafety`, `ForwardSafety`, `ExitSafety` | `IInv`; `PInv`, over `IInv` |
| `MutationWriterProofs` | `LaneSafety` and its parts, `CloseIsDrained`, `OrderSafety`, `Refinement` | `IInv`, `OrderInv` |
| `ThreadedRunnerProofs` | `RunnerSafety` | `RInv` |
| `RestartOperationProofs` | `RestartSafety`, `FenceOrder`, `RestartRefinement` | `OInv` |
| `InterruptsProofs` | `PauseSafety`, `ScopeSafety`, `FrozenSafety` | `SInv` |
| `TaskExecutionProofs` | `CapacitySafety`, `TimeoutSafety` | `TInv` |
| `SchedulersProofs` | `QuiescenceIsFinal`, `DeadlockIsReal`, `UnitsAreAccounted` | `IndInv` |
| `JobCreationProofs` | `KeysAreUnique`, `CleanupIsExact` | `CInv` |

**Leases.** An active execution is the last one issued for the job, owned at its
generation by the running session that holds the component. `IInv` adds that ids
in use have been issued (a claim's id is new, so it overwrites no owner), that
pending work belongs to the reservation holder (so that settling a session ends
every lease of the component), the reservation life cycle itself, and that a
controller past its claim knows its execution and its result (so that what it
publishes is well typed).

**Publication.** `PInv` relates a controller to the row it was claimed from. In a
pending session its execution is current, or was overtaken by a later generation
or a cancellation. Under the fence the row stays where the controller found it,
since restart, recovery and resume take the same fence; a session that is
recovered meanwhile leaves the component failed until a resume, which needs the
fence. What was written is there as long as the row has not moved on. The action
properties follow from the same invariant: what a reclaim finds is a later
generation. For the end of a component a controller at rest, idle or done, is all
that a published success can leave (`FinishAtRest`): every other controller of
the session has a job that is not done. So no accepted restart stands at a
publication (it would have queued its job), and one that stands at the exit of a
pending component is either offered by it or was turned down at this generation.
Once a success is published the session runs on without a pending execution, so
`PInv` ties only the controllers that are not at rest to a pending one.

**The lane.** `IInv` relates `_thread` to the thread in the loop and to a
non-empty queue, the heap to the pending serials, the place of a request (gate,
queue, batch, resolved) to what has been decided and told about it, and the
target of a barrier to the serials given so far. The watermark needs that the
heap contains every pending serial beside stale ones. `OrderInv` adds that the
decided requests of a priority are older than the queued ones and that a batch
is sorted. `Refinement` shows that each step is a step of `AtomicMutations` or
none; a batch that is kept and reported as failed is its `Doubt`.

**The runner.** `RInv` says that the worker table is exact, that one worker loads
at a time, that what was pulled and not taken is in order, in the buffer or in
the hand of that worker, that each job taken is with one worker or in the
results under its index unless an error has stopped the run, and that a source
that gives nothing has given everything. Without the last two a run could return
while a worker still held a job.

**Restart.** `OInv` says who holds the operation lock and the fences at each
place of the protocol, that an output is either in place or, under a prepared
receipt, at the one private name that the receipt records, that two prepared
operations share no target, and that no target gets a new generation while its
files may be moved. `RestartRefinement` maps the
outputs: one that is staged under a prepared receipt still counts as visible. At
the commit all of them vanish at once, at a restoration none has ever gone.

**Interrupts.** `PauseSafety` needs that an attempt that is asked is recorded (no
claim comes between the request and the freeze, since a claim meets the
request), that a recorded generation is never claimed again, and that an
acknowledged attempt does not go on while a request of an open interrupt is
left. `ScopeSafety` needs that the transfers of a component form a chain: nobody
lends it twice, or borrows it twice, and whoever holds it has not lent it. Then
the component goes back to the one link before the session that ends, and
everybody further up still reaches the holder. `Descends`, the bounded search of
the code, is first shown to be the least set that is closed under lending: what
it computes for every number of sessions is proved by a least counterexample and
a cardinality argument, since induction over data is not available as such.

**Tasks.** For the permits `TInv` says what a controller knows at each place: it
holds one exactly when the table has its row, except between an answer and the
step that takes it, where the answer tells which, a lost one included. Each
request in the mail is the only one of its job, of its generation, and pending.
A batch is a recursion over the mail; that the limit holds and each answer tells
the truth after every prefix is shown by a least counterexample. A batch grants
only below the limit, and a lower limit makes all permits of that moment kept
ones, of which a later batch adds none: the permits are within the limit or all
from before. For the lanes `TInv` keeps the fibers of each one that are not kept
(`Counted`) within its share. A share never shrinks when another lane returns or
the limit is raised (integer division and remainder), a pull on an outdated share
adds kept fibers only, a lower limit leaves none to count, and the shares of the
running lanes, ordered by rank, add up to the limit. For the deadlines it
says that an armed checkpoint deadline means user code, a pause or an exemption,
and that it is off while the framework has the job.

**Schedulers.** A coordinator decides on a snapshot that is older than its
decision. `IndInv` says what such a snapshot is worth: once it shows neither
queued nor running jobs, none appears, since the parents are complete when a
unit begins (`ComponentReady` stays true), only a running job of the unit or of
a parent publishes into it, and only the coordinator itself starts pumps. For a
deadlock it says that nothing runs, that every queued job has no pump and that
the peer it waits for can finish no more. Around this stand the place of a job
(`Carried`: its row, the pump that has it, the cursor), the stage of a unit, the
units in flight, and the pumps each holds. The budget needs sums over sets and
what one allocation gives to each node; that the loop looks at every unit needs
that a sequence of all units in topological order exists, which is proved by a
least counterexample on the number of units (the units are shown to be the
classes of mutual reachability, so the graph between them has no cycle). An
earlier form of `NoFalseDeadlock` said that no thread has any job of the
component left. The proof attempt failed on it, and TLC confirmed the case on a
component with a live node and a peer that waits for it: a job that has just
failed is still raising in its pump while the coordinator, which sees the failed
row and the waiting peer, concludes. The property now names that exception, and
the instance has the component.

**Creation.** `CInv` says for each place of a creator what it knows and what it
has made: in a batch exactly the first of its ids, under a transaction exactly
one directory, for a key that resolves to nothing. Inside a group the pending
ids are the ones that follow the next id without a gap, and no two members carry
one key. The sequence is ahead of every row and of every reserved id, so a new
address is nobody's; the directories a creator has made are its own until it has
ended, and every other directory has a row. `KeysAreUnique` then needs that every
registration looked its keys up in the same transaction; `CleanupIsExact` that
the clean-up removes only directories without a row, and all of them. A
preparation that rewinds the sequence (`overtaken`) suspends what is said about
addresses and not what is said about keys. Three ways of ending (a clean-up, a
failed group, a process death) are one lemma over the set of creators that end
and the set of directories that go.

The assumptions: `Nobody`, `None` and the like are no session, request or
thread; priorities and limits are naturals, weights are positive, closers are
callers; sets of sessions, components and jobs are finite where one is searched
or counted; functions such as `Scope`, `Home` and `Pred` have the types their
comments give; a job publishes into its own component or a child of it, a node
waits only for peers of its component, and an `add_jobs` call has no key twice,
each of which the code validates.

Only model-checked: `FileOperations` and `ComponentResults`, and all liveness
(it needs fairness and `ENABLED`, which the prover does not handle). The first
two have long step orders with a case for each kind of operation; their
invariants have not been made inductive.

## 6. Not modelled

- Downstream sessions that adopt components of another session.
- The network manager: an asyncio loop with httpx clients whose shards and
  stalls depend on the timing of that library. A job sees a future that resolves
  or raises, which is how `TaskExecution` treats its handlers.
- Sampling: a random selection at admission; `ComponentResults` takes its
  outcome as an arbitrary part of the jobs.
- The process runner and the direct runner, which keep no state of their own.
- Router, scoped context and the call routing of fibers; monitoring; parsing and
  rendering of the command line; previews, which read only.
- Ownership of thread overrides by sessions, per-thread SQLite connections and
  their pruning, schema migrations, diagnostics files.
- The contents of inputs and outputs, and the Windows variants of file locks.
