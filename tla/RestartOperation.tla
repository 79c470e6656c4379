-------------------------- MODULE RestartOperation --------------------------
(***************************************************************************)
(* A manual restart as the code carries it out (storage/restart_*.py): the *)
(* outputs of the selected jobs are moved to private names one by one,     *)
(* under the execution fences of the jobs, between a durable "prepared"    *)
(* receipt and the transaction that requeues the jobs and commits it.  An  *)
(* operation that fails moves them back and aborts its receipt; one whose  *)
(* process dies leaves a receipt for "mwf recover" (native_cleanup.py).    *)
(*                                                                         *)
(* Job attempts are those of JobExecution, reduced to what a restart can   *)
(* meet.  An output is the generation that produced it.  Rows only move    *)
(* forward, so status and generation stand for the row, its instance, its  *)
(* owner and its events in a comparison with an earlier reading.           *)
(*                                                                         *)
(* An operator named Bug... is not part of the specification: it is the    *)
(* definition after it with a plausible mistake, for mutation runs.        *)
(***************************************************************************)
EXTENDS Integers, FiniteSets

CONSTANTS
    Jobs,           \* job addresses, as numbers in their sorting order
    Ops,            \* restart operations, each the process that performs it
    Recoverers,     \* processes that run "mwf recover", again and again
    Nobody,         \* a free lock
    Worker,         \* the lock holder that is an attempt of the job
    MaxGeneration,  \* bound on the generations of a job
    Scenarios       \* who takes part, how jobs stand at first, whether attempts
                    \* and resumes go on under a prepared receipt, and bounds on
                    \* the processes that die and the file operations that fail

Actors == Ops \cup Recoverers

ASSUME RestartAssumption ==
    /\ Jobs \subseteq Nat /\ IsFiniteSet(Jobs)
    /\ Ops \cap Recoverers = {} /\ {Nobody, Worker} \cap Actors = {} /\ Nobody # Worker
    /\ MaxGeneration \in Nat
    /\ \A s \in Scenarios :
          /\ s.actors \subseteq Actors /\ s.interfering \in BOOLEAN
          /\ s.first \subseteq {"queued", "running", "done", "failed"}
          /\ s.crashes \in Nat /\ s.faults \in Nat

VARIABLES
    row,      \* jobs: status and generation
    visible,  \* output.json of every job
    saved,    \* .restart-<operation>-output.json of every job
    receipt,  \* restart_receipts.state
    plan,     \* the manifest: targets, their rows and their outputs
    fence,    \* holder of the execution fence of every job
    lock,     \* holder of the operation lock
    at,       \* where an actor is: place, operation, jobs left in its loop
    lease,    \* the attempt of a job
    scene,    \* the scenario
    crashes,  \* the processes that died
    faults    \* the file operations that failed

files == <<visible, saved>>
locks == <<fence, lock>>
vars == <<row, files, receipt, plan, locks, at, lease, crashes, faults, scene>>

NoOutput == -1
Terminal == {"done", "failed"}
Rows == [status : {"queued", "running"} \cup Terminal, gen : 0 .. MaxGeneration]
Outputs == {NoOutput} \cup 0 .. MaxGeneration
NoPlan == [targets |-> {}, pre |-> {}, original |-> {}]
Places == {"idle", "fence", "capture", "prepare", "stage", "lock", "check", "restore",
           "rollback", "abort", "discard", "release", "done", "dead"}
Idle(w) == [pc |-> "idle", op |-> w, left |-> {}, back |-> {}, broken |-> FALSE, seen |-> "none"]

TypeOK ==
    /\ row \in [Jobs -> Rows] /\ visible \in [Jobs -> Outputs]
    /\ saved \in [Ops -> [Jobs -> Outputs]]
    /\ receipt \in [Ops -> {"none", "prepared", "committed", "aborted"}]
    /\ \A o \in Ops : plan[o] = NoPlan \/
          /\ plan[o].targets \subseteq Jobs
          /\ plan[o].pre \in [plan[o].targets -> Rows]
          /\ plan[o].original \in [plan[o].targets -> Outputs]
    /\ fence \in [Jobs -> Actors \cup {Nobody, Worker}] /\ lock \in [Ops -> Actors \cup {Nobody}]
    /\ \A w \in Actors :
          /\ at[w].pc \in Places /\ at[w].op \in Ops \cup {w}
          /\ at[w].left \subseteq Jobs /\ at[w].back \subseteq Jobs
    /\ lease \in [Jobs -> [pc : {"none", "running", "guarded", "written"}, gen : 0 .. MaxGeneration]]
    /\ scene \in Scenarios /\ crashes \in 0 .. scene.crashes /\ faults \in 0 .. scene.faults

NoLease == [pc |-> "none", gen |-> 0]
Init ==
    /\ scene \in Scenarios
    /\ row \in [Jobs -> [status : scene.first, gen : {0}]]
    /\ visible = [j \in Jobs |-> IF row[j].status \in Terminal THEN 0 ELSE NoOutput]
    /\ saved = [o \in Ops |-> [j \in Jobs |-> NoOutput]]
    /\ receipt = [o \in Ops |-> "none"] /\ plan = [o \in Ops |-> NoPlan]
    /\ fence = [j \in Jobs |-> Nobody] /\ lock = [o \in Ops |-> Nobody]
    /\ at = [w \in Actors |-> IF w \in scene.actors THEN Idle(w)
                              ELSE [Idle(w) EXCEPT !.pc = "done"]]
    /\ lease = [j \in Jobs |-> IF row[j].status = "running" THEN [pc |-> "running", gen |-> 0]
                               ELSE NoLease]
    /\ crashes = 0 /\ faults = 0

First(S) == CHOOSE j \in S : \A k \in S : j <= k
Last(S) == CHOOSE j \in S : \A k \in S : j >= k

(***************************************************************************)
(* What an operation checks.                                               *)
(***************************************************************************)
Targets(o) == plan[o].targets
Original(o, j) == plan[o].original[j]

(* validate, require_restart_pre_state *)
Unchanged(o) == \A j \in Targets(o) : row[j] = plan[o].pre[j]

(* RestartFiles: require_staged, require_restored, restoration_steps *)
Moved(o, j) == visible[j] = NoOutput /\ saved[o][j] = Original(o, j)
InPlace(o, j) == visible[j] = Original(o, j) /\ saved[o][j] = NoOutput
Staged(o) == \A j \in Targets(o) : Moved(o, j)
Restored(o) == \A j \in Targets(o) : InPlace(o, j)
Restorable(o) == \A j \in Targets(o) : InPlace(o, j) \/ Moved(o, j)
Private(o) == {j \in Jobs : saved[o][j] # NoOutput}

(* require_no_prepared_overlap *)
NoOverlap(o) ==
    \A p \in Ops : receipt[p] = "prepared" => Targets(p) \cap Targets(o) = {}

(***************************************************************************)
(* The operation, up to its commit.                                        *)
(***************************************************************************)
Step(w, place, left) == at' = [at EXCEPT ![w].pc = place, ![w].left = left]

(* apply_owned_restarts takes a batch of running or failed jobs,           *)
(* apply_independent_restart any single job.                               *)
Eligible(T) ==
    /\ T # {} /\ \A j \in T : row[j].gen < MaxGeneration
    /\ Cardinality(T) = 1 \/ \A j \in T : row[j].status \in {"running", "failed"}
Begin(o, T) ==
    /\ at[o].pc = "idle" /\ Eligible(T)
    /\ plan' = [plan EXCEPT ![o] = [targets |-> T, pre |-> [j \in T |-> row[j]],
                                    original |-> [j \in T |-> NoOutput]]]
    /\ lock' = [lock EXCEPT ![o] = o] /\ Step(o, "fence", T)
    /\ UNCHANGED <<row, files, receipt, fence, lease, crashes, faults, scene>>

(* The fences are waited for, in the order of the addresses. *)
BugAnyOrder(o, S) == IF o = CHOOSE p \in Ops : TRUE THEN First(S) ELSE Last(S)
NextFence(o, S) == First(S)
TakeFence(o) ==
    LET S == at[o].left  j == NextFence(o, S) IN
    /\ at[o].pc = "fence" /\ S # {} /\ fence[j] = Nobody
    /\ fence' = [fence EXCEPT ![j] = o]
    /\ Step(o, IF S = {j} THEN "capture" ELSE "fence", S \ {j})
    /\ UNCHANGED <<row, files, receipt, plan, lock, lease, crashes, faults, scene>>

Capture(o) ==
    /\ at[o].pc = "capture"
    /\ IF Unchanged(o)
       THEN /\ plan' = [plan EXCEPT ![o].original = [j \in Targets(o) |-> visible[j]]]
            /\ Step(o, "prepare", {})
       ELSE plan' = plan /\ Step(o, "release", {})
    /\ UNCHANGED <<row, files, receipt, locks, lease, crashes, faults, scene>>

Prepare(o) ==
    /\ at[o].pc = "prepare"
    /\ IF Unchanged(o) /\ NoOverlap(o)
       THEN /\ receipt' = [receipt EXCEPT ![o] = "prepared"]
            /\ Step(o, "stage", {j \in Targets(o) : Original(o, j) # NoOutput})
       ELSE receipt' = receipt /\ Step(o, "release", {})
    /\ UNCHANGED <<row, files, plan, locks, lease, crashes, faults, scene>>

MoveAway(o, j) ==
    /\ visible' = [visible EXCEPT ![j] = NoOutput]
    /\ saved' = [saved EXCEPT ![o][j] = visible[j]]
MoveBack(o, j) ==
    /\ visible' = [visible EXCEPT ![j] = saved[o][j]]
    /\ saved' = [saved EXCEPT ![o][j] = NoOutput]

Stage(o) ==
    LET j == First(at[o].left) IN
    /\ at[o].pc = "stage" /\ at[o].left # {} /\ InPlace(o, j)
    /\ MoveAway(o, j) /\ Step(o, "stage", at[o].left \ {j})
    /\ UNCHANGED <<row, receipt, plan, locks, lease, crashes, faults, scene>>

MayCommit(o) == receipt[o] = "prepared" /\ Staged(o) /\ Unchanged(o)
Commit(o) ==
    /\ at[o].pc = "stage" /\ at[o].left = {} /\ MayCommit(o)
    /\ row' = [j \in Jobs |-> IF j \in Targets(o)
                              THEN [status |-> "queued", gen |-> plan[o].pre[j].gen + 1]
                              ELSE row[j]]
    /\ receipt' = [receipt EXCEPT ![o] = "committed"] /\ Step(o, "discard", Private(o))
    /\ UNCHANGED <<files, plan, locks, lease, crashes, faults, scene>>

(* A refused commit, or a failed move or transaction: restore, if the      *)
(* files allow it.                                                         *)
Undo(o) == Step(o, IF Restorable(o) THEN "restore" ELSE "release", Private(o))
CommitRefused(o) ==
    /\ at[o].pc = "stage" /\ at[o].left = {} /\ ~ MayCommit(o) /\ Undo(o)
    /\ UNCHANGED <<row, files, receipt, plan, locks, lease, crashes, faults, scene>>
Fault == faults < scene.faults /\ faults' = faults + 1
StageFails(o) ==
    /\ at[o].pc = "stage" /\ Fault /\ Undo(o)
    /\ UNCHANGED <<row, files, receipt, plan, locks, lease, crashes, scene>>

(***************************************************************************)
(* Recovery: a plan observed without locks is checked again under them.    *)
(***************************************************************************)
BugOnlyPrepared(o) == receipt[o] = "prepared"
NeedsCleanup(o) == receipt[o] = "prepared" \/ (receipt[o] # "none" /\ Private(o) # {})
Observe(r, o) ==
    /\ at[r].pc = "idle" /\ NeedsCleanup(o)
    /\ at' = [at EXCEPT ![r] = [Idle(r) EXCEPT !.pc = "lock", !.op = o, !.seen = receipt[o]]]
    /\ UNCHANGED <<row, files, receipt, plan, locks, lease, crashes, faults, scene>>

(* Neither lock is waited for: a held one leaves the operation alone. *)
BugIgnoresLive(o) == \A j \in Targets(o) : fence[j] \in {Nobody, o}
LocksFree(o) == lock[o] = Nobody /\ \A j \in Targets(o) : fence[j] = Nobody
RecoverLock(r) ==
    LET o == at[r].op IN
    /\ at[r].pc = "lock"
    /\ IF LocksFree(o)
       THEN /\ lock' = [lock EXCEPT ![o] = r]
            /\ fence' = [j \in Jobs |-> IF j \in Targets(o) THEN r ELSE fence[j]]
            /\ Step(r, "check", {})
       ELSE UNCHANGED locks /\ at' = [at EXCEPT ![r] = Idle(r)]
    /\ UNCHANGED <<row, files, receipt, plan, lease, crashes, faults, scene>>

(* require_cleanup_unchanged *)
RecoverCheck(r) ==
    LET o == at[r].op IN
    /\ at[r].pc = "check"
    /\ Step(r, CASE receipt[o] # at[r].seen -> "release"
                 [] receipt[o] = "prepared" /\ Unchanged(o) /\ Restorable(o) -> "restore"
                 [] receipt[o] = "prepared" /\ ~ (Unchanged(o) /\ Restorable(o)) -> "release"
                 [] OTHER -> "discard",
            Private(o))
    /\ UNCHANGED <<row, files, receipt, plan, locks, lease, crashes, faults, scene>>

(***************************************************************************)
(* Restoration, abort and discard, by the operation or by a recovery.      *)
(***************************************************************************)
Restore(w) ==
    LET o == at[w].op  j == Last(at[w].left) IN
    /\ at[w].pc = "restore" /\ at[w].left # {} /\ Moved(o, j)
    /\ MoveBack(o, j)
    /\ at' = [at EXCEPT ![w].left = @ \ {j}, ![w].back = @ \cup {j}]
    /\ UNCHANGED <<row, receipt, plan, locks, lease, crashes, faults, scene>>
RestoreFails(w) ==
    /\ at[w].pc = "restore" /\ at[w].left # {} /\ Fault
    /\ at' = [at EXCEPT ![w].left = @ \ {Last(at[w].left)}, ![w].broken = TRUE]
    /\ UNCHANGED <<row, files, receipt, plan, locks, lease, crashes, scene>>
BugDiscardsAnyway(w) == Step(w, "discard", Private(at[w].op))
AfterRestore(w) == IF at[w].broken THEN Step(w, "rollback", at[w].back) ELSE Step(w, "abort", {})
RestoreEnds(w) ==
    /\ at[w].pc = "restore" /\ at[w].left = {} /\ AfterRestore(w)
    /\ UNCHANGED <<row, files, receipt, plan, locks, lease, crashes, faults, scene>>

(* A partial restoration is taken back, as far as it goes. *)
Rollback(w) ==
    LET o == at[w].op  j == First(at[w].left) IN
    /\ at[w].pc = "rollback" /\ at[w].left # {}
    /\ IF InPlace(o, j) THEN MoveAway(o, j) ELSE UNCHANGED files
    /\ Step(w, "rollback", at[w].left \ {j})
    /\ UNCHANGED <<row, receipt, plan, locks, lease, crashes, faults, scene>>
RollbackFails(w) ==
    /\ at[w].pc = "rollback" /\ at[w].left # {} /\ Fault
    /\ Step(w, "rollback", at[w].left \ {First(at[w].left)})
    /\ UNCHANGED <<row, files, receipt, plan, locks, lease, crashes, scene>>
RollbackEnds(w) ==
    /\ at[w].pc = "rollback" /\ at[w].left = {} /\ Step(w, "release", {})
    /\ UNCHANGED <<row, files, receipt, plan, locks, lease, crashes, faults, scene>>

MayAbort(o) == receipt[o] = "prepared" /\ Unchanged(o) /\ Restored(o)
Abort(w) ==
    LET o == at[w].op IN
    /\ at[w].pc = "abort"
    /\ receipt' = IF MayAbort(o) THEN [receipt EXCEPT ![o] = "aborted"] ELSE receipt
    /\ Step(w, IF MayAbort(o) THEN "discard" ELSE "release", Private(o))
    /\ UNCHANGED <<row, files, plan, locks, lease, crashes, faults, scene>>

Discard(w) ==
    LET o == at[w].op  j == First(at[w].left) IN
    /\ at[w].pc = "discard" /\ at[w].left # {}
    /\ saved' = [saved EXCEPT ![o][j] = NoOutput] /\ Step(w, "discard", at[w].left \ {j})
    /\ UNCHANGED <<row, visible, receipt, plan, locks, lease, crashes, faults, scene>>
DiscardFails(w) ==
    /\ at[w].pc = "discard" /\ at[w].left # {} /\ Fault /\ Step(w, "release", {})
    /\ UNCHANGED <<row, files, receipt, plan, locks, lease, crashes, scene>>
DiscardEnds(w) ==
    /\ at[w].pc = "discard" /\ at[w].left = {} /\ Step(w, "release", {})
    /\ UNCHANGED <<row, files, receipt, plan, locks, lease, crashes, faults, scene>>

(* Leaving the locks, in order or because the process dies. *)
Unlock(w) ==
    /\ fence' = [j \in Jobs |-> IF fence[j] = w THEN Nobody ELSE fence[j]]
    /\ lock' = [o \in Ops |-> IF lock[o] = w THEN Nobody ELSE lock[o]]
Leave(w, place) ==
    at' = [at EXCEPT ![w] = [Idle(w) EXCEPT !.pc = IF w \in Ops THEN place ELSE "idle"]]
Release(w) ==
    /\ at[w].pc = "release" /\ Unlock(w) /\ Leave(w, "done")
    /\ UNCHANGED <<row, files, receipt, plan, lease, crashes, faults, scene>>
Crash(w) ==
    /\ at[w].pc \notin {"idle", "done", "dead"} /\ crashes < scene.crashes
    /\ crashes' = crashes + 1 /\ Unlock(w) /\ Leave(w, "dead")
    /\ UNCHANGED <<row, files, receipt, plan, lease, faults, scene>>

(***************************************************************************)
(* Attempts of the jobs, and the resume of a failed job.                   *)
(***************************************************************************)
Undisturbed(j) ==
    scene.interfering \/ \A o \in Ops : receipt[o] = "prepared" => j \notin Targets(o)
Current(j) == row[j] = [status |-> "running", gen |-> lease[j].gen]

Claim(j) ==
    /\ row[j].status = "queued" /\ lease[j].pc = "none" /\ Undisturbed(j)
    /\ row' = [row EXCEPT ![j].status = "running"]
    /\ lease' = [lease EXCEPT ![j] = [pc |-> "running", gen |-> row[j].gen]]
    /\ UNCHANGED <<files, receipt, plan, locks, at, crashes, faults, scene>>

(* guard_job_execution, write_output, finalize_job_execution *)
Guarded(j) == Current(j)
GuardEnter(j) ==
    /\ lease[j].pc = "running" /\ fence[j] = Nobody /\ Undisturbed(j)
    /\ IF Guarded(j)
       THEN /\ fence' = [fence EXCEPT ![j] = Worker]
            /\ lease' = [lease EXCEPT ![j].pc = "guarded"]
       ELSE fence' = fence /\ lease' = [lease EXCEPT ![j] = NoLease]
    /\ UNCHANGED <<row, files, receipt, plan, lock, at, crashes, faults, scene>>
WriteOutput(j) ==
    /\ lease[j].pc = "guarded" /\ lease' = [lease EXCEPT ![j].pc = "written"]
    /\ visible' = [visible EXCEPT ![j] = lease[j].gen]
    /\ fence' = [fence EXCEPT ![j] = Nobody]
    /\ UNCHANGED <<row, saved, receipt, plan, lock, at, crashes, faults, scene>>
Finalize(j, status) ==
    /\ lease[j].pc = "written" /\ Undisturbed(j)
    /\ row' = IF Current(j) THEN [row EXCEPT ![j].status = status] ELSE row
    /\ lease' = [lease EXCEPT ![j] = NoLease]
    /\ UNCHANGED <<files, receipt, plan, locks, at, crashes, faults, scene>>

PrepareResume(j) ==
    /\ row[j].status = "failed" /\ row[j].gen < MaxGeneration
    /\ fence[j] = Nobody /\ Undisturbed(j)
    /\ row' = [row EXCEPT ![j] = [status |-> "queued", gen |-> row[j].gen + 1]]
    /\ visible' = [visible EXCEPT ![j] = NoOutput]
    /\ UNCHANGED <<saved, receipt, plan, locks, at, lease, crashes, faults, scene>>

OperationStep(o) ==
    \/ TakeFence(o) \/ Capture(o) \/ Prepare(o) \/ Stage(o) \/ Commit(o) \/ CommitRefused(o)
RecoveryStep(r) ==
    \/ RecoverLock(r) \/ RecoverCheck(r) \/ \E o \in Ops : Observe(r, o)
UndoStep(w) ==
    \/ Restore(w) \/ RestoreEnds(w) \/ Rollback(w) \/ RollbackEnds(w) \/ Abort(w)
    \/ Discard(w) \/ DiscardEnds(w) \/ Release(w)
FaultStep(w) == RestoreFails(w) \/ RollbackFails(w) \/ DiscardFails(w) \/ Crash(w)
AttemptStep(j) == GuardEnter(j) \/ WriteOutput(j) \/ \E s \in Terminal : Finalize(j, s)

Next ==
    \/ \E o \in Ops : OperationStep(o) \/ StageFails(o) \/ \E T \in SUBSET Jobs : Begin(o, T)
    \/ \E r \in Recoverers : RecoveryStep(r)
    \/ \E w \in Actors : UndoStep(w) \/ FaultStep(w)
    \/ \E j \in Jobs : Claim(j) \/ AttemptStep(j) \/ PrepareResume(j)
Spec == Init /\ [][Next]_vars

(***************************************************************************)
(* Safety.                                                                 *)
(***************************************************************************)
(* No output is destroyed: that of a terminal job is in its place or is    *)
(* kept under a private name, whoever restored, discarded or died.         *)
OutputKept ==
    \A j \in Jobs : row[j].status \in Terminal =>
        visible[j] = row[j].gen \/ \E o \in Ops : saved[o][j] = row[j].gen

(* output.json never shows the result of an earlier generation: no restore *)
(* brings back what a committed restart has withdrawn.                     *)
NoStaleOutput == \A j \in Jobs : visible[j] \in {NoOutput, row[j].gen}

(* An aborted restart has left no private file behind.                     *)
AbortedClean == \A o \in Ops : receipt[o] = "aborted" => Private(o) = {}

(* The outputs survive the protocol: none is lost, none of an earlier      *)
(* generation returns, and an abort leaves no private file.                *)
OutputIntact == TypeOK /\ OutputKept /\ NoStaleOutput /\ AbortedClean

(* Two operations never wait for each other's fences, in whatever order    *)
(* their batches were selected.                                            *)
Waits(o, p) ==
    at[o].pc = "fence" /\ at[o].left # {} /\ fence[NextFence(o, at[o].left)] = p
NoMutualWait == \A o, p \in Ops : ~ (Waits(o, p) /\ Waits(p, o))

(* Where nobody touches a job under a prepared receipt, the operation with *)
(* its moves, crashes and recoveries is an atomic restart.  A job that is  *)
(* staged still has, logically, the output under its private name.         *)
LogicalOutput ==
    [j \in Jobs |->
        IF \E o \in Ops : receipt[o] = "prepared" /\ saved[o][j] # NoOutput
        THEN saved[CHOOSE o \in Ops : receipt[o] = "prepared" /\ saved[o][j] # NoOutput][j]
        ELSE visible[j]]
Atomic == INSTANCE AtomicRestart WITH out <- LogicalOutput
ImplementsAtomic ==
    Atomic!Init /\ [][scene.interfering \/ Atomic!Next]_(Atomic!vars)

(***************************************************************************)
(* Liveness: operations and recoveries that do not die go on, attempts     *)
(* publish and end, and "mwf recover" is run until it finds nothing.       *)
(***************************************************************************)
Fairness ==
    /\ \A o \in Ops : WF_vars(OperationStep(o))
    /\ \A r \in Recoverers : WF_vars(RecoveryStep(r))
    /\ \A w \in Actors : WF_vars(UndoStep(w))
    /\ \A j \in Jobs : WF_vars(AttemptStep(j))
FairSpec == Spec /\ Fairness

(* Whatever an operation left behind is settled in the end: its receipt is *)
(* terminal and its private files are gone, if nobody interferes.          *)
Settled ==
    \A o \in Ops :
        ~scene.interfering /\ receipt[o] = "prepared"
            ~> receipt[o] # "prepared" /\ Private(o) = {}
=============================================================================
