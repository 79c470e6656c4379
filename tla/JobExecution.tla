---------------------------- MODULE JobExecution ----------------------------
(***************************************************************************)
(* Execution leases of the jobs of one component: the rows of the SQLite   *)
(* tables jobs, job_instances, job_execution_owners, execution_sessions    *)
(* and component_reservations, the output.json file of every job, the      *)
(* execution-fence file lock of every job, and the attempt controllers     *)
(* (workflow/job_lifecycle.py) that claim, run and publish jobs on behalf  *)
(* of an execution session.                                                *)
(*                                                                         *)
(* Every mutation of the tables runs in the single SQLite writer, so each  *)
(* is one atomic step.  Writing output.json is not such a mutation: it     *)
(* happens between taking and releasing the fence, in a step of its own.   *)
(* A restart is one step here; module RestartOperation splits it into the  *)
(* steps of the code and shows when it amounts to a single one.            *)
(*                                                                         *)
(* An operator named Bug... is not part of the specification: it is the    *)
(* definition after it with a plausible mistake, for mutation runs.        *)
(***************************************************************************)
EXTENDS Integers, FiniteSets

CONSTANTS
    Jobs,           \* the jobs of the component
    Sessions,       \* execution sessions, each one process
    Nobody,         \* the SQL NULL of a session column, and a free lock
    MaxGeneration,  \* bound: restarts stop at this generation
    MaxExecutions,  \* bound: execution ids that can be issued
    MaxCancels,     \* bound: calls of cancel_job
    FalseSuspicion, \* whether the heartbeat of a running process may go stale
    NodeCalls       \* the sessions that run one node call (NodeExecutionGroup);
                    \* the others run a component (ComponentExecutionOperation)

ASSUME NobodyAssumption == Nobody \notin Sessions
ASSUME BoundsAssumption ==
    /\ MaxGeneration \in Nat /\ MaxExecutions \in Nat /\ MaxCancels \in Nat
    /\ FalseSuspicion \in BOOLEAN /\ NodeCalls \subseteq Sessions

VARIABLES
    row,        \* jobs row joined with job_instances.last_execution_id
    owner,      \* job_execution_owners
    issued,     \* execution ids issued so far
    sess,       \* execution_sessions rows
    alive,      \* the process of the session is running
    fresh,      \* the liveness probe finds the session's process or heartbeat
    resv,       \* component_reservations
    comp,       \* component_states.lifecycle of the component
    out,        \* output.json of every job
    fence,      \* holder of the execution fence of every job
    ctl,        \* the attempt controller of a job in a session
    cancels     \* calls of cancel_job so far

jobVars == <<row, owner, issued>>
sessionVars == <<sess, resv, comp>>
processVars == <<alive, fresh>>
vars == <<jobVars, sessionVars, processVars, out, fence, ctl, cancels>>

(***************************************************************************)
(* Data.  Execution ids are numbered in the order they are issued; 0 is    *)
(* the SQL NULL.  A restart_requested event is kept as the generation it   *)
(* announced and the execution id it names (0 when it names none, as an    *)
(* independent restart's event does).                                      *)
(***************************************************************************)
ExecIds == 1 .. MaxExecutions
NoExec == 0
Statuses == {"queued", "running", "done", "failed", "cancelled"}
Results == {"done", "failed"}

NoEvent == [gen |-> 0, exec |-> NoExec]
Events == [gen : Nat, exec : {NoExec} \cup ExecIds]
Rows == [status : Statuses, gen : Nat, active : {NoExec} \cup ExecIds,
         last : {NoExec} \cup ExecIds, marker : BOOLEAN, event : Events]
NoOwner == [job |-> Nobody, gen |-> 0, session |-> Nobody]
Owners == [job : Jobs, gen : Nat, session : Sessions] \cup {NoOwner}
NoOutput == [status |-> "none", gen |-> 0, exec |-> NoExec]
Outputs == [status : Results, gen : Nat, exec : ExecIds] \cup {NoOutput}

SessionRows == [status : {"absent", "running", "terminal"}, exited : BOOLEAN,
                pending : BOOLEAN]

(* The places of an attempt controller in _run_job. *)
Places == {"idle", "pulled", "claimed", "executing", "publishing", "guarded",
           "written", "superseded", "failed", "replace", "retry", "rejected",
           "done", "lost", "refused"}
Controllers == [pc : Places, gen : Nat, exec : {NoExec} \cup ExecIds,
                result : Results \cup {"none"}, expect : Nat]
IdleController == [pc |-> "idle", gen |-> 0, exec |-> NoExec,
                   result |-> "none", expect |-> 0]
Joined == {"idle", "pulled", "failed", "rejected", "done", "lost", "refused"}
Lifecycles == {"queued", "running", "done", "failed"}

TypeOK ==
    /\ row \in [Jobs -> Rows]
    /\ owner \in [ExecIds -> Owners]
    /\ issued \in 0 .. MaxExecutions
    /\ sess \in [Sessions -> SessionRows]
    /\ alive \in [Sessions -> BOOLEAN]
    /\ fresh \in [Sessions -> BOOLEAN]
    /\ resv \in Sessions \cup {Nobody}
    /\ comp \in Lifecycles
    /\ out \in [Jobs -> Outputs]
    /\ fence \in [Jobs -> Sessions \cup {Nobody}]
    /\ ctl \in [Sessions -> [Jobs -> Controllers]]
    /\ cancels \in 0 .. MaxCancels

(***************************************************************************)
(* Reading the tables.                                                     *)
(***************************************************************************)
(* execution_session_liveness: a running row whose process or heartbeat    *)
(* the probe finds.                                                        *)
JudgedLive(s) == sess[s].status = "running" /\ fresh[s]

(* read_job_current_owner / _job_owner_observation_from_row: the last owner. *)
OwnerOf(j) == IF row[j].last = NoExec THEN NoOwner ELSE owner[row[j].last]
OwnedBy(s, j) == row[j].last # NoExec /\ OwnerOf(j).session = s

BugAnyAttempt(j, gen, exec) == TRUE
(* job_execution_is_current *)
IsCurrent(j, gen, exec) == row[j].gen = gen /\ row[j].active = exec

(* The first test of _read_owned_restart: a queued successor of s.         *)
IsSuccessor(s, j) ==
    /\ OwnedBy(s, j)
    /\ row[j].status = "queued" /\ row[j].active = NoExec
    /\ row[j].gen > OwnerOf(j).gen

(* _read_owned_restart returns the accepted request; otherwise, for a      *)
(* successor whose marker and last event disagree, it raises.              *)
AcceptedRestart(s, j) ==
    /\ IsSuccessor(s, j) /\ row[j].marker
    /\ row[j].event = [gen |-> row[j].gen, exec |-> row[j].last]
DamagedRestart(s, j) == IsSuccessor(s, j) /\ ~AcceptedRestart(s, j)

(* The restart_requested event that _is_claimed_component_restart examines: *)
(* the current execution runs the generation an owned restart announced.   *)
RanRestart(j) ==
    /\ row[j].gen > 0 /\ OwnerOf(j).gen = row[j].gen
    /\ row[j].event.gen = row[j].gen /\ row[j].event.exec # NoExec
SameSession(j) == owner[row[j].event.exec].session = OwnerOf(j).session

(* _is_claimed_component_restart returns TRUE; it raises when the event     *)
(* names an execution of another session.                                  *)
IsClaimedRestart(j) == RanRestart(j) /\ SameSession(j)
DamagedClaim(j) == RanRestart(j) /\ ~SameSession(j)

(* _read_pending_component_work: the rows it selects, the jobs that hold up *)
(* ordinary admission, and the jobs for which it raises.                   *)
Selected(s, j) ==
    /\ OwnedBy(s, j)
    /\ \/ row[j].status \in {"failed", "cancelled"} \/ row[j].marker
       \/ row[j].gen > 0 /\ (row[j].active # NoExec \/ row[j].status = "queued")
UnfinishedJobs(s) ==
    {j \in Jobs : Selected(s, j) /\
        \/ row[j].status \in {"failed", "cancelled"}
        \/ row[j].status \in {"queued", "running"} /\ IsClaimedRestart(j)
        \/ AcceptedRestart(s, j)}
UnreadableJobs(s) ==
    {j \in Jobs : Selected(s, j) /\ row[j].status \in {"queued", "running"} /\
        (DamagedClaim(j) \/ DamagedRestart(s, j))}

(* The execution fences of T are taken together, then their outputs go.    *)
BugNoFence(T) == TRUE
FencesFree(T) == \A j \in T : fence[j] = Nobody
BugOutputKept(T) == out
Withdrawn(T) == [j \in Jobs |-> IF j \in T THEN NoOutput ELSE out[j]]

(***************************************************************************)
(* Initial state: prepared jobs, no session, no files.                     *)
(***************************************************************************)
Init ==
    /\ row = [j \in Jobs |-> [status |-> "queued", gen |-> 0, active |-> NoExec,
                              last |-> NoExec, marker |-> FALSE, event |-> NoEvent]]
    /\ owner = [e \in ExecIds |-> NoOwner] /\ issued = 0
    /\ sess = [s \in Sessions |-> [status |-> "absent", exited |-> FALSE,
                                   pending |-> FALSE]]
    /\ resv = Nobody /\ comp = "queued"
    /\ alive = [s \in Sessions |-> FALSE] /\ fresh = [s \in Sessions |-> FALSE]
    /\ out = [j \in Jobs |-> NoOutput] /\ fence = [j \in Jobs |-> Nobody]
    /\ ctl = [s \in Sessions |-> [j \in Jobs |-> IdleController]]
    /\ cancels = 0

(***************************************************************************)
(* Sessions.                                                               *)
(***************************************************************************)
(* create_execution_session, for a process that starts. *)
CreateSession(s) ==
    /\ sess[s].status = "absent"
    /\ sess' = [sess EXCEPT ![s].status = "running"]
    /\ alive' = [alive EXCEPT ![s] = TRUE] /\ fresh' = [fresh EXCEPT ![s] = TRUE]
    /\ UNCHANGED <<jobVars, resv, comp, out, fence, ctl, cancels>>

(* _reserve_execution_components; the session ends when it meets another   *)
(* reservation (ComponentReservationConflict).                             *)
ReserveComponents(s) ==
    /\ alive[s] /\ sess[s].status = "running" /\ resv = Nobody
    /\ resv' = s
    /\ UNCHANGED <<jobVars, sess, comp, processVars, out, fence, ctl, cancels>>
ReservationConflict(s) ==
    /\ alive[s] /\ sess[s].status = "running" /\ resv \notin {s, Nobody}
    /\ sess' = [sess EXCEPT ![s].status = "terminal", ![s].exited = TRUE]
    /\ alive' = [alive EXCEPT ![s] = FALSE]
    /\ UNCHANGED <<jobVars, resv, comp, fresh, out, fence, ctl, cancels>>

(* prepare_resume_components: failed and cancelled jobs get a new          *)
(* generation whose event names no owner; queued jobs keep theirs.  With   *)
(* clear the events of the component are deleted first.                    *)
Unsuccessful == {j \in Jobs : row[j].status \in {"failed", "cancelled"}}
PrepareResume(s, clear) ==
    /\ alive[s] /\ sess[s].status = "running" /\ resv = s /\ comp = "failed"
    /\ \A j \in Jobs : /\ row[j].active = NoExec
                       /\ row[j].status = "failed" => row[j].last # NoExec
    /\ FencesFree(Unsuccessful)
    /\ row' = [j \in Jobs |->
                IF j \in Unsuccessful
                THEN [row[j] EXCEPT !.status = "queued", !.gen = @ + 1, !.marker = TRUE,
                                    !.event = [gen |-> row[j].gen + 1, exec |-> NoExec]]
                ELSE IF clear THEN [row[j] EXCEPT !.event = NoEvent] ELSE row[j]]
    /\ out' = Withdrawn(Unsuccessful)
    /\ comp' = "queued"
    /\ UNCHANGED <<owner, issued, sess, resv, processVars, fence, ctl, cancels>>

(* _begin_component_execution *)
BeginComponent(s) ==
    /\ alive[s] /\ sess[s].status = "running" /\ resv = s /\ comp = "queued"
    /\ comp' = "running" /\ sess' = [sess EXCEPT ![s].pending = TRUE]
    /\ UNCHANGED <<jobVars, resv, processVars, out, fence, ctl, cancels>>

(* The process of s ends without unwinding: the operating system releases  *)
(* its file locks, its controllers are gone.                               *)
Crash(s) ==
    /\ alive[s]
    /\ alive' = [alive EXCEPT ![s] = FALSE]
    /\ fence' = [j \in Jobs |-> IF fence[j] = s THEN Nobody ELSE fence[j]]
    /\ ctl' = [ctl EXCEPT ![s] = [j \in Jobs |-> IdleController]]
    /\ UNCHANGED <<jobVars, sessionVars, fresh, out, cancels>>

(* The probe stops finding a process that ended, or (on another host) a    *)
(* heartbeat that is late; a late heartbeat is found again.                *)
GoStale(s) ==
    /\ fresh[s] /\ (~alive[s] \/ FalseSuspicion)
    /\ fresh' = [fresh EXCEPT ![s] = FALSE]
    /\ UNCHANGED <<jobVars, sessionVars, alive, out, fence, ctl, cancels>>
Heartbeat(s) ==
    /\ alive[s] /\ ~fresh[s]
    /\ fresh' = [fresh EXCEPT ![s] = TRUE]
    /\ UNCHANGED <<jobVars, sessionVars, alive, out, fence, ctl, cancels>>

(***************************************************************************)
(* Attempt controllers.                                                    *)
(***************************************************************************)
At(s, j, pc) == alive[s] /\ ctl[s][j].pc = pc
Goto(s, j, pc) == ctl' = [ctl EXCEPT ![s][j].pc = pc]

(* RefreshableQueuedJobSource.pull: a queued row, once per session. *)
PullQueued(s, j) ==
    /\ At(s, j, "idle") /\ sess[s].pending /\ row[j].status = "queued"
    /\ Goto(s, j, "pulled")
    /\ UNCHANGED <<jobVars, sessionVars, processVars, out, fence, cancels>>

(* _apply_execution_claim_batches: the refusals that the session (a first  *)
(* disjunct), the row and the pending component (_component_claim_error)   *)
(* cause, and the update of an accepted claim.  The status of the row is   *)
(* not among the conditions.                                               *)
LeaseRefused(s, j) ==
    sess[s].status # "running" \/ resv # s \/ row[j].active # NoExec
ClaimRefused(s, j) ==
    \/ LeaseRefused(s, j)
    \/ ~AcceptedRestart(s, j) /\ UnreadableJobs(s) # {}
ClaimWaits(s, j) ==
    ~ClaimRefused(s, j) /\ ~AcceptedRestart(s, j) /\ UnfinishedJobs(s) # {}
ApplyClaim(s, j) ==
    LET e == issued + 1 IN
    /\ issued < MaxExecutions
    /\ issued' = e
    /\ owner' = [owner EXCEPT ![e] = [job |-> j, gen |-> row[j].gen, session |-> s]]
    /\ row' = [row EXCEPT ![j].status = "running", ![j].active = e,
                          ![j].last = e, ![j].marker = FALSE]
    /\ ctl' = [ctl EXCEPT ![s][j] = [pc |-> "claimed", gen |-> row[j].gen,
                                     exec |-> e, result |-> "none", expect |-> 0]]
    /\ UNCHANGED <<sessionVars, processVars, out, fence, cancels>>

(* The claim of an ordinary item, and the reclaim after JobRestartedError. *)
Claiming(s, j) == At(s, j, "pulled") \/ At(s, j, "superseded")
Claim(s, j) ==
    /\ Claiming(s, j) /\ ~ClaimRefused(s, j) /\ ~ClaimWaits(s, j)
    /\ ApplyClaim(s, j)
RefuseClaim(s, j) ==
    /\ Claiming(s, j) /\ ClaimRefused(s, j)
    /\ ctl' = [ctl EXCEPT ![s][j] = [IdleController EXCEPT !.pc = "refused"]]
    /\ UNCHANGED <<jobVars, sessionVars, processVars, out, fence, cancels>>

(* A reclaim that meets ComponentExecutionIncomplete ends the attempt; its *)
(* slot stays incomplete, so a later epoch pulls the job again.            *)
PauseReclaim(s, j) ==
    /\ At(s, j, "superseded") /\ ClaimWaits(s, j)
    /\ ctl' = [ctl EXCEPT ![s][j] = [IdleController EXCEPT !.pc = "pulled"]]
    /\ UNCHANGED <<jobVars, sessionVars, processVars, out, fence, cancels>>

(* The task of a claimed job starts, or release_unstarted_job_execution    *)
(* gives the claim back because the burst stopped first.  A component      *)
(* operation counts a claim it could not give back as a failed attempt.    *)
StartTask(s, j) ==
    /\ At(s, j, "claimed") /\ Goto(s, j, "executing")
    /\ UNCHANGED <<jobVars, sessionVars, processVars, out, fence, cancels>>
BurstStopped(s) ==
    \E k \in Jobs : ctl[s][k].pc \in {"failed", "rejected", "lost", "refused"}
ReleaseUnstarted(s, j) ==
    /\ At(s, j, "claimed") /\ BurstStopped(s)
    /\ IF IsCurrent(j, ctl[s][j].gen, ctl[s][j].exec)
       THEN row' = [row EXCEPT ![j].status = "queued", ![j].active = NoExec]
       ELSE row' = row
    /\ IF IsCurrent(j, ctl[s][j].gen, ctl[s][j].exec) \/ s \in NodeCalls
       THEN ctl' = [ctl EXCEPT ![s][j] = [IdleController EXCEPT !.pc = "pulled"]]
       ELSE Goto(s, j, "failed")
    /\ UNCHANGED <<owner, issued, sessionVars, processVars, out, fence, cancels>>

(* execute_with_fallbacks returns or raises; check_job_execution or the    *)
(* supervisor notices a restart; ApiPermitStateError leaves the lease and  *)
(* names no attempt.                                                       *)
FinishTask(s, j, result) ==
    /\ At(s, j, "executing")
    /\ ctl' = [ctl EXCEPT ![s][j].pc = "publishing", ![s][j].result = result]
    /\ UNCHANGED <<jobVars, sessionVars, processVars, out, fence, cancels>>
DetectRestart(s, j) ==
    /\ At(s, j, "executing") /\ ~IsCurrent(j, ctl[s][j].gen, ctl[s][j].exec)
    /\ Goto(s, j, "superseded")
    /\ UNCHANGED <<jobVars, sessionVars, processVars, out, fence, cancels>>
RaisePermitError(s, j) ==
    /\ At(s, j, "executing")
    /\ ctl' = [ctl EXCEPT ![s][j] = [IdleController EXCEPT !.pc = "lost"]]
    /\ UNCHANGED <<jobVars, sessionVars, processVars, out, fence, cancels>>

(* guard_job_execution: take the fence, then look at the row. *)
GuardEnter(s, j) ==
    /\ At(s, j, "publishing") /\ fence[j] = Nobody
    /\ IF IsCurrent(j, ctl[s][j].gen, ctl[s][j].exec)
       THEN fence' = [fence EXCEPT ![j] = s] /\ Goto(s, j, "guarded")
       ELSE fence' = fence /\ Goto(s, j, "superseded")
    /\ UNCHANGED <<jobVars, sessionVars, processVars, out, cancels>>

(* write_output under the fence, and its failure. *)
WriteOutput(s, j) ==
    /\ At(s, j, "guarded")
    /\ out' = [out EXCEPT ![j] = [status |-> ctl[s][j].result, gen |-> ctl[s][j].gen,
                                  exec |-> ctl[s][j].exec]]
    /\ fence' = [fence EXCEPT ![j] = Nobody]
    /\ Goto(s, j, "written")
    /\ UNCHANGED <<jobVars, sessionVars, processVars, cancels>>
WriteFails(s, j) ==
    /\ At(s, j, "guarded")
    /\ fence' = [fence EXCEPT ![j] = Nobody] /\ Goto(s, j, "lost")
    /\ UNCHANGED <<jobVars, sessionVars, processVars, out, cancels>>

(* _apply_terminal_updates: the update of one attempt, and when it applies. *)
TerminalRow(r, status) == [r EXCEPT !.status = status, !.active = NoExec]
AlreadyTerminal(j, status) == row[j].active = NoExec /\ row[j].status = status
TerminalAccepted(j, gen, exec, status) ==
    row[j].gen = gen /\ (row[j].active = exec \/ AlreadyTerminal(j, status))

(* finalize_job_execution and its refusal (JobRestartedError); the answer  *)
(* to an update that was made may get lost, and the update may fail.       *)
Finalize(s, j) ==
    LET c == ctl[s][j] IN
    /\ At(s, j, "written")
    /\ IF TerminalAccepted(j, c.gen, c.exec, c.result)
       THEN /\ row' = [row EXCEPT ![j] = TerminalRow(@, c.result)]
            /\ \E pc \in {c.result, "lost"} : Goto(s, j, pc)
       ELSE row' = row /\ Goto(s, j, "superseded")
    /\ UNCHANGED <<owner, issued, sessionVars, processVars, out, fence, cancels>>
FinalizeFails(s, j) ==
    /\ At(s, j, "written") /\ Goto(s, j, "lost")
    /\ UNCHANGED <<jobVars, sessionVars, processVars, out, fence, cancels>>

(***************************************************************************)
(* After the runner joined its workers.                                    *)
(***************************************************************************)
AllJoined(s) == alive[s] /\ \A j \in Jobs : ctl[s][j].pc \in Joined

(* _finalize_failed_component, after a component operation failed: a row   *)
(* that an attempt left running is made terminal, from an output of its    *)
(* generation if there is one.                                             *)
CleanupAbandoned(s, j, status) ==
    /\ s \notin NodeCalls /\ AllJoined(s) /\ sess[s].status = "running" /\ resv = s
    /\ row[j].status = "running" /\ row[j].active = row[j].last /\ OwnedBy(s, j)
    /\ ctl[s][j].exec \in {NoExec, row[j].active}
    /\ \/ status = "failed"
       \/ out[j] # NoOutput /\ out[j].gen = row[j].gen /\ status = out[j].status
    /\ row' = [row EXCEPT ![j] = TerminalRow(@, status)]
    /\ ctl' = [ctl EXCEPT ![s][j].gen = row[j].gen, ![s][j].exec = row[j].active]
    /\ UNCHANGED <<owner, issued, sessionVars, processVars, out, fence, cancels>>

(* The accepted successors of failed attempts.  A component operation that *)
(* offers the same request again remembers it (retried_expectations).      *)
Successor(s, j) ==
    /\ ctl[s][j].exec # NoExec /\ row[j].last = ctl[s][j].exec
    /\ row[j].status = "queued" /\ row[j].active = NoExec
    /\ row[j].gen > ctl[s][j].gen
Replaceable(s) == {j \in Jobs : ctl[s][j].pc = "failed" /\ Successor(s, j) /\ row[j].marker}
BugForgetsOffer(s, j) == FALSE
OfferedAgain(s, j) == s \notin NodeCalls /\ ctl[s][j].pc = "refused" /\ ctl[s][j].expect = row[j].gen
Replacing(s, J) ==
    ctl' = [ctl EXCEPT ![s] = [j \in Jobs |->
              IF j \in J
              THEN [ctl[s][j] EXCEPT !.pc = IF OfferedAgain(s, j) THEN "retry" ELSE "replace",
                                     !.gen = OwnerOf(j).gen, !.exec = row[j].last,
                                     !.expect = row[j].gen]
              ELSE ctl[s][j]]]

(* _prepare_replacements of a node call. *)
PrepareReplacements(s) ==
    /\ s \in NodeCalls /\ AllJoined(s) /\ Replaceable(s) # {}
    /\ \A j \in Jobs : ctl[s][j].pc \notin {"lost", "refused", "rejected"}
    /\ Replacing(s, Replaceable(s))
    /\ UNCHANGED <<jobVars, sessionVars, processVars, out, fence, cancels>>

(* The claim of a replacement checks that the accepted request is intact   *)
(* (RestartClaimChanged otherwise).                                        *)
Intact(s, j) ==
    /\ row[j].gen = ctl[s][j].expect /\ row[j].status = "queued"
    /\ row[j].last = ctl[s][j].exec /\ row[j].marker
Offered(s, j) == At(s, j, "replace") \/ At(s, j, "retry")
ClaimReplacement(s, j) ==
    /\ Offered(s, j) /\ ~ClaimRefused(s, j) /\ Intact(s, j)
    /\ ApplyClaim(s, j)
RejectReplacement(s, j) ==
    /\ Offered(s, j) /\ ~LeaseRefused(s, j) /\ ~Intact(s, j)
    /\ Goto(s, j, "rejected")
    /\ UNCHANGED <<jobVars, sessionVars, processVars, out, fence, cancels>>

(* Any other refusal is offered once more by a component operation, then   *)
(* counts as exhausted; so does a successor that a stopped burst skipped.  *)
RefuseReplacement(s, j) ==
    /\ Offered(s, j) /\ ClaimRefused(s, j) /\ (LeaseRefused(s, j) \/ Intact(s, j))
    /\ Goto(s, j, IF ctl[s][j].pc = "retry" THEN "rejected" ELSE "refused")
    /\ UNCHANGED <<jobVars, sessionVars, processVars, out, fence, cancels>>
SkipReplacement(s, j) ==
    /\ Offered(s, j) /\ BurstStopped(s)
    /\ IF s \in NodeCalls
       THEN ctl' = [ctl EXCEPT ![s][j] = [IdleController EXCEPT !.pc = "pulled"]]
       ELSE Goto(s, j, IF ctl[s][j].pc = "retry" THEN "rejected" ELSE "refused")
    /\ UNCHANGED <<jobVars, sessionVars, processVars, out, fence, cancels>>

(***************************************************************************)
(* The end of the component, then of its session.                          *)
(***************************************************************************)
(* The driver has nothing left to run and no worker to wait for.           *)
ExitReady(s) ==
    /\ AllJoined(s) /\ sess[s].status = "running"
    /\ \/ ~sess[s].pending
       \/ BurstStopped(s) \/ UnfinishedJobs(s) # {}
       \/ \A j \in Jobs : /\ ctl[s][j].pc # "pulled"
                          /\ ~(ctl[s][j].pc = "idle" /\ row[j].status = "queued")

(* finish_successful_component_execution: a component whose jobs are all   *)
(* done is published in a transaction of its own.  The pending execution   *)
(* goes; session and reservation stay until the exit is decided, so that   *)
(* other components may run and other processes may still cancel or        *)
(* restart the jobs.                                                       *)
Succeeded(s) == ~BurstStopped(s) /\ \A j \in Jobs : row[j].status = "done"
Completes(s) == ExitReady(s) /\ sess[s].pending /\ Succeeded(s)
FinishComponent(s) ==
    /\ Completes(s)
    /\ comp' = "done" /\ sess' = [sess EXCEPT ![s].pending = FALSE]
    /\ UNCHANGED <<jobVars, resv, processVars, out, fence, ctl, cancels>>

(* decide_execution_session_exit: continue with the accepted successors,   *)
(* or settle, or raise.  The restarts of the session are looked for among  *)
(* its failed attempts and the jobs of its pending component.              *)
Candidates(s) ==
    {j \in Jobs : ctl[s][j].pc \in {"failed", "lost", "rejected", "refused"} /\ Successor(s, j)}
BugOnlyAttempts(s) == {j \in Candidates(s) : row[j].marker /\ ctl[s][j].pc # "rejected"}
Continuing(s) ==
    {j \in Jobs :
        /\ ctl[s][j].pc = "rejected" => row[j].gen > ctl[s][j].expect
        /\ IF j \in Candidates(s)
           THEN row[j].marker /\ (ctl[s][j].pc = "rejected" => AcceptedRestart(s, j))
           ELSE sess[s].pending /\ AcceptedRestart(s, j)}
BugIgnoresActive(s) ==
    sess[s].pending /\ \E j \in Jobs \ Candidates(s) : row[j].marker /\ DamagedRestart(s, j)
ExitRaises(s) ==
    \/ resv = s /\ \E j \in Jobs : row[j].active # NoExec
    \/ \E j \in Jobs : OwnedBy(s, j) /\ row[j].active # NoExec
    \/ sess[s].pending /\ \E j \in Jobs \ Candidates(s) : row[j].marker /\ DamagedRestart(s, j)

ContinueSession(s) ==
    /\ ExitReady(s) /\ ~ExitRaises(s) /\ Continuing(s) # {}
    /\ Replacing(s, Continuing(s))
    /\ UNCHANGED <<jobVars, sessionVars, processVars, out, fence, cancels>>

(* settle_execution_session *)
BugReservationKept(s, exited) ==
    /\ sess' = [sess EXCEPT ![s] = [status |-> "terminal", exited |-> exited,
                                    pending |-> FALSE]]
    /\ resv' = resv
Settle(s, exited) ==
    /\ sess' = [sess EXCEPT ![s] = [status |-> "terminal", exited |-> exited,
                                    pending |-> FALSE]]
    /\ resv' = IF resv = s THEN Nobody ELSE resv
ExitSession(s) ==
    /\ ExitReady(s) /\ ~Completes(s) /\ ~ExitRaises(s) /\ Continuing(s) = {}
    /\ Settle(s, TRUE)
    /\ comp' = IF sess[s].pending THEN "failed" ELSE comp
    /\ alive' = [alive EXCEPT ![s] = FALSE]
    /\ ctl' = [ctl EXCEPT ![s] = [j \in Jobs |-> IdleController]]
    /\ UNCHANGED <<jobVars, fresh, out, fence, cancels>>

(* The decision raised: the caller gives up, the session row stays running. *)
ExitFails(s) ==
    /\ ExitReady(s) /\ ExitRaises(s)
    /\ alive' = [alive EXCEPT ![s] = FALSE]
    /\ ctl' = [ctl EXCEPT ![s] = [j \in Jobs |-> IdleController]]
    /\ UNCHANGED <<jobVars, sessionVars, fresh, out, fence, cancels>>

(***************************************************************************)
(* Operations of other processes.                                          *)
(***************************************************************************)
(* recover_observed_sessions for one session: under the fences of its      *)
(* active jobs, an output of the active execution makes its job terminal,  *)
(* any other active job is queued at the next generation.                  *)
ActiveOf(s) == {j \in Jobs : row[j].active # NoExec /\ OwnedBy(s, j)}
Finished(j) == out[j].gen = row[j].gen /\ out[j].exec = row[j].active
Abandoned(s) == sess[s].status = "running" /\ ~JudgedLive(s)
RecoverSession(s) ==
    /\ Abandoned(s) /\ FencesFree(ActiveOf(s))
    /\ row' = [j \in Jobs |->
                IF j \notin ActiveOf(s) THEN row[j]
                ELSE IF Finished(j)
                THEN [TerminalRow(row[j], out[j].status) EXCEPT !.marker = FALSE]
                ELSE [row[j] EXCEPT !.status = "queued", !.gen = @ + 1,
                                    !.active = NoExec, !.marker = FALSE]]
    /\ out' = Withdrawn({j \in ActiveOf(s) : ~Finished(j)})
    /\ Settle(s, FALSE)
    /\ comp' = IF sess[s].pending THEN "failed" ELSE comp
    /\ UNCHANGED <<owner, issued, processVars, fence, ctl, cancels>>

(* _apply_targets, under the fences of the targets. *)
ApplyRestart(T, owned) ==
    /\ FencesFree(T) /\ \A j \in T : row[j].gen < MaxGeneration
    /\ row' = [j \in Jobs |->
                IF j \notin T THEN row[j]
                ELSE [row[j] EXCEPT !.status = "queued", !.gen = @ + 1,
                        !.active = NoExec, !.marker = TRUE,
                        !.event = [gen |-> row[j].gen + 1,
                                   exec |-> IF owned THEN row[j].last ELSE NoExec]]]
    /\ out' = Withdrawn(T)
    /\ UNCHANGED <<owner, issued, sessionVars, processVars, fence, ctl, cancels>>

(* _read_owned_restart_target: jobs that a live session must run again.    *)
OwnedTarget(s, j) ==
    /\ OwnedBy(s, j) /\ JudgedLive(s) /\ resv = s
    /\ \/ row[j].status = "running" /\ row[j].active # NoExec
       \/ row[j].status \in {"failed", "cancelled"} /\ row[j].active = NoExec
OwnedRestart(s, T) ==
    /\ T # {} /\ \A j \in T : OwnedTarget(s, j)
    /\ ApplyRestart(T, TRUE)

(* _independent_target *)
IndependentTarget(j) ==
    /\ ~(row[j].last # NoExec /\ JudgedLive(OwnerOf(j).session)
         /\ row[j].status \in {"running", "failed", "cancelled"})
    /\ row[j].active = IF row[j].status = "running" THEN row[j].last ELSE NoExec
IndependentRestart(j) ==
    /\ IndependentTarget(j)
    /\ ApplyRestart({j}, FALSE)

(* cancel_job: set_job_status(CANCELLED) clears the lease, takes no fence  *)
(* and keeps the generation and the marker.                                *)
Cancel(j) ==
    /\ cancels < MaxCancels /\ cancels' = cancels + 1
    /\ row' = [row EXCEPT ![j] = TerminalRow(@, "cancelled")]
    /\ UNCHANGED <<owner, issued, sessionVars, processVars, out, fence, ctl>>

(***************************************************************************)
(* The next-state relation: what a session's process does by itself, and   *)
(* what its environment and other processes do to it.                      *)
(***************************************************************************)
Attempt(s, j) ==
    \/ PullQueued(s, j) \/ Claim(s, j) \/ RefuseClaim(s, j) \/ PauseReclaim(s, j)
    \/ StartTask(s, j) \/ ReleaseUnstarted(s, j)
    \/ \E result \in Results : FinishTask(s, j, result)
    \/ DetectRestart(s, j) \/ RaisePermitError(s, j)
    \/ GuardEnter(s, j) \/ WriteOutput(s, j) \/ WriteFails(s, j)
    \/ Finalize(s, j) \/ FinalizeFails(s, j)
    \/ ClaimReplacement(s, j) \/ RejectReplacement(s, j) \/ RefuseReplacement(s, j)
    \/ SkipReplacement(s, j)
    \/ \E status \in Results : CleanupAbandoned(s, j, status)
Driver(s) ==
    \/ ReserveComponents(s) \/ ReservationConflict(s)
    \/ \E clear \in BOOLEAN : PrepareResume(s, clear)
    \/ BeginComponent(s) \/ PrepareReplacements(s)
    \/ FinishComponent(s) \/ ContinueSession(s) \/ ExitSession(s) \/ ExitFails(s)
Environment ==
    \/ \E s \in Sessions : CreateSession(s) \/ Crash(s) \/ GoStale(s) \/ Heartbeat(s)
                           \/ RecoverSession(s)
    \/ \E s \in Sessions, T \in SUBSET Jobs : OwnedRestart(s, T)
    \/ \E j \in Jobs : IndependentRestart(j) \/ Cancel(j)
Next ==
    \/ \E s \in Sessions, j \in Jobs : Attempt(s, j)
    \/ \E s \in Sessions : Driver(s)
    \/ Environment

Spec == Init /\ [][Next]_vars

(***************************************************************************)
(* Safety.                                                                 *)
(***************************************************************************)
(* An active execution is the job's last one, is recorded as owned at the  *)
(* row's generation by a running session that holds the component, and a   *)
(* running row has one.  settle_execution_session, recovery, restart and   *)
(* claim each maintain a part of this in a transaction of their own.       *)
LeaseOwnership ==
    \A j \in Jobs :
        /\ row[j].status = "running" <=> row[j].active # NoExec
        /\ row[j].active # NoExec =>
              /\ row[j].active = row[j].last
              /\ owner[row[j].active] = [job |-> j, gen |-> row[j].gen, session |-> resv]
              /\ resv # Nobody /\ sess[resv].status = "running"

(* While a controller may write output.json it holds the fence and the     *)
(* generation it claimed is still the row's: guard_job_execution against   *)
(* restart, recovery and resume, which take the same fence.                *)
FenceProtectsGeneration ==
    \A s \in Sessions, j \in Jobs :
        ctl[s][j].pc = "guarded" =>
            fence[j] = s /\ row[j].gen = ctl[s][j].gen /\ row[j].last = ctl[s][j].exec

(* Only the latest execution of the row's generation publishes an output,  *)
(* however late a superseded handler returns (docs/architecture/node.md:   *)
(* fencing prevents a timed-out, restarted or stale handler from           *)
(* publishing files).                                                      *)
NoStalePublication ==
    [][\A j \in Jobs : out'[j] # out[j] /\ out'[j] # NoOutput =>
          out'[j].gen = row[j].gen /\ out'[j].exec = row[j].last]_vars

(* A visible output belongs to the row's generation, and a done row has a  *)
(* done output: what a reader of output.json or of the row concludes about *)
(* the job agrees, across restarts, recoveries and cleanup.                *)
OutputMatchesRow ==
    \A j \in Jobs :
        /\ out[j] # NoOutput => out[j].gen = row[j].gen
        /\ row[j].status = "done" => out[j].status = "done"

(* Finished work is not executed again unless a restart, a resume or a     *)
(* recovery advanced its generation, or cancel_job withdrew it.            *)
DoneIsKept ==
    [][\A j \in Jobs : row[j].status = "done" /\ row'[j].status # "done" =>
          row'[j].gen > row[j].gen \/ row'[j].status = "cancelled"]_vars

(* When the session's own step ends the pending execution of a component,  *)
(* by publishing its success or by deciding the exit, an accepted restart  *)
(* is left behind only if the session was offered exactly this request and *)
(* turned it down.  Once the session has exited nothing is accepted for it *)
(* (acceptance, publication and exit are each one writer decision).  What  *)
(* is accepted between a published success and the exit is not offered:    *)
(* the exit decision looks only at failed attempts and pending components  *)
(* (execution_sessions.py:334), so nothing is said of it.                  *)
TurnedDown(s, j) == ctl[s][j].pc = "rejected" /\ ctl[s][j].expect = row[j].gen
EndsPending(s) == /\ sess[s].pending /\ ~sess'[s].pending
                  /\ sess'[s].status = "running" \/ sess'[s].exited
ExitServedRestarts ==
    [][\A s \in Sessions, j \in Jobs :
          AcceptedRestart(s, j)' =>
             /\ EndsPending(s) => TurnedDown(s, j)
             /\ sess[s].exited => AcceptedRestart(s, j)]_vars

(* The component is running exactly while the session that holds it has a  *)
(* pending execution; a terminal session holds nothing.                    *)
ReservationLifecycle ==
    /\ comp = "running" <=> (resv # Nobody /\ sess[resv].pending)
    /\ \A s \in Sessions : sess[s].pending \/ resv = s => sess[s].status = "running"

(* A controller that lost its lease claims again only a later generation:  *)
(* the work of one generation is claimed once by it.                       *)
ReclaimAdvances ==
    [][\A s \in Sessions, j \in Jobs :
          ctl[s][j].pc = "superseded" /\ ctl'[s][j].pc = "claimed" =>
              ctl'[s][j].gen > ctl[s][j].gen]_vars

(* The three rules together: an attempt publishes for the row it was       *)
(* claimed from, and neither a row nor a controller goes back.             *)
RowsMoveForward == NoStalePublication /\ DoneIsKept /\ ReclaimAdvances

(***************************************************************************)
(* Liveness.  A process keeps running its controllers and its driver; the  *)
(* probe notices a process that ended; someone runs mwf recover.           *)
(***************************************************************************)
Fairness ==
    /\ \A s \in Sessions, j \in Jobs : WF_vars(Attempt(s, j))
    /\ \A s \in Sessions : /\ WF_vars(Driver(s))
                           /\ WF_vars(~alive[s] /\ GoStale(s))
                           /\ WF_vars(RecoverSession(s))
FairSpec == Spec /\ Fairness

(* A session that started ends, by its own decision or by recovery, and    *)
(* releases the component; MaxExecutions is the only other way to stop.    *)
SessionEnds ==
    \A s \in Sessions :
        sess[s].status = "running" ~> (sess[s].status = "terminal" \/ issued = MaxExecutions)
=============================================================================
