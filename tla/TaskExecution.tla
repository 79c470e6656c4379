---------------------------- MODULE TaskExecution ----------------------------
(***************************************************************************)
(* What happens to a job between its claim and its terminal update: the    *)
(* lanes of the API runner (runners/api.py, fibers.py), the project-wide   *)
(* API permits (storage/api_admission*.py, workflow/api_admission.py), the *)
(* attempts of a task with their retries (workflow/task_execution.py) and  *)
(* the supervisor that watches them (workflow/supervisor_*.py).            *)
(*                                                                         *)
(* A job of Api runs in a fiber of a lane, handler and controller in one   *)
(* thread, and holds a permit while its handler runs; any other job has a  *)
(* controller thread and a handler thread for each attempt, which is left  *)
(* alone when the attempt is given up.  A handler may run for ever.        *)
(*                                                                         *)
(* Time is kept as the fact that a deadline has passed.  A request for a   *)
(* permit is answered by the mutation lane: in order, one transaction for  *)
(* a batch, and the answer may get lost after the commit.                  *)
(*                                                                         *)
(* An operator named Bug... is not part of the specification: it is the    *)
(* definition after it with a plausible mistake, for mutation runs.        *)
(***************************************************************************)
EXTENDS Integers, FiniteSets, Sequences

CONSTANTS
    Jobs, Api,        \* the jobs, and those on the API runner
    Timed,            \* jobs whose task has a deadline
    Reporting,        \* jobs whose task also has a checkpoint deadline, and calls the network
    Workloads,        \* the sets of jobs a session may start with
    Lanes,            \* the pumps of the API runner, numbered
    NodeLimits,       \* the limits the node may have, for the fibers of all lanes
    ApiLimits,        \* the limits the project may have, for its permits
    Foreign,          \* permits of other sessions, live or dead
    Attempts,         \* job -> attempts of its task, fallbacks counted
    MaxRestarts, MaxCheckpoints, MaxFaults, MaxPauses,
    MaxChanges,       \* of the two limits
    MaxTrouble,       \* workload -> restarts, faults, pauses and changes of a limit together
    None

ASSUME TaskAssumption ==
    /\ IsFiniteSet(Jobs) /\ Api \subseteq Jobs /\ Timed \subseteq Jobs
    /\ Reporting \subseteq Timed /\ Workloads \subseteq SUBSET Jobs
    /\ Lanes \subseteq Nat /\ IsFiniteSet(Lanes) /\ None \notin Lanes
    /\ NodeLimits \subseteq Nat \ {0} /\ ApiLimits \subseteq Nat \ {0} /\ Foreign \in Nat
    /\ Attempts \in [Jobs -> Nat \ {0}]
    /\ {MaxRestarts, MaxCheckpoints, MaxFaults, MaxPauses, MaxChanges} \subseteq Nat
    /\ MaxTrouble \in [Workloads -> Nat]

VARIABLES
    row, gen,      \* status and generation of the job's row
    revision,      \* metadata job_restart_revision
    ctl,           \* job -> its controller: place, generation, attempt, and where to go next
    held,          \* jobs whose _PermitController.held is set
    permits,       \* api_execution_permits: <<job, generation>>
    apiLimit,      \* api_thread_limit
    keptPermits,   \* permits that were held when it was last lowered (history)
    mail,          \* permit requests the mutation lane has not applied
    answer,        \* job -> the state of its request's future
    hand, out,     \* job -> its handler and what that has returned
    watch,         \* job -> AttemptWatch of the current attempt
    sup,           \* the supervisor thread
    lane, err,     \* job -> the lane of its fiber; lanes that met an error
    gone,          \* lanes that have returned
    limit,         \* the node's limit, which limit_provider reads
    share,         \* lane -> the share of it that its pass has read, or Unread
    kept,          \* jobs whose fibers were started under a higher limit (history)
    paused,        \* jobs that an interrupt asks to pause
    late,          \* jobs in user code when a checkpoint deadline passed (history)
    checkpoints, faults, pauses, changes,
    settled

grantVars == <<permits, apiLimit, keptPermits>>
permitVars == <<held, grantVars, mail, answer>>
attemptVars == <<hand, out, watch, late, checkpoints>>
limitVars == <<limit, share, kept>>
laneVars == <<lane, err, gone, limitVars>>
rowVars == <<row, gen, revision>>
envVars == <<paused, pauses, changes, settled>>
vars == <<rowVars, ctl, permitVars, attemptVars, sup, laneVars, envVars, faults>>

NoWatch == [state |-> "none", gen |-> 0, total |-> "off", chk |-> "off", ext |-> "off",
            exempt |-> {}, why |-> "none", wake |-> FALSE, cancel |-> FALSE]
Unread == -1
At(j) == ctl[j].pc
Workload == {j \in Jobs : row[j] # "done" \/ At(j) # "idle"}
Trouble == faults + pauses + changes + revision < MaxTrouble[Workload]
Go(j, place) == ctl' = [ctl EXCEPT ![j].pc = place]
Current(j) == row[j] = "running" /\ gen[j] = ctl[j].gen

Init ==
    /\ \E S \in Workloads : /\ row = [j \in Jobs |-> IF j \in S THEN "queued" ELSE "done"]
                            /\ gone = IF S \cap Api = {} THEN Lanes ELSE {}
    /\ gen = [j \in Jobs |-> 0] /\ revision = 0
    /\ ctl = [j \in Jobs |-> [pc |-> "idle", gen |-> 0, att |-> 0, next |-> "over"]]
    /\ permits = {} /\ apiLimit \in ApiLimits /\ keptPermits = {}
    /\ held = {} /\ mail = <<>> /\ answer = [j \in Jobs |-> "none"]
    /\ hand = [j \in Jobs |-> "none"] /\ out = [j \in Jobs |-> "none"]
    /\ watch = [j \in Jobs |-> NoWatch] /\ late = {} /\ checkpoints = 0
    /\ sup = [seen |-> 0, cand |-> {}]
    /\ lane = [j \in Jobs |-> None] /\ err = {}
    /\ limit \in NodeLimits /\ share = [l \in Lanes |-> Unread] /\ kept = {}
    /\ paused = {} /\ pauses = 0 /\ changes = 0 /\ settled = FALSE /\ faults = 0

(***************************************************************************)
(* The lanes of the API runner.                                            *)
(***************************************************************************)
Fibers(l) == {j \in Api : lane[j] = l}

(* _LaneCoordinator.limit_for *)
LimitFor(l) ==
    LET running == Lanes \ gone
        before == Cardinality({m \in running : m < l})
    IN  IF l \notin running THEN 0
        ELSE limit \div Cardinality(running)
               + (IF before < limit % Cardinality(running) THEN 1 ELSE 0)

(* A pass of a lane reads its share and then pulls, so a limit that is     *)
(* lowered between the two is met by the next pass.                        *)
ReadLimit(l) ==
    /\ l \notin gone /\ share[l] # LimitFor(l) /\ share' = [share EXCEPT ![l] = LimitFor(l)]
    /\ UNCHANGED <<rowVars, ctl, permitVars, attemptVars, sup, lane, err, gone, limit, kept, envVars, faults>>

(* A pull claims what it takes; the fibers are then started one by one. *)
Outdated(l) == share[l] > LimitFor(l)
Pull(l) ==
    /\ l \notin gone /\ err = {}
    /\ \E S \in SUBSET {j \in Api : row[j] = "queued" /\ At(j) = "idle"} :
          /\ S # {} /\ Cardinality(S) + Cardinality(Fibers(l)) <= share[l]
          /\ row' = [j \in Jobs |-> IF j \in S THEN "running" ELSE row[j]]
          /\ lane' = [j \in Jobs |-> IF j \in S THEN l ELSE lane[j]]
          /\ ctl' = [j \in Jobs |-> IF j \in S THEN [ctl[j] EXCEPT !.pc = "pulled", !.gen = gen[j]]
                                    ELSE ctl[j]]
          /\ kept' = IF Outdated(l) THEN kept \cup S ELSE kept \ S
    /\ share' = [share EXCEPT ![l] = Unread]
    /\ UNCHANGED <<gen, revision, permitVars, attemptVars, sup, err, gone, limit, envVars, faults>>

StartFiber(j) ==
    /\ At(j) = "pulled" /\ lane[j] \notin err /\ Go(j, "permit")
    /\ UNCHANGED <<rowVars, permitVars, attemptVars, sup, laneVars, envVars, faults>>

(* A lane that met an error gives the claims back that it has not started, *)
(* and goes on until its fibers are over.                                  *)
AbandonUnstarted(j) ==
    /\ At(j) = "pulled" /\ lane[j] \in err
    /\ row' = IF Current(j) THEN [row EXCEPT ![j] = "queued"] ELSE row
    /\ Go(j, "idle") /\ lane' = [lane EXCEPT ![j] = None]
    /\ UNCHANGED <<gen, revision, permitVars, attemptVars, sup, err, gone, limitVars, envVars, faults>>

LaneReturns(l) ==
    /\ l \notin gone /\ Fibers(l) = {}
    /\ err # {} \/ share[l] = 0 \/ \A j \in Api : row[j] # "queued" \/ At(j) # "idle"
    /\ gone' = gone \cup {l}
    /\ UNCHANGED <<rowVars, ctl, permitVars, attemptVars, sup, lane, err, limitVars, envVars, faults>>

(* mwf threads NODE VALUE and mwf threads --api-total VALUE on a live      *)
(* node: a limit goes up or down, and what is running goes on.             *)
SetNodeLimit ==
    /\ ~settled /\ changes < MaxChanges /\ Trouble /\ changes' = changes + 1
    /\ limit' \in NodeLimits \ {limit}
    /\ kept' = IF limit' < limit THEN {j \in Api : lane[j] # None} ELSE kept
    /\ UNCHANGED <<rowVars, ctl, permitVars, attemptVars, sup, lane, err, gone, share, paused, pauses, settled,
                   faults>>
SetApiLimit ==
    /\ ~settled /\ changes < MaxChanges /\ Trouble /\ changes' = changes + 1
    /\ apiLimit' \in ApiLimits \ {apiLimit}
    /\ keptPermits' = IF apiLimit' < apiLimit THEN permits ELSE keptPermits
    /\ UNCHANGED <<rowVars, ctl, held, permits, mail, answer, attemptVars, sup, laneVars, paused, pauses, settled,
                   faults>>

(* A job of another runner is claimed by a thread of its own. *)
ClaimJob(j) ==
    /\ j \notin Api /\ At(j) = "idle" /\ row[j] = "queued"
    /\ row' = [row EXCEPT ![j] = "running"]
    /\ ctl' = [ctl EXCEPT ![j] = [pc |-> "attempt", gen |-> gen[j], att |-> 1, next |-> "over"]]
    /\ UNCHANGED <<gen, revision, permitVars, attemptVars, sup, laneVars, envVars, faults>>

(***************************************************************************)
(* _PermitController.                                                      *)
(***************************************************************************)
Ask(j, act) ==
    /\ mail' = Append(mail, [act |-> act, job |-> j, gen |-> ctl[j].gen])
    /\ answer' = [answer EXCEPT ![j] = "pending"]

(* release: the end of the with statement, or of an acquisition that is    *)
(* given up.  A controller that holds nothing goes on at once.             *)
Leave(j, place) ==
    IF j \in held
    THEN Ask(j, "release") /\ ctl' = [ctl EXCEPT ![j].pc = "releasing", ![j].next = place]
    ELSE Go(j, place) /\ UNCHANGED <<mail, answer>>

(* acquire: the loop waits while the job is asked to pause. *)
Acquire(j) ==
    /\ At(j) = "permit" /\ j \notin paused
    /\ IF Current(j) THEN Ask(j, "acquire") /\ Go(j, "asked")
       ELSE Go(j, "restart") /\ UNCHANGED <<mail, answer>>
    /\ UNCHANGED <<rowVars, held, grantVars, attemptVars, sup, laneVars, envVars, faults>>

(* apply_api_execution_permit_mutations on the requests of one group: the  *)
(* permit table and the answer after the first n of them.                  *)
Free(rows) == Cardinality(rows) + Foreign < apiLimit
Applied(rows, r) ==
    LET id == <<r.job, r.gen>>
    IN  CASE r.act = "acquire" /\ ~(row[r.job] = "running" /\ gen[r.job] = r.gen) ->
               [rows |-> rows, say |-> "refused"]
          [] r.act = "acquire" /\ row[r.job] = "running" /\ gen[r.job] = r.gen ->
               IF id \in rows \/ Free(rows)
               THEN [rows |-> rows \cup {id}, say |-> "yes"] ELSE [rows |-> rows, say |-> "no"]
          [] r.act = "release" ->
               IF id \in rows THEN [rows |-> rows \ {id}, say |-> "yes"]
               ELSE [rows |-> rows, say |-> "refused"]
Batch ==
    LET step[n \in 0 .. Len(mail)] ==
            IF n = 0 THEN [rows |-> permits, say |-> answer]
            ELSE LET a == Applied(step[n - 1].rows, mail[n])
                 IN  [rows |-> a.rows, say |-> [step[n - 1].say EXCEPT ![mail[n].job] = a.say]]
    IN  step[Len(mail)]
WriteBatch ==
    /\ mail # <<>> /\ mail' = <<>>
    /\ permits' = Batch.rows /\ keptPermits' = keptPermits \cap Batch.rows /\ answer' = Batch.say
    /\ UNCHANGED <<rowVars, ctl, held, apiLimit, attemptVars, sup, laneVars, envVars, faults>>

(* The transaction fails, or it commits and its futures fail. *)
BatchFails ==
    /\ mail # <<>> /\ mail' = <<>> /\ faults < MaxFaults /\ Trouble /\ faults' = faults + 1
    /\ \/ /\ answer' = [j \in Jobs |-> IF \E n \in 1 .. Len(mail) : mail[n].job = j THEN "refused" ELSE answer[j]]
          /\ UNCHANGED <<permits, keptPermits>>
       \/ /\ permits' = Batch.rows /\ keptPermits' = keptPermits \cap Batch.rows
          /\ answer' = [j \in Jobs |-> IF /\ \E n \in 1 .. Len(mail) : mail[n].job = j
                                          /\ Batch.say[j] = "yes"
                                       THEN "lost" ELSE Batch.say[j]]
    /\ UNCHANGED <<rowVars, ctl, held, apiLimit, attemptVars, sup, laneVars, envVars>>

(* The answer of an acquisition.  An answer that was lost is found again   *)
(* by a readback, and the permit is given back before the error is raised. *)
(* So it is when the pump threw the end of the attempt into a handler that *)
(* waits here after a pause.                                               *)
BugForgetsLost(j) == answer[j] = "yes"
Granted(j) == answer[j] \in {"yes", "lost"}
Interrupted(j) == hand[j] = "yield" /\ watch[j].state # "active"
GiveUp(j, place) ==
    IF Granted(j)
    THEN Ask(j, "release") /\ ctl' = [ctl EXCEPT ![j].pc = "releasing", ![j].next = place]
    ELSE Go(j, place) /\ answer' = [answer EXCEPT ![j] = "none"] /\ UNCHANGED mail
TakeAnswer(j) ==
    /\ At(j) = "asked" /\ answer[j] \notin {"none", "pending"}
    /\ held' = IF Granted(j) THEN held \cup {j} ELSE held
    /\ \/ (answer[j] = "lost" \/ Interrupted(j)) /\ GiveUp(j, "stuck") /\ UNCHANGED hand
       \/ answer[j] # "lost" /\ ~Current(j) /\ GiveUp(j, "restart") /\ UNCHANGED hand
       \/ answer[j] = "refused" /\ Current(j) /\ GiveUp(j, "stuck") /\ UNCHANGED hand
       \/ /\ Current(j) /\ (answer[j] = "no" \/ (answer[j] = "yes" /\ j \in paused))
          /\ GiveUp(j, "permit") /\ UNCHANGED hand
       \/ /\ answer[j] = "yes" /\ Current(j) /\ j \notin paused
          /\ IF hand[j] = "yield" THEN Go(j, "wait") /\ hand' = [hand EXCEPT ![j] = "run"]
             ELSE ctl' = [ctl EXCEPT ![j].pc = "attempt", ![j].att = 1] /\ UNCHANGED hand
          /\ answer' = [answer EXCEPT ![j] = "none"] /\ UNCHANGED mail
    /\ UNCHANGED <<rowVars, grantVars, out, watch, late, checkpoints, sup, laneVars, envVars, faults>>

Released(j) ==
    /\ At(j) = "releasing" /\ answer[j] \notin {"none", "pending"}
    /\ held' = IF answer[j] = "refused" THEN held ELSE held \ {j}
    /\ answer' = [answer EXCEPT ![j] = "none"]
    /\ \E place \in {ctl[j].next, "stuck"} :
          /\ place = "stuck" \/ answer[j] = "yes"
          /\ place = ctl[j].next \/ answer[j] # "yes" \/ Interrupted(j)
          /\ ctl' = [ctl EXCEPT ![j].pc = place, ![j].next = "over"]
    /\ UNCHANGED <<rowVars, grantVars, mail, attemptVars, sup, laneVars, envVars, faults>>

(***************************************************************************)
(* An attempt: create_attempt, the handler and what it tells the watch.    *)
(***************************************************************************)
Live(j) == watch[j].state = "active"
handlerFrame == <<rowVars, ctl, permitVars, sup, laneVars, envVars, faults>>

CreateAttempt(j) ==
    /\ At(j) = "attempt" /\ Go(j, "wait")
    /\ watch' = [watch EXCEPT ![j] = [NoWatch EXCEPT !.state = "active", !.gen = ctl[j].gen]]
    /\ hand' = [hand EXCEPT ![j] = "start"] /\ out' = [out EXCEPT ![j] = "none"]
    /\ late' = late \ {j}
    /\ UNCHANGED <<rowVars, permitVars, sup, laneVars, envVars, checkpoints, faults>>

(* The handler raises what the watch says, at its next managed call. *)
Raises(j) == ~Live(j) /\ hand' = [hand EXCEPT ![j] = "left"] /\ out' = [out EXCEPT ![j] = "error"]
ManagedCall(j) == hand[j] = "run" /\ Raises(j) /\ UNCHANGED <<watch, late, checkpoints, handlerFrame>>

BeginHandler(j) ==
    /\ hand[j] = "start"
    /\ \/ /\ Raises(j) /\ UNCHANGED watch
       \/ /\ Live(j) /\ hand' = [hand EXCEPT ![j] = "run"] /\ UNCHANGED out
          /\ watch' = [watch EXCEPT ![j].total = IF j \in Timed THEN "armed" ELSE "off",
                                    ![j].chk = IF j \in Reporting THEN "armed" ELSE "off"]
    /\ UNCHANGED <<late, checkpoints, handlerFrame>>

(* report_checkpoint: the deadline is off while the report is written. *)
Checkpoint(j) ==
    /\ j \in Reporting /\ hand[j] = "run" /\ Live(j) /\ hand' = [hand EXCEPT ![j] = "saving"]
    /\ checkpoints < MaxCheckpoints /\ checkpoints' = checkpoints + 1
    /\ watch' = [watch EXCEPT ![j].chk = "off", ![j].exempt = {}]
    /\ UNCHANGED <<out, late, handlerFrame>>
CheckpointSaved(j) ==
    /\ hand[j] = "saving" /\ hand' = [hand EXCEPT ![j] = "run"]
    /\ watch' = IF Live(j) THEN [watch EXCEPT ![j].chk = "armed"] ELSE watch
    /\ UNCHANGED <<out, late, checkpoints, handlerFrame>>

(* A framework network call: its begin is published before the lock of the *)
(* supervisor is taken, and so is a replay and the end of the handler.     *)
Exempt(j, k) == IF watch[j][k] = "armed" THEN watch[j].exempt \cup {k} ELSE watch[j].exempt
EnterWait(j) ==
    /\ j \in Reporting /\ hand[j] = "run" /\ hand' = [hand EXCEPT ![j] = "enter"]
    /\ checkpoints < MaxCheckpoints /\ checkpoints' = checkpoints + 1
    /\ watch' = [watch EXCEPT ![j].exempt = Exempt(j, "chk")]
    /\ UNCHANGED <<out, late, handlerFrame>>
BeginExternalWait(j) ==
    /\ hand[j] = "enter"
    /\ \/ /\ Raises(j) /\ UNCHANGED watch
       \/ /\ Live(j) /\ hand' = [hand EXCEPT ![j] = "net"] /\ UNCHANGED out
          /\ watch' = [watch EXCEPT ![j].ext = "armed", ![j].chk = "off", ![j].exempt = {}]
    /\ UNCHANGED <<late, checkpoints, handlerFrame>>
Replay(j) ==
    /\ hand[j] = "net" /\ checkpoints < MaxCheckpoints /\ checkpoints' = checkpoints + 1
    /\ hand' = [hand EXCEPT ![j] = "replay"]
    /\ watch' = [watch EXCEPT ![j].exempt = Exempt(j, "ext")]
    /\ UNCHANGED <<out, late, handlerFrame>>
RenewExternalWait(j) ==
    /\ hand[j] = "replay"
    /\ \/ /\ Raises(j) /\ UNCHANGED watch
       \/ /\ Live(j) /\ hand' = [hand EXCEPT ![j] = "net"] /\ UNCHANGED out
          /\ watch' = [watch EXCEPT ![j].ext = "armed", ![j].exempt = {}]
    /\ UNCHANGED <<late, checkpoints, handlerFrame>>
EndExternalWait(j) ==
    /\ hand[j] = "net" /\ hand' = [hand EXCEPT ![j] = "run"]
    /\ watch' = [watch EXCEPT ![j].ext = "off", ![j].chk = "armed"]
    /\ UNCHANGED <<out, late, checkpoints, handlerFrame>>

HandlerExit(j, o) ==
    /\ hand[j] = "run" /\ hand' = [hand EXCEPT ![j] = "left"] /\ out' = [out EXCEPT ![j] = o]
    /\ watch' = [watch EXCEPT ![j].exempt = Exempt(j, "chk")]
    /\ UNCHANGED <<late, checkpoints, handlerFrame>>

(* signal_handler_complete.  Without a deadline the state is overwritten. *)
Signals(j) == Live(j) \/ j \notin Timed
SignalComplete(j) ==
    /\ j \notin Api /\ hand[j] = "left" /\ hand' = [hand EXCEPT ![j] = "over"]
    /\ watch' = IF Signals(j) THEN [watch EXCEPT ![j].state = "handler_done", ![j].wake = TRUE] ELSE watch
    /\ UNCHANGED <<out, late, checkpoints, handlerFrame>>

(* At a checkpoint an API handler that is asked to pause gives its permit  *)
(* away, waits, and takes another before it goes on.                       *)
YieldPermit(j) ==
    /\ j \in Api \cap paused /\ hand[j] = "run" /\ Live(j) /\ Current(j)
    /\ hand' = [hand EXCEPT ![j] = "yield"]
    /\ Leave(j, "permit")
    /\ UNCHANGED <<rowVars, held, grantVars, out, watch, late, checkpoints, sup, laneVars, envVars, faults>>
RaisePaused(j) ==
    /\ hand[j] = "yield" /\ At(j) = "permit" /\ Raises(j)
    /\ Go(j, "wait") \/ Go(j, "stuck")
    /\ UNCHANGED <<rowVars, permitVars, watch, late, checkpoints, sup, laneVars, envVars, faults>>

(***************************************************************************)
(* The end of an attempt.                                                  *)
(***************************************************************************)
Ended(j) ==
    IF j \in Api THEN hand[j] = "left" ELSE watch[j].wake
Result(j) ==
    CASE watch[j].state = "superseded" -> "restart"
      [] watch[j].state = "timed_out" -> "error"
      [] OTHER -> IF watch[j].cancel THEN "error" ELSE out[j]
FinishAttempt(j) ==
    /\ At(j) = "wait" /\ hand[j] # "yield" /\ Ended(j)
    /\ \/ Result(j) = "restart" /\ Leave(j, "restart")
       \/ Result(j) = "result" /\ Leave(j, "done")
       \/ Result(j) = "error" /\ ~Current(j) /\ Leave(j, "restart")
       \/ /\ Result(j) = "error" /\ Current(j) /\ ctl[j].att < Attempts[j]
          /\ ctl' = [ctl EXCEPT ![j].pc = "attempt", ![j].att = @ + 1] /\ UNCHANGED <<mail, answer>>
       \/ Result(j) = "error" /\ Current(j) /\ ctl[j].att = Attempts[j] /\ Leave(j, "failed")
    /\ watch' = [watch EXCEPT ![j] = NoWatch]
    /\ hand' = [hand EXCEPT ![j] = "none"] /\ out' = [out EXCEPT ![j] = "none"]
    /\ late' = late \ {j}
    /\ UNCHANGED <<rowVars, held, grantVars, checkpoints, sup, laneVars, envVars, faults>>

Publish(j) ==
    /\ At(j) \in {"done", "failed"}
    /\ \/ /\ Current(j) /\ row' = [row EXCEPT ![j] = At(j)] /\ Go(j, "over")
          /\ lane' = [lane EXCEPT ![j] = None]
       \/ /\ ~Current(j) /\ Go(j, "restart") /\ UNCHANGED <<row, lane>>
    /\ UNCHANGED <<gen, revision, permitVars, attemptVars, sup, err, gone, limitVars, envVars, faults>>

(* cancel_execution, and the loop of _run_job claims the new generation. *)
Reclaim(j) ==
    /\ At(j) = "restart" /\ row[j] = "queued"
    /\ row' = [row EXCEPT ![j] = "running"]
    /\ ctl' = [ctl EXCEPT ![j] = [pc |-> IF j \in Api THEN "permit" ELSE "attempt", gen |-> gen[j],
                                  att |-> 1, next |-> "over"]]
    /\ watch' = [watch EXCEPT ![j] = NoWatch] /\ hand' = [hand EXCEPT ![j] = "none"]
    /\ UNCHANGED <<gen, revision, permitVars, out, late, checkpoints, sup, laneVars, envVars, faults>>

(* ApiPermitStateError: the claim stays for the recovery, the lane stops. *)
StopLane(j) ==
    /\ At(j) = "stuck" /\ lane[j] # None
    /\ err' = err \cup {lane[j]} /\ lane' = [lane EXCEPT ![j] = None]
    /\ watch' = [watch EXCEPT ![j] = NoWatch] /\ hand' = [hand EXCEPT ![j] = "none"]
    /\ UNCHANGED <<rowVars, ctl, permitVars, out, late, checkpoints, sup, gone, limitVars, envVars, faults>>

(* settle_execution_session after the lanes and the threads have ended. *)
SettleSession ==
    /\ ~settled /\ gone = Lanes
    /\ \A j \in Jobs : At(j) \in {"idle", "stuck", "over"} /\ lane[j] = None
    /\ settled' = TRUE
    /\ row' = [j \in Jobs |-> IF row[j] = "running" THEN "queued" ELSE row[j]]
    /\ gen' = [j \in Jobs |-> IF row[j] = "running" THEN gen[j] + 1 ELSE gen[j]]
    /\ permits' = {} /\ held' = {}
    /\ UNCHANGED <<revision, ctl, apiLimit, keptPermits, mail, answer, attemptVars, sup, laneVars, paused, pauses, changes,
                   faults>>

(***************************************************************************)
(* The supervisor thread, restarts and pauses.                             *)
(***************************************************************************)
InUserCode(j) == hand[j] \in {"run", "yield"}

DeadlinePasses(j, k) ==
    /\ Live(j) /\ watch[j][k] = "armed" /\ watch' = [watch EXCEPT ![j][k] = "due"]
    /\ late' = IF k = "chk" /\ InUserCode(j) THEN late \cup {j} ELSE late
    /\ UNCHANGED <<hand, out, checkpoints, handlerFrame>>

BugNoExemption(j, k) == watch[j][k] = "due"
Expired(j, k) == watch[j][k] = "due" /\ k \notin watch[j].exempt
Expire(j, k) ==
    /\ Live(j) /\ Expired(j, k)
    /\ watch' = [watch EXCEPT ![j].state = "timed_out", ![j].why = k, ![j].cancel = TRUE]
    /\ UNCHANGED <<hand, out, late, checkpoints, handlerFrame>>
(* _persist_timeout, then the controller is woken. *)
WakeTimedOut(j) ==
    /\ watch[j].state = "timed_out" /\ ~watch[j].wake
    /\ watch' = [watch EXCEPT ![j].wake = TRUE]
    /\ UNCHANGED <<hand, out, late, checkpoints, handlerFrame>>

(* The poll reads the revision and lists the watches, then the leases. *)
Restartable == {j \in Jobs : watch[j].state \in {"active", "handler_done"}}
ReadRevision ==
    /\ sup.cand = {} /\ Restartable # {} /\ revision # sup.seen
    /\ sup' = [sup EXCEPT !.seen = revision, !.cand = Restartable]
    /\ UNCHANGED <<rowVars, ctl, permitVars, attemptVars, laneVars, envVars, faults>>
Stale(j) == ~(row[j] = "running" /\ gen[j] = watch[j].gen)
BugNoWake(w) == [w EXCEPT !.state = "superseded", !.cancel = TRUE]
Superseded(w) == [w EXCEPT !.state = "superseded", !.cancel = TRUE, !.wake = TRUE]
CompareLeases ==
    /\ sup.cand # {} /\ sup' = [sup EXCEPT !.cand = {}]
    /\ watch' = [j \in Jobs |-> IF j \in sup.cand \cap Restartable /\ Stale(j)
                   THEN Superseded(watch[j]) ELSE watch[j]]
    /\ UNCHANGED <<rowVars, ctl, permitVars, hand, out, late, checkpoints, laneVars, envVars, faults>>
(* The read of the leases fails: the exception is dropped. *)
CompareFails ==
    /\ sup.cand # {} /\ faults < MaxFaults /\ Trouble /\ faults' = faults + 1
    /\ sup' = [sup EXCEPT !.cand = {}]
    /\ UNCHANGED <<rowVars, ctl, permitVars, attemptVars, laneVars, envVars>>

RestartJob(j) ==
    /\ revision < MaxRestarts /\ Trouble /\ row[j] = "running" /\ ~settled
    /\ At(j) \notin {"idle", "stuck"}
    /\ revision' = revision + 1
    /\ gen' = [gen EXCEPT ![j] = @ + 1] /\ row' = [row EXCEPT ![j] = "queued"]
    /\ UNCHANGED <<ctl, permitVars, attemptVars, sup, laneVars, envVars, faults>>
PauseJob(j) ==
    /\ j \in Api \ paused /\ Current(j) /\ pauses < MaxPauses /\ Trouble /\ pauses' = pauses + 1 /\ paused' = paused \cup {j}
    /\ UNCHANGED <<rowVars, ctl, permitVars, attemptVars, sup, laneVars, changes, settled, faults>>
ResumeJob(j) ==
    /\ j \in paused /\ paused' = paused \ {j}
    /\ UNCHANGED <<rowVars, ctl, permitVars, attemptVars, sup, laneVars, pauses, changes, settled, faults>>

ControllerStep(j) ==
    \/ StartFiber(j) \/ AbandonUnstarted(j) \/ ClaimJob(j) \/ Acquire(j) \/ TakeAnswer(j)
    \/ Released(j) \/ CreateAttempt(j) \/ FinishAttempt(j) \/ Publish(j)
    \/ Reclaim(j) \/ StopLane(j)
FrameworkStep(j) ==
    \/ BeginHandler(j) \/ CheckpointSaved(j) \/ BeginExternalWait(j) \/ RenewExternalWait(j)
    \/ SignalComplete(j) \/ RaisePaused(j)
UserStep(j) ==
    \/ ManagedCall(j) \/ Checkpoint(j) \/ EnterWait(j) \/ Replay(j) \/ EndExternalWait(j) \/ YieldPermit(j)
    \/ \E o \in {"result", "error"} : HandlerExit(j, o)
SupervisorStep ==
    \/ \E j \in Jobs : WakeTimedOut(j) \/ \E k \in {"total", "chk", "ext"} : Expire(j, k)
    \/ ReadRevision \/ CompareLeases
Next ==
    \/ \E l \in Lanes : ReadLimit(l) \/ Pull(l) \/ LaneReturns(l)
    \/ \E j \in Jobs : ControllerStep(j) \/ FrameworkStep(j) \/ UserStep(j)
    \/ \E j \in Jobs, k \in {"total", "chk", "ext"} : DeadlinePasses(j, k)
    \/ SetNodeLimit \/ SetApiLimit \/ WriteBatch \/ BatchFails \/ SupervisorStep \/ CompareFails \/ SettleSession
    \/ \E j \in Jobs : RestartJob(j) \/ PauseJob(j) \/ ResumeJob(j)

Spec == Init /\ [][Next]_vars

(* The threads of the framework go on, the mutation lane answers and time  *)
(* passes.  Nothing is assumed of the user's handlers.                     *)
FairSpec ==
    /\ Spec /\ WF_vars(WriteBatch)
    /\ WF_vars(SupervisorStep)
    /\ \A j \in Jobs : WF_vars(ControllerStep(j)) /\ WF_vars(FrameworkStep(j))
                       /\ WF_vars(DeadlinePasses(j, "total"))

(***************************************************************************)
(* Properties.                                                             *)
(***************************************************************************)

(* The permits stay exact through lost answers, failed batches, restarts,  *)
(* pauses and changes of the aggregate limit.  A limit that is lowered     *)
(* takes nothing away, but nothing is granted until the permits, those of  *)
(* other sessions counted, are below it: more of them than the limit are   *)
(* all from before.  A permit is owned by a controller that will release   *)
(* it, waits for an answer or has stopped for the recovery, and none       *)
(* outlives the session; the first attempt of an API job runs with the     *)
(* permit of its own generation (storage/api_admission.py:135).            *)
Handling(j) == At(j) = "wait" /\ hand[j] \notin {"none", "left"}
PermitsExact ==
    /\ Cardinality(permits) + Foreign <= apiLimit \/ permits \subseteq keptPermits
    /\ \A p \in permits : /\ ~settled /\ ctl[p[1]].gen = p[2]
                          /\ p[1] \in held \/ At(p[1]) \in {"asked", "releasing"}
    /\ \A j \in Api : Handling(j) /\ ctl[j].att = 1 => <<j, ctl[j].gen>> \in permits

(* The lanes share one limit and leave nothing behind: however it changes  *)
(* and lanes return, the fibers started since it was last lowered are not  *)
(* more than it, those of a lane that had read the higher one excepted;    *)
(* and a lane that has returned has no fiber left and no claim that it did *)
(* not start (fibers.py:547, fibers.py:600).                               *)
LanesExact ==
    /\ Cardinality({j \in Api : lane[j] # None} \ kept) <= limit
    /\ \A j \in Api : lane[j] \notin gone

(* API capacity is neither leaked nor given out beyond a limit that may go *)
(* up and down under running work (README.md:401): the permits of the      *)
(* project and the lanes of the node are exact.                            *)
CapacityExact == PermitsExact /\ LanesExact

(* No attempt times out for the framework's own delay: when the checkpoint *)
(* deadline that ended it passed, the handler was in user code or stood at *)
(* an interrupt's pause, which the deadline counts                         *)
(* (supervisor_core.py:204-223).                                           *)
NoFalseTimeout == \A j \in Jobs : watch[j].why = "chk" => j \in late

(* A task with a deadline never keeps its controller for ever, whatever    *)
(* the handler does and whoever wins the race between the deadline, the    *)
(* end of the handler and a restart (task_execution.py:140).               *)
ControllersReturn == \A j \in Timed \ Api : At(j) = "wait" ~> At(j) # "wait"
=============================================================================
