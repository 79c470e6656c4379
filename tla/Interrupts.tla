------------------------------ MODULE Interrupts ------------------------------
(***************************************************************************)
(* Interrupt sessions beside a main session (storage/interrupt_*.py,       *)
(* workflow/interrupt_execution.py, interrupt_cooperation.py).             *)
(*                                                                         *)
(* An interrupt borrows the reservations of its scope, asks the running    *)
(* attempts of the direct predecessors of its target to pause at their     *)
(* next checkpoint, freezes the target when they have, runs it, lets the   *)
(* predecessors go and gives its scope back when it ends.  Interrupts      *)
(* nest: one may borrow from another whose attempt it pauses.              *)
(*                                                                         *)
(* A step is a transaction of the mutation lane, one read of the database  *)
(* by a job, a session or a freeze loop, or the death of a process.  The   *)
(* state of a pause request is kept as "active or not": whether it is      *)
(* requested or acknowledged decides nothing.                              *)
(*                                                                         *)
(* An operator named Bug... is not part of the specification: it is the    *)
(* definition after it with a plausible mistake, for mutation runs.        *)
(***************************************************************************)
EXTENDS Integers, FiniteSets

CONSTANTS
    Comps, Pred,     \* the components and the direct predecessors of each
    Main, Children,  \* the main session and the interrupt sessions
    Scope,           \* session -> the components it selects
    Target,          \* interrupt -> the component it starts with
    Override,        \* interrupts that may start before their parents are done
    Jobs, Home,
    Queued,          \* the jobs that are there when the main session begins
    Feeds,           \* job -> the jobs it publishes
    Failing,         \* jobs whose task may raise
    Mortal,          \* sessions whose process may die
    MaxRestarts,     \* bound on restarts
    None

Sessions == Children \cup {Main}

ASSUME ScopeAssumption ==
    /\ IsFiniteSet(Comps) /\ IsFiniteSet(Jobs) /\ IsFiniteSet(Sessions)
    /\ Main \notin Children /\ None \notin Sessions
    /\ Pred \in [Comps -> SUBSET Comps] /\ Home \in [Jobs -> Comps]
    /\ Scope \in [Sessions -> SUBSET Comps] /\ Feeds \in [Jobs -> SUBSET Jobs]
    /\ \A k \in Children : Target[k] \in Scope[k]
    /\ MaxRestarts \in Nat

VARIABLES
    sess,    \* "none", "running", "dead" (running in the database, no process), "ended"
    broken,  \* sessions that met an error and will only end
    life,    \* component -> lifecycle
    begun,   \* component -> the session of its pending execution
    owner,   \* component_reservations
    job,     \* job -> status of its row
    gen,     \* job -> generation of its row
    exec,    \* job -> the thread that works on it: session, generation, place
    adm,     \* interrupt_admissions
    asks,    \* interrupt_pause_requests that are not released: <<child, owner, component>>
    rows,    \* interrupt_paused_executions
    moved,   \* interrupt_scope_transfers that are active: <<child, source, component>>
    hold,    \* component_holds
    seen,    \* interrupt -> the parent states its freeze loop has read, {} before
    over,    \* interrupts whose frozen admission overrides readiness
    fences,  \* post_interrupt_fences: <<component, source>>
    may,     \* session_fence_authorizations
    restarts

workVars == <<life, begun, job, gen, exec, restarts>>
pauseVars == <<adm, asks, rows, hold, seen, over>>
scopeVars == <<sess, broken, owner, moved>>
fenceVars == <<fences, may>>
vars == <<workVars, pauseVars, scopeVars, fenceVars>>

Idle == [by |-> None, gen |-> 0, at |-> "none"]
Row(k, s, j, g, a) == [child |-> k, owner |-> s, job |-> j, gen |-> g, acked |-> a]

TypeOK ==
    /\ sess \in [Sessions -> {"none", "running", "dead", "ended"}] /\ broken \subseteq Sessions
    /\ life \in [Comps -> {"queued", "running", "done", "failed"}]
    /\ begun \in [Comps -> Sessions \cup {None}] /\ owner \in [Comps -> Sessions \cup {None}]
    /\ job \in [Jobs -> {"absent", "queued", "running", "done", "failed"}]
    /\ gen \in [Jobs -> Nat] /\ restarts \in 0 .. MaxRestarts
    /\ \A j \in Jobs : /\ exec[j].by \in Sessions \cup {None} /\ exec[j].gen \in 0 .. gen[j]
                       /\ exec[j].at \in {"none", "work", "read", "paused"}
    /\ adm \in [Children -> {"none", "admitted", "frozen", "settled"}]
    /\ asks \subseteq Children \X Sessions \X Comps
    /\ moved \subseteq Children \X Sessions \X Comps
    /\ hold \in [Comps -> Children \cup {None}] /\ over \subseteq Children
    /\ fences \subseteq Comps \X Children /\ may \in [Sessions -> SUBSET (Comps \X Children)]

Init ==
    /\ sess = [s \in Sessions |-> IF s = Main THEN "running" ELSE "none"] /\ broken = {}
    /\ life = [c \in Comps |-> "queued"] /\ begun = [c \in Comps |-> None]
    /\ owner = [c \in Comps |-> IF c \in Scope[Main] THEN Main ELSE None]
    /\ job = [j \in Jobs |-> IF j \in Queued THEN "queued" ELSE "absent"]
    /\ gen = [j \in Jobs |-> 0] /\ exec = [j \in Jobs |-> Idle] /\ restarts = 0
    /\ adm = [k \in Children |-> "none"]
    /\ asks = {} /\ rows = {} /\ moved = {} /\ hold = [c \in Comps |-> None]
    /\ seen = [k \in Children |-> {}] /\ over = {}
    /\ fences = {} /\ may = [s \in Sessions |-> {}]

JobsOf(c) == {j \in Jobs : Home[j] = c}
Current(j) == job[j] = "running" /\ exec[j].at # "none" /\ exec[j].gen = gen[j]
Open(k) == adm[k] \in {"admitted", "frozen"}
StatusRunning(s) == sess[s] \in {"running", "dead"}

(* The target of a fence is the component or one of its ancestors. *)
Ancestors(c) ==
    LET up[n \in 0 .. Cardinality(Comps)] ==
            IF n = 0 THEN {c} ELSE up[n - 1] \cup UNION {Pred[d] : d \in up[n - 1]}
    IN  up[Cardinality(Comps)]
FencesFor(s, c) == {f \in fences : f[1] \in Ancestors(c) /\ f[2] # s /\ f \notin may[s]}

(* read_interrupt_claim_blockers *)
BugUntilFrozen(s, c) ==
    {k \in Children : <<k, s, c>> \in asks /\ adm[k] = "admitted"}
    \cup {k \in Children : <<k, s, c>> \in moved /\ StatusRunning(k)}
Blockers(s, c) ==
    {k \in Children : <<k, s, c>> \in asks /\ Open(k)}
    \cup {k \in Children : <<k, s, c>> \in moved /\ StatusRunning(k)}

(***************************************************************************)
(* A session runs the components it has reserved.                          *)
(***************************************************************************)
Ready(s, c) ==
    IF s \in Children /\ c = Target[s]
    THEN adm[s] = "frozen" /\ hold[c] = s
    ELSE \A p \in Pred[c] : life[p] = "done"

BeginComponent(s, c) ==
    /\ sess[s] = "running" /\ s \notin broken /\ owner[c] = s /\ c \in Scope[s]
    /\ life[c] = "queued" /\ Blockers(s, c) = {} /\ FencesFor(s, c) = {} /\ Ready(s, c)
    /\ life' = [life EXCEPT ![c] = "running"] /\ begun' = [begun EXCEPT ![c] = s]
    /\ UNCHANGED <<job, gen, exec, restarts, pauseVars, scopeVars, fenceVars>>

(* A claim that meets a pause is tried again, one that meets a fence is an *)
(* error of the session.                                                   *)
MayClaim(s, j) ==
    /\ sess[s] = "running" /\ s \notin broken /\ job[j] = "queued" /\ exec[j] = Idle
    /\ owner[Home[j]] = s /\ life[Home[j]] = "running" /\ begun[Home[j]] = s
    /\ Blockers(s, Home[j]) = {}
Claim(s, j) ==
    /\ MayClaim(s, j) /\ FencesFor(s, Home[j]) = {}
    /\ job' = [job EXCEPT ![j] = "running"]
    /\ exec' = [exec EXCEPT ![j] = [by |-> s, gen |-> gen[j], at |-> "work"]]
    /\ UNCHANGED <<life, begun, gen, restarts, pauseVars, scopeVars, fenceVars>>
ClaimRefused(s, j) ==
    /\ MayClaim(s, j) /\ FencesFor(s, Home[j]) # {}
    /\ broken' = broken \cup {s}
    /\ UNCHANGED <<workVars, pauseVars, sess, owner, moved, fenceVars>>

(***************************************************************************)
(* The checkpoint of a running job: wait_for_interrupt_pauses.             *)
(***************************************************************************)
Pauses(j) == {r \in rows : r.job = j /\ r.gen = exec[j].gen /\ Open(r.child)
                           /\ <<r.child, r.owner, Home[j]>> \in asks}

ReadPauses(j) ==
    /\ exec[j].at = "work" /\ Current(j) /\ Pauses(j) # {}
    /\ exec' = [exec EXCEPT ![j].at = "read"]
    /\ UNCHANGED <<life, begun, job, gen, restarts, pauseVars, scopeVars, fenceVars>>

(* Every row of the execution is acknowledged, the rows of interrupts that *)
(* were admitted after the first read included.                            *)
Acked(j) == {IF r.job = j /\ r.gen = exec[j].gen /\ Open(r.child) THEN [r EXCEPT !.acked = TRUE]
             ELSE r : r \in rows}
AcknowledgePauses(j) ==
    /\ exec[j].at = "read" /\ Current(j)
    /\ rows' = Acked(j)
    /\ exec' = [exec EXCEPT ![j].at = "paused"]
    /\ UNCHANGED <<life, begun, job, gen, restarts, adm, asks, hold, seen, over, scopeVars, fenceVars>>

(* The loop reads the pauses again and acknowledges nothing more. *)
Waiting(j) == Pauses(j)
LeavePause(j) ==
    /\ exec[j].at = "paused" /\ Current(j) /\ Waiting(j) = {}
    /\ exec' = [exec EXCEPT ![j].at = "work"]
    /\ UNCHANGED <<life, begun, job, gen, restarts, pauseVars, scopeVars, fenceVars>>

(* JobRestartedError, wherever the thread is. *)
Unwind(j) ==
    /\ exec[j].at # "none" /\ ~Current(j)
    /\ exec' = [exec EXCEPT ![j] = Idle]
    /\ UNCHANGED <<life, begun, job, gen, restarts, pauseVars, scopeVars, fenceVars>>

(* _refuse_interrupt_held_publication *)
BugIgnoresHold(j, n) == FALSE
Held(j, n) == LET k == hold[Home[n]]
              IN  k # None /\ adm[k] = "frozen" /\ Target[k] = Home[n] /\ exec[j].by # k
Publish(j) ==
    /\ exec[j].at = "work" /\ Current(j)
    /\ \E n \in Feeds[j] : /\ job[n] = "absent" /\ ~Held(j, n) /\ life[Home[n]] # "done"
                           /\ job' = [job EXCEPT ![n] = "queued"]
    /\ UNCHANGED <<life, begun, gen, exec, restarts, pauseVars, scopeVars, fenceVars>>

JobEnds(j, status) ==
    /\ exec[j].at = "work" /\ Current(j)
    /\ job' = [job EXCEPT ![j] = status] /\ exec' = [exec EXCEPT ![j] = Idle]
    /\ UNCHANGED <<life, begun, gen, restarts, pauseVars, sess, owner, moved, fenceVars>>
FinishJob(j) ==
    /\ \A n \in Feeds[j] : job[n] # "absent" \/ life[Home[n]] = "done"
    /\ JobEnds(j, "done") /\ UNCHANGED broken
FailJob(j) ==
    /\ j \in Failing \/ \E n \in Feeds[j] : job[n] = "absent" /\ Held(j, n)
    /\ JobEnds(j, "failed") /\ broken' = broken \cup {exec[j].by}

RestartJob(j) ==
    /\ restarts < MaxRestarts /\ Current(j) /\ sess[exec[j].by] = "running"
    /\ restarts' = restarts + 1
    /\ gen' = [gen EXCEPT ![j] = @ + 1] /\ job' = [job EXCEPT ![j] = "queued"]
    /\ UNCHANGED <<life, begun, exec, pauseVars, scopeVars, fenceVars>>

(***************************************************************************)
(* The interrupt: admission, freeze and settlement of the target.          *)
(***************************************************************************)
PredecessorExecutions(k) == {j \in Jobs : Home[j] \in Pred[Target[k]] /\ job[j] = "running"}
ExecutionOwner(j) == owner[Home[j]]
ParentSessions(k) == {ExecutionOwner(j) : j \in PredecessorExecutions(k)}

(* _admit_interrupt_execution: what is already reserved is borrowed, from  *)
(* another interrupt only if that is a parent.                             *)
Admit(k) ==
    /\ sess[k] = "none"
    /\ \A c \in Scope[k] : /\ life[c] = "queued" /\ \A j \in JobsOf(c) : job[j] # "running"
                           /\ owner[c] \in Children => owner[c] \in ParentSessions(k)
    /\ sess' = [sess EXCEPT ![k] = "running"]
    /\ adm' = [adm EXCEPT ![k] = "admitted"]
    /\ moved' = moved \cup {<<k, owner[c], c>> : c \in {d \in Scope[k] : owner[d] # None}}
    /\ owner' = [c \in Comps |-> IF c \in Scope[k] THEN k ELSE owner[c]]
    /\ asks' = asks \cup {<<k, ExecutionOwner(j), Home[j]>> : j \in PredecessorExecutions(k)}
    /\ rows' = rows \cup {Row(k, ExecutionOwner(j), j, gen[j], FALSE) : j \in PredecessorExecutions(k)}
    /\ may' = [may EXCEPT ![k] = UNION {FencesFor(k, c) : c \in Scope[k]}]
    /\ UNCHANGED <<workVars, broken, hold, seen, over, fences>>

Awaiting(k) == sess[k] = "running" /\ k \notin broken /\ adm[k] = "admitted"
ParentStates(k) == {<<p, life[p]>> : p \in Pred[Target[k]]}

(* One pass of freeze_interrupt_session: the parents are read ... *)
ObserveParents(k) ==
    /\ Awaiting(k) /\ seen[k] = {}
    /\ seen' = [seen EXCEPT ![k] = ParentStates(k)]
    /\ UNCHANGED <<workVars, adm, asks, rows, hold, over, scopeVars, fenceVars>>

(* ... and freeze_interrupt_target looks at every recorded execution.  The *)
(* rows are read one by one: a pass that meets both an execution that is   *)
(* still to pause and one that was replaced does what the first one asks.  *)
Same(r) == gen[r.job] = r.gen /\ job[r.job] # "queued"
RowsOf(k) == {r \in rows : r.child = k}
BugWaitsForFinished(k) == \E r \in RowsOf(k) : Same(r) /\ ~r.acked
Pending(k) == \E r \in RowsOf(k) : Same(r) /\ job[r.job] = "running" /\ ~r.acked
Replaced(k) == \E r \in RowsOf(k) : ~Same(r)
Ready2Freeze(k) == ~Pending(k) /\ ~Replaced(k)
Overrides(k) == \E p \in seen[k] : p[2] # "done"

FreezeRetry(k) ==
    /\ Awaiting(k) /\ seen[k] # {}
    /\ Pending(k) \/ (~Replaced(k) /\ ParentStates(k) # seen[k])
    /\ seen' = [seen EXCEPT ![k] = {}]
    /\ UNCHANGED <<workVars, adm, asks, rows, hold, over, scopeVars, fenceVars>>
FreezeRefused(k) ==
    /\ Awaiting(k) /\ seen[k] # {}
    /\ \/ Replaced(k)
       \/ /\ ~Pending(k) /\ ParentStates(k) = seen[k]
          /\ hold[Target[k]] # None \/ (Overrides(k) /\ k \notin Override)
    /\ broken' = broken \cup {k}
    /\ UNCHANGED <<workVars, pauseVars, sess, owner, moved, fenceVars>>
Freeze(k) ==
    /\ Awaiting(k) /\ seen[k] # {} /\ Ready2Freeze(k) /\ ParentStates(k) = seen[k]
    /\ hold[Target[k]] = None /\ (Overrides(k) => k \in Override)
    /\ hold' = [hold EXCEPT ![Target[k]] = k]
    /\ adm' = [adm EXCEPT ![k] = "frozen"]
    /\ over' = IF Overrides(k) THEN over \cup {k} ELSE over
    /\ rows' = {IF r.child = k THEN [r EXCEPT !.acked = TRUE] ELSE r : r \in rows}
    /\ UNCHANGED <<workVars, asks, seen, scopeVars, fenceVars>>

(* The hold and the pauses of an interrupt, after the settlement of its    *)
(* target or at its exit.                                                  *)
Unheld(k) == [c \in Comps |-> IF hold[c] = k THEN None ELSE hold[c]]
Unasked(k) == {a \in asks : a[1] # k}

(* finish_successful_component_execution; the target is settled with it. *)
FinishComponent(s, c) ==
    /\ sess[s] = "running" /\ s \notin broken /\ life[c] = "running" /\ begun[c] = s
    /\ \A j \in JobsOf(c) : job[j] \in {"absent", "done"} /\ exec[j] = Idle
    /\ life' = [life EXCEPT ![c] = "done"]
    /\ IF s \in Children /\ c = Target[s]
       THEN /\ adm' = [adm EXCEPT ![s] = "settled"]
            /\ hold' = Unheld(s) /\ asks' = Unasked(s)
            /\ fences' = IF s \in over THEN fences \cup {<<c, s>>} ELSE fences
       ELSE UNCHANGED <<adm, hold, asks, fences>>
    /\ UNCHANGED <<begun, job, gen, exec, restarts, rows, seen, over, scopeVars, may>>

(***************************************************************************)
(* The end of a session: settle_execution_session.                         *)
(***************************************************************************)
(* require_admitted_reservation_scope: what a session selected is reserved *)
(* by it or, along active transfers, by a child.                           *)
Descends(s, c) ==
    LET down[n \in 0 .. Cardinality(Children)] ==
            IF n = 0 THEN {s}
            ELSE down[n - 1] \cup {k \in Children : StatusRunning(k)
                                      /\ \E t \in down[n - 1] : <<k, t, c>> \in moved}
    IN  down[Cardinality(Children)]
ScopeExact(s) == \A c \in Scope[s] : owner[c] \in Descends(s, c)

(* A borrowed component goes back to a live source and is released when    *)
(* the source has ended.  The transaction is refused when the component is *)
(* lent on, and when its source is dead: the scope of that source would no *)
(* longer be exact.                                                        *)
Borrowed(s) == {t \in moved : t[1] = s}
SettleAllowed(s) ==
    /\ ScopeExact(s)
    /\ \A t \in Borrowed(s) : owner[t[3]] = s /\ sess[t[2]] # "dead"
BugNeverReturns(s, c) == None
Returned(s, c) ==
    IF \E t \in Borrowed(s) : t[3] = c /\ sess[t[2]] = "running"
    THEN (CHOOSE t \in Borrowed(s) : t[3] = c)[2] ELSE None
TransfersAfter(s) == moved \ Borrowed(s)
Settle(s) ==
    /\ sess' = [sess EXCEPT ![s] = "ended"]
    /\ owner' = [c \in Comps |-> IF owner[c] = s THEN Returned(s, c) ELSE owner[c]]
    /\ moved' = TransfersAfter(s)
    /\ hold' = Unheld(s) /\ asks' = Unasked(s)
    /\ adm' = IF s \in Children THEN [adm EXCEPT ![s] = "settled"] ELSE adm
    /\ life' = [c \in Comps |-> IF owner[c] = s /\ life[c] = "running" THEN "failed" ELSE life[c]]
    /\ UNCHANGED <<begun, restarts, broken, rows, seen, over, fenceVars>>

(* A session ends on an error, or when nothing of its scope can run and    *)
(* nothing it waits for is with an interrupt (waiting_on_interrupt).       *)
Startable(s, c) ==
    /\ owner[c] = s /\ FencesFor(s, c) = {}
    /\ life[c] = "running" \/ (life[c] = "queued" /\ Ready(s, c))
NothingToDo(s) ==
    /\ s \in Children => adm[s] # "admitted"
    /\ \A c \in Scope[s] : ~Startable(s, c) /\ (FencesFor(s, c) = {} => Blockers(s, c) = {})
Ending(s) ==
    /\ s \in broken \/ NothingToDo(s)
    /\ \A j \in Jobs : exec[j].by # s
Exit(s) ==
    /\ sess[s] = "running" /\ Ending(s) /\ SettleAllowed(s)
    /\ Settle(s) /\ UNCHANGED <<job, gen, exec>>
ExitRefused(s) ==
    /\ sess[s] = "running" /\ Ending(s) /\ ~SettleAllowed(s)
    /\ sess' = [sess EXCEPT ![s] = "dead"]
    /\ UNCHANGED <<workVars, pauseVars, broken, owner, moved, fenceVars>>

Die(s) ==
    /\ s \in Mortal /\ sess[s] = "running"
    /\ sess' = [sess EXCEPT ![s] = "dead"]
    /\ exec' = [j \in Jobs |-> IF exec[j].by = s THEN Idle ELSE exec[j]]
    /\ UNCHANGED <<life, begun, job, gen, restarts, pauseVars, broken, owner, moved, fenceVars>>

(* mwf recover: a dead session's running jobs go back to the queue and the *)
(* session is settled like any other.                                      *)
Abandoned(s) == {j \in Jobs : job[j] = "running" /\ owner[Home[j]] = s}
Recover(s) ==
    /\ sess[s] = "dead" /\ SettleAllowed(s) /\ Settle(s)
    /\ job' = [j \in Jobs |-> IF j \in Abandoned(s) THEN "queued" ELSE job[j]]
    /\ gen' = [j \in Jobs |-> IF j \in Abandoned(s) THEN gen[j] + 1 ELSE gen[j]]
    /\ UNCHANGED exec

SessionStep(s) ==
    \/ \E c \in Comps : BeginComponent(s, c) \/ FinishComponent(s, c)
    \/ \E j \in Jobs : Claim(s, j) \/ ClaimRefused(s, j)
    \/ Exit(s) \/ ExitRefused(s)
FreezeStep(k) == ObserveParents(k) \/ FreezeRetry(k) \/ FreezeRefused(k) \/ Freeze(k)
JobStep(j) == ReadPauses(j) \/ AcknowledgePauses(j) \/ LeavePause(j) \/ Unwind(j) \/ Publish(j)
                \/ FinishJob(j) \/ FailJob(j)

WorkStep ==
    \/ \E s \in Sessions : SessionStep(s) \/ Recover(s)
    \/ \E j \in Jobs : JobStep(j)

Next ==
    \/ WorkStep
    \/ \E s \in Sessions : Die(s)
    \/ \E k \in Children : Admit(k) \/ FreezeStep(k)
    \/ \E j \in Jobs : RestartJob(j)

Spec == Init /\ [][Next]_vars

(* Sessions and jobs go on while they can (a job reaches a checkpoint or   *)
(* its end, "mwf recover" is run while a session is dead), and so does the *)
(* freeze loop of each interrupt.  Nothing obliges anyone to start an      *)
(* interrupt, to restart a job or to die.                                  *)
FairSpec == Spec /\ WF_vars(WorkStep) /\ \A k \in Children : WF_vars(FreezeStep(k))

(***************************************************************************)
(* Properties.                                                             *)
(***************************************************************************)

(* While the target of an interrupt is frozen, the predecessors it paused  *)
(* stand still: each attempt that runs in them waits at its checkpoint,    *)
(* through restarts, claims and the release of another interrupt           *)
(* (interrupt_coordination.py:71).                                         *)
PausedStandStill ==
    \A k \in Children, j \in Jobs :
        adm[k] = "frozen" /\ Current(j) /\ <<k, exec[j].by, Home[j]>> \in asks =>
            exec[j].at = "paused"

(* What an interrupt froze stays frozen: until it lets go, no other        *)
(* session adds a job to the target.                                       *)
FrozenInput ==
    [][\A k \in Children : adm[k] = "frozen" /\ adm'[k] = "frozen" =>
          \A j \in JobsOf(Target[k]) : job[j] = "absent" /\ job'[j] # "absent" =>
              \E i \in Jobs : j \in Feeds[i] /\ exec[i].by = k]_vars

(* No reservation is lost or kept too long.  A session that is recorded as *)
(* running has every component it selected, itself or through the children *)
(* it was lent to; a component is reserved by such a session; and one that *)
(* has ended has no hold, no pause and no borrowed component.              *)
ScopeAccounted ==
    /\ TypeOK
    /\ \A s \in Sessions : StatusRunning(s) => ScopeExact(s)
    /\ \A c \in Comps : /\ owner[c] # None => StatusRunning(owner[c])
                        /\ hold[c] # None => StatusRunning(hold[c])
    /\ \A k \in Children : sess[k] = "ended" =>
          /\ \A a \in asks : a[1] # k
          /\ \A t \in moved : t[1] # k

(* An attempt that paused for an interrupt goes on in the end. *)
PausedResumes == (\E j \in Jobs : exec[j].at = "paused") ~> (\A j \in Jobs : exec[j].at # "paused")

(* An interrupt that was admitted ends: it is frozen when the attempts it  *)
(* asked have acknowledged or finished (docs/operations.md:195).           *)
InterruptsEnd == (\E k \in Children : sess[k] = "running") ~> (\A k \in Children : sess[k] # "running")

(* Neither an interrupt nor what it paused waits for ever.                 *)
AllGoesOn == PausedResumes /\ InterruptsEnd
=============================================================================
