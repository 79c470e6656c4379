------------------------- MODULE JobExecutionProofs -------------------------
(***************************************************************************)
(* Proofs about JobExecution for any jobs, sessions and bounds: its type   *)
(* invariant, the ownership of execution leases, the life cycle of the     *)
(* component reservation, and what the attempts publish.                   *)
(***************************************************************************)
EXTENDS JobExecution, TLAPS

(***************************************************************************)
(* The inductive invariant.  LeaseOwnership alone is not inductive: a      *)
(* claim must not overwrite the owner of another active execution (ids are *)
(* fresh), a new reservation must find no active row, and settling a       *)
(* session must not leave a pending execution behind.                      *)
(***************************************************************************)
IdsIssued == \A j \in Jobs : row[j].active <= issued /\ row[j].last <= issued

(* A controller past its claim knows its execution, and past its task its  *)
(* result: what WriteOutput and Finalize publish is well formed.           *)
Working == {"claimed", "executing", "publishing", "guarded", "written"}
HasResult == {"publishing", "guarded", "written"}
Sound(c) == /\ c.pc \in Working => c.exec # NoExec
            /\ c.pc \in HasResult => c.result \in Results
ControllersSound == \A s \in Sessions, j \in Jobs : Sound(ctl[s][j])

PendingReserved == \A s \in Sessions : sess[s].pending => resv = s

LeaseInv == LeaseOwnership /\ IdsIssued /\ ReservationLifecycle /\ PendingReserved
IInv == TypeOK /\ ControllersSound /\ LeaseInv

(***************************************************************************)
(* Facts about the data.                                                   *)
(***************************************************************************)
(* Setting one controller keeps all of them well formed. *)
LEMMA SetController ==
    ASSUME ctl \in [Sessions -> [Jobs -> Controllers]], ControllersSound,
           NEW s \in Sessions, NEW j \in Jobs, NEW c \in Controllers, Sound(c),
           ctl' = [ctl EXCEPT ![s][j] = c]
    PROVE  ctl' \in [Sessions -> [Jobs -> Controllers]] /\ ControllersSound'
BY DEF ControllersSound, Sound

(* Goto changes only the place of a controller. *)
LEMMA GotoController ==
    ASSUME ctl \in [Sessions -> [Jobs -> Controllers]], ControllersSound,
           NEW s \in Sessions, NEW j \in Jobs, NEW pc \in Places, Goto(s, j, pc),
           pc \in Working => ctl[s][j].pc \in Working,
           pc \in HasResult => ctl[s][j].pc \in HasResult
    PROVE  ctl' \in [Sessions -> [Jobs -> Controllers]] /\ ControllersSound'
<1> DEFINE c == [ctl[s][j] EXCEPT !.pc = pc]
<1>0. ctl[s][j] \in Controllers OBVIOUS
<1>1. c \in Controllers BY <1>0 DEF Controllers
<1>2. Sound(c) BY <1>0 DEF Sound, ControllersSound, Controllers
<1>3. ctl' = [ctl EXCEPT ![s][j] = c] BY DEF Goto
<1> QED BY <1>1, <1>2, <1>3, SetController

(* Resetting a session's controllers keeps all of them well formed. *)
LEMMA ResetControllers ==
    ASSUME ctl \in [Sessions -> [Jobs -> Controllers]], ControllersSound,
           NEW s \in Sessions,
           ctl' = [ctl EXCEPT ![s] = [j \in Jobs |-> IdleController]]
    PROVE  ctl' \in [Sessions -> [Jobs -> Controllers]] /\ ControllersSound'
<1>1. IdleController \in Controllers /\ Sound(IdleController)
    BY DEF IdleController, Controllers, Places, NoExec, Sound, Working, HasResult
<1> QED BY <1>1 DEF ControllersSound

(***************************************************************************)
(* How the three kinds of writer transactions treat the leases.            *)
(***************************************************************************)
(* What a transaction may do to a row without touching the lease's owner:  *)
(* leave it, or end its lease.                                             *)
Ended(j) == row'[j].active = NoExec /\ row'[j].status # "running" /\ row'[j].last = row[j].last

(* Ending leases preserves the ownership of the others. *)
LEMMA EndLeases ==
    ASSUME TypeOK, LeaseInv, row' \in [Jobs -> Rows],
           \A j \in Jobs : row'[j] = row[j] \/ Ended(j),
           comp' = "running" <=> comp = "running",
           UNCHANGED <<owner, issued, sess, resv>>
    PROVE  LeaseInv'
<1>1. LeaseOwnership' BY DEF LeaseInv, LeaseOwnership, Ended
<1>2. IdsIssued' BY DEF LeaseInv, IdsIssued, Ended, TypeOK, NoExec
<1>3. ReservationLifecycle' /\ PendingReserved'
    BY DEF LeaseInv, ReservationLifecycle, PendingReserved
<1> QED BY <1>1, <1>2, <1>3 DEF LeaseInv

(* Settling a session is sound when the rows it ends include every active  *)
(* row of the component it holds.                                          *)
LEMMA SettleLeases ==
    ASSUME TypeOK, LeaseInv, NEW s \in Sessions, NEW exited \in BOOLEAN,
           sess[s].status = "running", Settle(s, exited),
           row' \in [Jobs -> Rows],
           \A j \in Jobs : row'[j] = row[j] \/ Ended(j),
           resv = s => \A j \in Jobs : row'[j].active = NoExec /\ row'[j].status # "running",
           sess[s].pending => comp' # "running",
           ~sess[s].pending => comp' = comp,
           UNCHANGED <<owner, issued>>
    PROVE  LeaseInv' /\ sess' \in [Sessions -> SessionRows] /\ resv' \in Sessions \cup {Nobody}
<1>1. sess' \in [Sessions -> SessionRows] /\ resv' \in Sessions \cup {Nobody}
    BY DEF Settle, TypeOK, SessionRows
<1>2. \A x \in Sessions \ {s} : sess'[x] = sess[x]
    BY DEF Settle, TypeOK
<1>3. sess'[s].pending = FALSE /\ sess'[s].status = "terminal"
    BY DEF Settle, TypeOK
<1>4. resv' = IF resv = s THEN Nobody ELSE resv
    BY DEF Settle
<1>5. LeaseOwnership'
    BY <1>2, <1>4, NobodyAssumption DEF LeaseInv, LeaseOwnership, Ended, TypeOK
<1>6. IdsIssued' BY DEF LeaseInv, IdsIssued, Ended, TypeOK, NoExec
<1>7. PendingReserved'
    BY <1>2, <1>3, <1>4 DEF LeaseInv, PendingReserved
<1>8. ReservationLifecycle'
    BY <1>2, <1>3, <1>4, NobodyAssumption
       DEF LeaseInv, ReservationLifecycle, PendingReserved, TypeOK
<1> QED BY <1>1, <1>5, <1>6, <1>7, <1>8 DEF LeaseInv

(* An accepted claim issues a fresh execution to the session that holds    *)
(* the component.                                                          *)
LEMMA ClaimLease ==
    ASSUME IInv, NEW s \in Sessions, NEW j \in Jobs, ~LeaseRefused(s, j), ApplyClaim(s, j)
    PROVE  IInv'
<1> DEFINE e == issued + 1
<1> DEFINE r == [row[j] EXCEPT !.status = "running", !.active = e, !.last = e, !.marker = FALSE]
<1> DEFINE o == [job |-> j, gen |-> row[j].gen, session |-> s]
<1> DEFINE c == [pc |-> "claimed", gen |-> row[j].gen, exec |-> e, result |-> "none", expect |-> 0]
<1>1. TypeOK /\ ControllersSound /\ LeaseInv BY DEF IInv
<1>2. e \in ExecIds /\ issued' = e /\ e # NoExec /\ e \in Nat /\ issued < e
    BY <1>1, BoundsAssumption DEF ApplyClaim, TypeOK, ExecIds, NoExec
<1>3. row[j] \in Rows /\ row[j].gen \in Nat BY <1>1 DEF TypeOK, Rows
<1>4. r \in Rows BY <1>2, <1>3 DEF Rows, Statuses
<1>5. row' = [row EXCEPT ![j] = r] BY DEF ApplyClaim
<1>6. owner' = [owner EXCEPT ![e] = o] BY DEF ApplyClaim
<1>7. o \in Owners BY <1>3 DEF Owners
<1>8. row' \in [Jobs -> Rows] /\ owner' \in [ExecIds -> Owners] /\ issued' \in 0 .. MaxExecutions
    BY <1>1, <1>2, <1>4, <1>5, <1>6, <1>7, BoundsAssumption DEF TypeOK, ExecIds
<1>9. c \in Controllers /\ Sound(c)
    BY <1>2, <1>3 DEF Controllers, Places, Results, Sound, HasResult, Working, NoExec
<1>10. ctl' \in [Sessions -> [Jobs -> Controllers]] /\ ControllersSound'
    <2>1. ctl' = [ctl EXCEPT ![s][j] = c] BY DEF ApplyClaim
    <2> QED BY <1>1, <1>9, <2>1, SetController DEF TypeOK
<1>11. TypeOK'
    BY <1>1, <1>8, <1>10 DEF TypeOK, ApplyClaim, sessionVars, processVars
<1>12. UNCHANGED <<sess, resv, comp>> BY DEF ApplyClaim, sessionVars
<1>13. IdsIssued'
    <2> SUFFICES ASSUME NEW k \in Jobs
                 PROVE  row'[k].active <= e /\ row'[k].last <= e
        BY <1>2 DEF IdsIssued
    <2>1. r.active = e /\ r.last = e BY <1>3 DEF Rows
    <2>2. row'[k] = r \/ row'[k] = row[k] BY <1>1, <1>5 DEF TypeOK
    <2>3. row[k].active \in Nat /\ row[k].last \in Nat /\ issued \in Nat
        BY <1>1 DEF TypeOK, Rows, ExecIds, NoExec
    <2>4. row[k].active <= issued /\ row[k].last <= issued
        BY <1>1 DEF LeaseInv, IdsIssued
    <2>5. CASE row'[k] = r BY <1>2, <2>1, <2>5
    <2>6. CASE row'[k] = row[k]
        <3> HIDE DEF r, e
        <3> QED BY <1>2, <2>3, <2>4, <2>6
    <2> QED BY <2>2, <2>5, <2>6
<1>14. LeaseOwnership'
    <2> SUFFICES ASSUME NEW k \in Jobs
                 PROVE  /\ row'[k].status = "running" <=> row'[k].active # NoExec
                        /\ row'[k].active # NoExec =>
                              /\ row'[k].active = row'[k].last
                              /\ owner'[row'[k].active] =
                                    [job |-> k, gen |-> row'[k].gen, session |-> resv]
                              /\ resv # Nobody /\ sess[resv].status = "running"
        BY <1>12 DEF LeaseOwnership
    <2>1. CASE k = j
        <3>1. row'[k] = r BY <1>1, <1>5, <2>1 DEF TypeOK
        <3>2. r.status = "running" /\ r.active = e /\ r.last = e /\ r.gen = row[j].gen
            BY <1>3 DEF Rows
        <3>3. owner'[e] = o BY <1>1, <1>2, <1>6 DEF TypeOK
        <3> QED BY <1>2, <2>1, <3>1, <3>2, <3>3, NobodyAssumption DEF LeaseRefused
    <2>2. CASE k # j
        <3>1. row'[k] = row[k] BY <1>1, <1>5, <2>2 DEF TypeOK
        <3>2. row[k].active # NoExec => row[k].active # e /\ row[k].active \in ExecIds
            BY <1>1, <1>2 DEF LeaseInv, IdsIssued, TypeOK, Rows, NoExec, ExecIds
        <3>3. row[k].active # NoExec => owner'[row[k].active] = owner[row[k].active]
            BY <1>1, <1>6, <3>2 DEF TypeOK
        <3> QED BY <1>1, <3>1, <3>3 DEF LeaseInv, LeaseOwnership
    <2> QED BY <2>1, <2>2
<1>15. ReservationLifecycle' /\ PendingReserved'
    BY <1>1, <1>12 DEF LeaseInv, ReservationLifecycle, PendingReserved
<1> QED BY <1>10, <1>11, <1>13, <1>14, <1>15 DEF IInv, LeaseInv

(* Steps that leave the tables alone: only processes, fences and           *)
(* controllers change.                                                     *)
LEMMA ProcessStep ==
    ASSUME IInv, UNCHANGED <<jobVars, sessionVars, cancels>>,
           alive' \in [Sessions -> BOOLEAN], fresh' \in [Sessions -> BOOLEAN],
           fence' \in [Jobs -> Sessions \cup {Nobody}], out' \in [Jobs -> Outputs],
           ctl' \in [Sessions -> [Jobs -> Controllers]], ControllersSound'
    PROVE  IInv'
<1>1. TypeOK' BY DEF IInv, TypeOK, jobVars, sessionVars
<1>2. LeaseInv'
    BY DEF IInv, LeaseInv, LeaseOwnership, IdsIssued, ReservationLifecycle,
           PendingReserved, jobVars, sessionVars
<1> QED BY <1>1, <1>2 DEF IInv

(* Steps of one controller that change nothing but its place. *)
LEMMA ControllerStep ==
    ASSUME IInv, NEW s \in Sessions, NEW j \in Jobs,
           UNCHANGED <<jobVars, sessionVars, processVars, cancels>>,
           fence' \in [Jobs -> Sessions \cup {Nobody}], out' \in [Jobs -> Outputs],
           NEW pc \in Places, Goto(s, j, pc),
           pc \in Working => ctl[s][j].pc \in Working,
           pc \in HasResult => ctl[s][j].pc \in HasResult
    PROVE  IInv'
<1>1. ctl' \in [Sessions -> [Jobs -> Controllers]] /\ ControllersSound'
    BY GotoController DEF IInv, TypeOK
<1> QED BY <1>1, ProcessStep DEF IInv, TypeOK, processVars

(* Steps that end leases. *)
LEMMA EndStep ==
    ASSUME IInv, row' \in [Jobs -> Rows], \A j \in Jobs : row'[j] = row[j] \/ Ended(j),
           comp' \in Lifecycles, comp' = "running" <=> comp = "running",
           out' \in [Jobs -> Outputs],
           UNCHANGED <<owner, issued, sess, resv, processVars, fence>>,
           cancels' \in 0 .. MaxCancels,
           ctl' \in [Sessions -> [Jobs -> Controllers]], ControllersSound'
    PROVE  IInv'
<1>1. LeaseInv' BY EndLeases DEF IInv
<1>2. TypeOK' BY DEF IInv, TypeOK, processVars
<1> QED BY <1>1, <1>2 DEF IInv

(* A terminal row is well formed and its lease is ended. *)
LEMMA TerminalRowFacts ==
    ASSUME NEW r \in Rows, NEW status \in Statuses \ {"running"}
    PROVE  /\ TerminalRow(r, status) \in Rows
           /\ TerminalRow(r, status).active = NoExec
           /\ TerminalRow(r, status).status = status
           /\ TerminalRow(r, status).last = r.last
BY DEF TerminalRow, Rows, NoExec

(* The session's steps before and after its jobs ran. *)
LEMMA SessionSteps ==
    ASSUME IInv, NEW s \in Sessions,
           \/ CreateSession(s) \/ ReserveComponents(s) \/ ReservationConflict(s)
           \/ BeginComponent(s) \/ FinishComponent(s)
    PROVE  IInv'
<1>1. TypeOK /\ ControllersSound /\ LeaseInv BY DEF IInv
<1>2. CASE CreateSession(s)
    <2>1. TypeOK'
        BY <1>1, <1>2 DEF CreateSession, TypeOK, SessionRows, jobVars
    <2>2. LeaseInv'
        BY <1>1, <1>2 DEF CreateSession, TypeOK, SessionRows, jobVars, LeaseInv, LeaseOwnership,
           IdsIssued, ReservationLifecycle, PendingReserved
    <2> QED BY <1>1, <1>2, <2>1, <2>2 DEF IInv, CreateSession, ControllersSound
<1>3. CASE ReserveComponents(s)
    <2>1. TypeOK'
        BY <1>1, <1>3 DEF ReserveComponents, TypeOK, jobVars, processVars
    <2>2. LeaseInv'
        BY <1>1, <1>3, NobodyAssumption DEF ReserveComponents, TypeOK, SessionRows, jobVars,
           LeaseInv, LeaseOwnership, IdsIssued, ReservationLifecycle, PendingReserved
    <2> QED BY <1>1, <1>3, <2>1, <2>2 DEF IInv, ReserveComponents, ControllersSound
<1>4. CASE ReservationConflict(s)
    <2> DEFINE ended == [sess[s] EXCEPT !.status = "terminal", !.exited = TRUE]
    <2>1. sess' = [sess EXCEPT ![s] = ended] BY <1>1, <1>4 DEF ReservationConflict, TypeOK
    <2>2. ended \in SessionRows BY <1>1 DEF TypeOK, SessionRows
    <2>3. TypeOK'
        <3> HIDE DEF ended
        <3> QED BY <1>1, <1>4, <2>1, <2>2 DEF ReservationConflict, TypeOK, jobVars
    <2>4. LeaseInv'
        BY <1>1, <1>4, NobodyAssumption DEF ReservationConflict, TypeOK, SessionRows, jobVars,
           LeaseInv, LeaseOwnership, IdsIssued, ReservationLifecycle, PendingReserved
    <2> QED BY <1>1, <1>4, <2>3, <2>4 DEF IInv, ReservationConflict, ControllersSound
<1>5. CASE BeginComponent(s)
    <2>1. TypeOK'
        BY <1>1, <1>5 DEF BeginComponent, TypeOK, SessionRows, Lifecycles, jobVars, processVars
    <2>2. LeaseInv'
        BY <1>1, <1>5, NobodyAssumption DEF BeginComponent, TypeOK, SessionRows, jobVars,
           LeaseInv, LeaseOwnership, IdsIssued, ReservationLifecycle, PendingReserved
    <2> QED BY <1>1, <1>5, <2>1, <2>2 DEF IInv, BeginComponent, ControllersSound
<1>6. CASE FinishComponent(s)
    <2>1. TypeOK'
        BY <1>1, <1>6 DEF FinishComponent, TypeOK, SessionRows, Lifecycles, jobVars, processVars
    <2>2. sess[s].pending BY <1>6 DEF FinishComponent, Completes
    <2>3. LeaseInv'
        BY <1>1, <1>6, <2>2, NobodyAssumption
           DEF FinishComponent, TypeOK, SessionRows, jobVars,
               LeaseInv, LeaseOwnership, IdsIssued, ReservationLifecycle, PendingReserved
    <2> QED BY <1>1, <1>6, <2>1, <2>3 DEF IInv, FinishComponent, ControllersSound
<1> QED BY <1>2, <1>3, <1>4, <1>5, <1>6

(* Rows that resume, restart and recovery queue at another generation g. *)
Requeued(q, r) == q \in Rows /\ q.active = NoExec /\ q.status = "queued" /\ q.last = r.last
LEMMA RequeuedRow ==
    ASSUME NEW r \in Rows, NEW g \in Nat, NEW ev \in Events, NEW q, r.active = NoExec,
           q = [r EXCEPT !.status = "queued", !.gen = g, !.marker = TRUE, !.event = ev]
    PROVE  Requeued(q, r)
BY DEF Requeued, Rows, Statuses
LEMMA RestartedRow ==
    ASSUME NEW r \in Rows, NEW g \in Nat, NEW ev \in Events, NEW q,
           q = [r EXCEPT !.status = "queued", !.gen = g, !.active = NoExec,
                         !.marker = TRUE, !.event = ev]
    PROVE  Requeued(q, r)
BY DEF Requeued, Rows, Statuses
LEMMA RecoveredRow ==
    ASSUME NEW r \in Rows, NEW g \in Nat, NEW q,
           q = [r EXCEPT !.status = "queued", !.gen = g, !.active = NoExec, !.marker = FALSE]
    PROVE  Requeued(q, r)
BY DEF Requeued, Rows, Statuses

(* Preparing a resume: no row is active, so none is disturbed. *)
LEMMA ResumeStep ==
    ASSUME IInv, NEW s \in Sessions, NEW clear \in BOOLEAN, PrepareResume(s, clear)
    PROVE  IInv'
<1>1. TypeOK /\ ControllersSound /\ LeaseInv BY DEF IInv
<1>2. \A j \in Jobs : row[j] \in Rows /\ row[j].active = NoExec
    BY <1>1 DEF TypeOK, PrepareResume
<1>3. \A j \in Jobs : row[j].status # "running"
    BY <1>1, <1>2 DEF LeaseInv, LeaseOwnership
<1>4. ASSUME NEW j \in Jobs PROVE row'[j] \in Rows /\ Ended(j)
    <2>1. CASE j \in Unsuccessful
        <3> DEFINE g == row[j].gen + 1
        <3> DEFINE ev == [gen |-> g, exec |-> NoExec]
        <3>1. row'[j] = [row[j] EXCEPT !.status = "queued", !.gen = g, !.marker = TRUE,
                                       !.event = ev]
            BY <2>1 DEF PrepareResume
        <3>2. row[j] \in Rows /\ row[j].active = NoExec BY <1>2
        <3>3. g \in Nat BY <3>2 DEF Rows
        <3>4. ev \in Events BY <3>3 DEF Events
        <3> HIDE DEF g, ev
        <3>5. Requeued(row'[j], row[j]) BY <3>1, <3>2, <3>3, <3>4, RequeuedRow
        <3> QED BY <3>5 DEF Requeued, Ended
    <2>2. CASE j \notin Unsuccessful
        <3>1. row'[j] = [row[j] EXCEPT !.event = NoEvent] \/ row'[j] = row[j]
            BY <2>2 DEF PrepareResume
        <3>2. NoEvent \in Events BY DEF NoEvent, Events
        <3>3. row[j] \in Rows /\ row[j].active = NoExec /\ row[j].status # "running"
            BY <1>2, <1>3
        <3> QED BY <3>1, <3>2, <3>3 DEF Rows, Ended
    <2> QED BY <2>1, <2>2
<1>5. row' \in [Jobs -> Rows] BY <1>4 DEF PrepareResume
<1>6. out' \in [Jobs -> Outputs] BY <1>1 DEF PrepareResume, Withdrawn, TypeOK, Outputs
<1> QED BY <1>1, <1>4, <1>5, <1>6, EndStep
        DEF PrepareResume, TypeOK, Lifecycles, ControllersSound

(* A restart ends the leases of its targets. *)
LEMMA RestartStep ==
    ASSUME IInv, NEW T \in SUBSET Jobs, NEW owned \in BOOLEAN, ApplyRestart(T, owned)
    PROVE  IInv'
<1>1. TypeOK /\ ControllersSound /\ LeaseInv BY DEF IInv
<1>2. \A j \in Jobs : row[j] \in Rows BY <1>1 DEF TypeOK
<1>3. ASSUME NEW j \in Jobs PROVE row'[j] \in Rows /\ (row'[j] = row[j] \/ Ended(j))
    <2> DEFINE g == row[j].gen + 1
    <2> DEFINE ev == [gen |-> g, exec |-> IF owned THEN row[j].last ELSE NoExec]
    <2>1. row[j] \in Rows /\ g \in Nat /\ ev \in Events BY <1>2 DEF Events, Rows
    <2>2. CASE j \in T
        <3>1. row'[j] = [row[j] EXCEPT !.status = "queued", !.gen = g, !.active = NoExec,
                                       !.marker = TRUE, !.event = ev]
            BY <2>2 DEF ApplyRestart
        <3> HIDE DEF g, ev
        <3>2. Requeued(row'[j], row[j]) BY <2>1, <3>1, RestartedRow
        <3> QED BY <3>2 DEF Requeued, Ended
    <2>3. CASE j \notin T BY <1>2, <2>3 DEF ApplyRestart
    <2> QED BY <2>2, <2>3
<1>4. row' \in [Jobs -> Rows] BY <1>3 DEF ApplyRestart
<1>5. out' \in [Jobs -> Outputs] BY <1>1 DEF ApplyRestart, Withdrawn, TypeOK, Outputs
<1> QED BY <1>1, <1>3, <1>4, <1>5, EndStep
        DEF ApplyRestart, sessionVars, TypeOK, ControllersSound

(* Recovery ends every lease of the session it settles. *)
LEMMA RecoverStep ==
    ASSUME IInv, NEW s \in Sessions, RecoverSession(s)
    PROVE  IInv'
<1>1. TypeOK /\ ControllersSound /\ LeaseInv BY DEF IInv
<1>2. \A j \in Jobs : row[j] \in Rows /\ out[j] \in Outputs BY <1>1 DEF TypeOK
<1>3. ASSUME NEW j \in Jobs, j \in ActiveOf(s) PROVE row'[j] \in Rows /\ Ended(j)
    <2>1. row[j].active # NoExec BY <1>3 DEF ActiveOf
    <2>2. CASE Finished(j)
        <3>1. out[j].status \in Results
            BY <1>2, <2>1, <2>2 DEF Finished, Outputs, NoOutput
        <3>2. row'[j] = [TerminalRow(row[j], out[j].status) EXCEPT !.marker = FALSE]
            BY <1>3, <2>2 DEF RecoverSession
        <3> DEFINE t == TerminalRow(row[j], out[j].status)
        <3>3. t \in Rows /\ t.active = NoExec /\ t.status = out[j].status /\ t.last = row[j].last
            BY <1>2, <3>1, TerminalRowFacts DEF Results, Statuses
        <3> HIDE DEF t
        <3>4. row'[j] = [t EXCEPT !.marker = FALSE] BY <3>2 DEF t
        <3> QED BY <3>1, <3>3, <3>4 DEF Rows, Ended, Results
    <2>3. CASE ~Finished(j)
        <3> DEFINE g == row[j].gen + 1
        <3>1. row'[j] = [row[j] EXCEPT !.status = "queued", !.gen = g, !.active = NoExec,
                                       !.marker = FALSE]
            BY <1>3, <2>3 DEF RecoverSession
        <3>2. row[j] \in Rows /\ g \in Nat BY <1>2 DEF Rows
        <3> HIDE DEF g
        <3>3. Requeued(row'[j], row[j]) BY <3>1, <3>2, RecoveredRow
        <3> QED BY <3>3 DEF Requeued, Ended
    <2> QED BY <2>2, <2>3
<1>4. ASSUME NEW j \in Jobs, j \notin ActiveOf(s) PROVE row'[j] = row[j]
    BY <1>4 DEF RecoverSession
<1>5. row' \in [Jobs -> Rows] BY <1>2, <1>3, <1>4 DEF RecoverSession
<1>6. out' \in [Jobs -> Outputs] BY <1>1 DEF RecoverSession, Withdrawn, TypeOK, Outputs
<1>7. ASSUME resv = s, NEW j \in Jobs
      PROVE  row'[j].active = NoExec /\ row'[j].status # "running"
    <2>1. CASE j \in ActiveOf(s) BY <1>3, <2>1 DEF Ended
    <2>2. CASE j \notin ActiveOf(s)
        <3>1. row[j].active = NoExec
            <4>1. SUFFICES ASSUME row[j].active # NoExec PROVE FALSE OBVIOUS
            <4>2. row[j].last = row[j].active /\ owner[row[j].active].session = s
                <5>1. row[j].active = row[j].last
                    BY <1>1, <4>1 DEF LeaseInv, LeaseOwnership
                <5>2. owner[row[j].active] = [job |-> j, gen |-> row[j].gen, session |-> resv]
                    BY <1>1, <4>1 DEF LeaseInv, LeaseOwnership
                <5> QED BY <1>7, <5>1, <5>2
            <4> QED BY <2>2, <4>1, <4>2 DEF ActiveOf, OwnedBy, OwnerOf
        <3> QED BY <1>1, <1>4, <2>2, <3>1 DEF LeaseInv, LeaseOwnership
    <2> QED BY <2>1, <2>2
<1>8. LeaseInv' /\ sess' \in [Sessions -> SessionRows] /\ resv' \in Sessions \cup {Nobody}
    <2>1. \A j \in Jobs : row'[j] = row[j] \/ Ended(j) BY <1>3, <1>4
    <2>2. Settle(s, FALSE) /\ sess[s].status = "running" BY DEF RecoverSession, Abandoned
    <2>3. /\ sess[s].pending => comp' # "running"
          /\ ~sess[s].pending => comp' = comp
          /\ UNCHANGED <<owner, issued>>
        BY DEF RecoverSession
    <2> QED BY <1>1, <1>5, <1>7, <2>1, <2>2, <2>3, SettleLeases
<1>9. TypeOK'
    BY <1>1, <1>5, <1>6, <1>8 DEF TypeOK, RecoverSession, processVars, Lifecycles
<1> QED BY <1>1, <1>8, <1>9 DEF IInv, RecoverSession, ControllersSound

(* The exit decision settles only a session without active rows. *)
LEMMA ExitStep ==
    ASSUME IInv, NEW s \in Sessions, ExitSession(s)
    PROVE  IInv'
<1>1. TypeOK /\ ControllersSound /\ LeaseInv BY DEF IInv
<1>2. UNCHANGED <<row, owner, issued, out, fence, cancels, fresh>> BY DEF ExitSession, jobVars
<1>3. resv = s => \A j \in Jobs : row[j].active = NoExec /\ row[j].status # "running"
    BY <1>1 DEF ExitSession, ExitRaises, LeaseInv, LeaseOwnership
<1>4. sess[s].status = "running" /\ Settle(s, TRUE) BY DEF ExitSession, ExitReady
<1>5. /\ sess[s].pending => comp' # "running"
      /\ ~sess[s].pending => comp' = comp
    BY DEF ExitSession
<1>6. LeaseInv' /\ sess' \in [Sessions -> SessionRows] /\ resv' \in Sessions \cup {Nobody}
    <2>1. row' \in [Jobs -> Rows] BY <1>1, <1>2 DEF TypeOK
    <2> QED BY <1>1, <1>2, <1>3, <1>4, <1>5, <2>1, SettleLeases
<1>7. ctl' \in [Sessions -> [Jobs -> Controllers]] /\ ControllersSound'
    BY <1>1, ResetControllers DEF ExitSession, TypeOK
<1>8. TypeOK'
    BY <1>1, <1>2, <1>6, <1>7 DEF TypeOK, ExitSession, Lifecycles
<1> QED BY <1>6, <1>7, <1>8 DEF IInv

(* The driver's other steps only move its controllers. *)
LEMMA ReplacingControllers ==
    ASSUME TypeOK, ControllersSound, NEW s \in Sessions, NEW J, Replacing(s, J)
    PROVE  ctl' \in [Sessions -> [Jobs -> Controllers]] /\ ControllersSound'
<1> DEFINE c(j) == [ctl[s][j] EXCEPT
                      !.pc = IF OfferedAgain(s, j) THEN "retry" ELSE "replace",
                      !.gen = OwnerOf(j).gen, !.exec = row[j].last, !.expect = row[j].gen]
<1>1. ASSUME NEW j \in Jobs PROVE c(j) \in Controllers /\ Sound(c(j))
    <2> DEFINE pc == IF OfferedAgain(s, j) THEN "retry" ELSE "replace"
    <2>1. OwnerOf(j).gen \in Nat
        BY DEF OwnerOf, TypeOK, Owners, NoOwner, Rows
    <2>2. row[j].last \in {NoExec} \cup ExecIds /\ row[j].gen \in Nat BY DEF TypeOK, Rows
    <2>3. pc \in Places /\ pc \notin Working /\ pc \notin HasResult
        BY DEF Places, Working, HasResult
    <2>4. ctl[s][j] \in Controllers BY DEF TypeOK
    <2>5. c(j) = [ctl[s][j] EXCEPT !.pc = pc, !.gen = OwnerOf(j).gen, !.exec = row[j].last,
                                   !.expect = row[j].gen]
        OBVIOUS
    <2> HIDE DEF pc, c
    <2>6. c(j) \in Controllers BY <2>1, <2>2, <2>3, <2>4, <2>5 DEF Controllers
    <2>7. c(j).pc = pc BY <2>4, <2>5 DEF Controllers
    <2> QED BY <2>3, <2>6, <2>7 DEF Sound
<1> HIDE DEF c
<1>2. ctl' = [ctl EXCEPT ![s] = [j \in Jobs |-> IF j \in J THEN c(j) ELSE ctl[s][j]]]
    BY DEF Replacing, c
<1> QED BY <1>1, <1>2 DEF TypeOK, ControllersSound
LEMMA DriverStep ==
    ASSUME IInv, NEW s \in Sessions, Driver(s)
    PROVE  IInv'
<1>1. TypeOK /\ ControllersSound BY DEF IInv
<1>2. CASE PrepareReplacements(s) \/ ContinueSession(s)
    <2>1. PICK J : Replacing(s, J) BY <1>2 DEF PrepareReplacements, ContinueSession
    <2>2. ctl' \in [Sessions -> [Jobs -> Controllers]] /\ ControllersSound'
        BY <1>1, <2>1, ReplacingControllers
    <2>3. UNCHANGED <<jobVars, sessionVars, processVars, out, fence, cancels>>
        BY <1>2 DEF PrepareReplacements, ContinueSession
    <2> QED BY <1>1, <2>2, <2>3, ProcessStep DEF TypeOK, processVars
<1>3. CASE ExitFails(s)
    <2>1. ctl' \in [Sessions -> [Jobs -> Controllers]] /\ ControllersSound'
        BY <1>1, <1>3, ResetControllers DEF ExitFails, TypeOK
    <2> QED BY <1>1, <1>3, <2>1, ProcessStep DEF ExitFails, TypeOK
<1> QED BY <1>2, <1>3, SessionSteps, ResumeStep, ExitStep DEF Driver

(* What happens to a session from outside. *)
LEMMA EnvironmentStep ==
    ASSUME IInv, Environment
    PROVE  IInv'
<1>1. TypeOK /\ ControllersSound /\ LeaseInv BY DEF IInv
<1>2. ASSUME NEW s \in Sessions, Crash(s) PROVE IInv'
    <2>1. ctl' \in [Sessions -> [Jobs -> Controllers]] /\ ControllersSound'
        BY <1>1, <1>2, ResetControllers DEF Crash, TypeOK
    <2>2. alive' \in [Sessions -> BOOLEAN] /\ fence' \in [Jobs -> Sessions \cup {Nobody}]
        BY <1>1, <1>2 DEF Crash, TypeOK
    <2> QED BY <1>1, <1>2, <2>1, <2>2, ProcessStep DEF Crash, TypeOK
<1>3. ASSUME NEW s \in Sessions, GoStale(s) \/ Heartbeat(s) PROVE IInv'
    <2>1. fresh' \in [Sessions -> BOOLEAN] BY <1>1, <1>3 DEF GoStale, Heartbeat, TypeOK
    <2> QED BY <1>1, <1>3, <2>1, ProcessStep DEF GoStale, Heartbeat, TypeOK, ControllersSound
<1>4. ASSUME NEW s \in Sessions, NEW T \in SUBSET Jobs, OwnedRestart(s, T) PROVE IInv'
    BY <1>4, RestartStep DEF OwnedRestart
<1>5. ASSUME NEW j \in Jobs, IndependentRestart(j) PROVE IInv'
    BY <1>5, RestartStep DEF IndependentRestart
<1>6. ASSUME NEW j \in Jobs, Cancel(j) PROVE IInv'
    <2> DEFINE t == TerminalRow(row[j], "cancelled")
    <2>1. row' = [row EXCEPT ![j] = t] BY <1>6 DEF Cancel
    <2>2. row[j] \in Rows BY <1>1 DEF TypeOK
    <2>3. t \in Rows /\ t.active = NoExec /\ t.status # "running" /\ t.last = row[j].last
        BY <2>2, TerminalRowFacts DEF Statuses
    <2> HIDE DEF t
    <2>4. row' \in [Jobs -> Rows] /\ \A k \in Jobs : row'[k] = row[k] \/ Ended(k)
        BY <1>1, <2>1, <2>3 DEF TypeOK, Ended
    <2>5. cancels' \in 0 .. MaxCancels BY <1>1, <1>6, BoundsAssumption DEF Cancel, TypeOK
    <2> QED BY <1>1, <1>6, <2>4, <2>5, EndStep DEF Cancel, sessionVars, TypeOK, ControllersSound
<1> QED BY <1>2, <1>3, <1>4, <1>5, <1>6, SessionSteps, RecoverStep DEF Environment

(* One step of an attempt controller: it moves, claims, or ends its lease. *)
LEMMA MoveStep ==
    ASSUME IInv, NEW s \in Sessions, NEW j \in Jobs,
           \/ PullQueued(s, j) \/ RefuseClaim(s, j) \/ PauseReclaim(s, j)
           \/ StartTask(s, j) \/ (\E result \in Results : FinishTask(s, j, result))
           \/ DetectRestart(s, j) \/ RaisePermitError(s, j)
           \/ FinalizeFails(s, j)
           \/ RejectReplacement(s, j) \/ RefuseReplacement(s, j) \/ SkipReplacement(s, j)
    PROVE  IInv'
<1>1. TypeOK /\ ControllersSound BY DEF IInv
<1>2. UNCHANGED <<jobVars, sessionVars, processVars, out, fence, cancels>>
    BY DEF PullQueued, RefuseClaim, PauseReclaim, StartTask, FinishTask, DetectRestart,
           RaisePermitError, FinalizeFails, RejectReplacement, RefuseReplacement, SkipReplacement
<1>3. ctl[s][j] \in Controllers /\ Sound(ctl[s][j]) BY <1>1 DEF TypeOK, ControllersSound
<1>4. PICK c \in Controllers : Sound(c) /\ ctl' = [ctl EXCEPT ![s][j] = c]
    <2>1. ASSUME NEW pc \in Places \ {"claimed", "executing", "publishing", "guarded", "written"},
                 Goto(s, j, pc)
          PROVE  \E c \in Controllers : Sound(c) /\ ctl' = [ctl EXCEPT ![s][j] = c]
        <3> DEFINE c == [ctl[s][j] EXCEPT !.pc = pc]
        <3>1. c \in Controllers /\ Sound(c) BY <1>3 DEF Controllers, Sound, Working, HasResult
        <3>2. ctl' = [ctl EXCEPT ![s][j] = c] BY <2>1 DEF Goto
        <3> QED BY <3>1, <3>2
    <2>2. ASSUME NEW pc \in Places \ {"claimed", "executing", "publishing", "guarded", "written"},
                 ctl' = [ctl EXCEPT ![s][j] = [IdleController EXCEPT !.pc = pc]]
          PROVE  \E c \in Controllers : Sound(c) /\ ctl' = [ctl EXCEPT ![s][j] = c]
        <3> DEFINE c == [IdleController EXCEPT !.pc = pc]
        <3>1. c \in Controllers /\ Sound(c)
            BY DEF Controllers, Sound, Working, HasResult, IdleController, NoExec
        <3> QED BY <2>2, <3>1
    <2>3. ASSUME NEW result \in Results, FinishTask(s, j, result)
          PROVE  \E c \in Controllers : Sound(c) /\ ctl' = [ctl EXCEPT ![s][j] = c]
        <3> DEFINE c == [ctl[s][j] EXCEPT !.pc = "publishing", !.result = result]
        <3>1. c \in Controllers /\ Sound(c)
            BY <1>3, <2>3 DEF FinishTask, At, Controllers, Places, Sound, Working, HasResult
        <3>2. ctl' = [ctl EXCEPT ![s][j] = c] BY <2>3 DEF FinishTask
        <3> QED BY <3>1, <3>2
    <2>4. CASE StartTask(s, j)
        <3> DEFINE c == [ctl[s][j] EXCEPT !.pc = "executing"]
        <3>1. ctl' = [ctl EXCEPT ![s][j] = c] \/ Goto(s, j, "superseded")
            BY <2>4 DEF StartTask, Goto
        <3>2. c \in Controllers /\ Sound(c)
            BY <1>3, <2>4 DEF StartTask, At, Controllers, Places, Sound, Working, HasResult
        <3> HIDE DEF c
        <3> QED BY <2>1, <3>1, <3>2 DEF Places
    <2> QED BY <2>1, <2>2, <2>3, <2>4
            DEF PullQueued, RefuseClaim, PauseReclaim, DetectRestart, RaisePermitError,
                FinalizeFails, RejectReplacement, RefuseReplacement, SkipReplacement, Places
<1>5. ctl' \in [Sessions -> [Jobs -> Controllers]] /\ ControllersSound'
    BY <1>1, <1>4, SetController DEF TypeOK
<1> QED BY <1>1, <1>2, <1>5, ProcessStep DEF TypeOK, processVars

(* The guarded write of output.json. *)
LEMMA PublishStep ==
    ASSUME IInv, NEW s \in Sessions, NEW j \in Jobs,
           GuardEnter(s, j) \/ WriteOutput(s, j) \/ WriteFails(s, j)
    PROVE  IInv'
<1>1. TypeOK /\ ControllersSound BY DEF IInv
<1>2. ctl[s][j] \in Controllers /\ Sound(ctl[s][j]) BY <1>1 DEF TypeOK, ControllersSound
<1>3. fence' \in [Jobs -> Sessions \cup {Nobody}]
    BY <1>1 DEF GuardEnter, WriteOutput, WriteFails, TypeOK
<1>4. UNCHANGED <<jobVars, sessionVars, processVars, cancels>>
    BY DEF GuardEnter, WriteOutput, WriteFails
<1>5. CASE GuardEnter(s, j)
    <2>1. out' \in [Jobs -> Outputs] BY <1>1, <1>5 DEF GuardEnter, TypeOK
    <2>2. ctl[s][j].pc = "publishing" /\ (Goto(s, j, "guarded") \/ Goto(s, j, "superseded"))
        BY <1>5 DEF GuardEnter, At
    <2> QED BY <1>3, <1>4, <2>1, <2>2, ControllerStep DEF Places, Working, HasResult
<1>6. CASE WriteOutput(s, j)
    <2> DEFINE o == [status |-> ctl[s][j].result, gen |-> ctl[s][j].gen, exec |-> ctl[s][j].exec]
    <2>1. ctl[s][j].pc = "guarded" /\ Goto(s, j, "written") /\ out' = [out EXCEPT ![j] = o]
        BY <1>6 DEF WriteOutput, At
    <2>2. o \in Outputs
        BY <1>2, <2>1 DEF Sound, Working, HasResult, Controllers, Outputs
    <2> HIDE DEF o
    <2>3. out' \in [Jobs -> Outputs] BY <1>1, <2>1, <2>2 DEF TypeOK
    <2> QED BY <1>3, <1>4, <2>1, <2>3, ControllerStep DEF Places, Working, HasResult
<1>7. CASE WriteFails(s, j)
    <2>1. out' \in [Jobs -> Outputs] BY <1>1, <1>7 DEF WriteFails, TypeOK
    <2>2. Goto(s, j, "lost") BY <1>7 DEF WriteFails
    <2> QED BY <1>3, <1>4, <2>1, <2>2, ControllerStep DEF Places, Working, HasResult
<1> QED BY <1>5, <1>6, <1>7

(* An attempt's own end: its row becomes terminal, or queued when the      *)
(* claim is given back.                                                    *)
LEMMA FinishStep ==
    ASSUME IInv, NEW s \in Sessions, NEW j \in Jobs,
           \/ Finalize(s, j) \/ ReleaseUnstarted(s, j)
           \/ \E status \in Results : CleanupAbandoned(s, j, status)
    PROVE  IInv'
<1>1. TypeOK /\ ControllersSound BY DEF IInv
<1>2. ctl[s][j] \in Controllers /\ Sound(ctl[s][j]) /\ row[j] \in Rows
    BY <1>1 DEF TypeOK, ControllersSound
<1>3. UNCHANGED <<owner, issued, sessionVars, processVars, out, fence, cancels>>
    BY DEF Finalize, ReleaseUnstarted, CleanupAbandoned
<1>4. ASSUME NEW r \in Rows, row' = [row EXCEPT ![j] = r],
             r.active = NoExec, r.status # "running", r.last = row[j].last
      PROVE  row' \in [Jobs -> Rows] /\ \A k \in Jobs : row'[k] = row[k] \/ Ended(k)
    BY <1>1, <1>4 DEF TypeOK, Ended
<1>5. row' \in [Jobs -> Rows] /\ \A k \in Jobs : row'[k] = row[k] \/ Ended(k)
    <2>1. ASSUME NEW status \in Results, row' = [row EXCEPT ![j] = TerminalRow(@, status)]
          PROVE  row' \in [Jobs -> Rows] /\ \A k \in Jobs : row'[k] = row[k] \/ Ended(k)
        <3> DEFINE t == TerminalRow(row[j], status)
        <3>1. t \in Rows /\ t.active = NoExec /\ t.status # "running" /\ t.last = row[j].last
            BY <1>2, TerminalRowFacts DEF Results, Statuses
        <3>2. row' = [row EXCEPT ![j] = t] BY <2>1
        <3> HIDE DEF t
        <3> QED BY <1>4, <3>1, <3>2
    <2>2. CASE Finalize(s, j)
        <3>1. ctl[s][j].result \in Results
            BY <1>2, <2>2 DEF Finalize, At, Sound, HasResult
        <3>2. row' = row \/ row' = [row EXCEPT ![j] = TerminalRow(@, ctl[s][j].result)]
            BY <2>2 DEF Finalize
        <3> QED BY <1>1, <2>1, <3>1, <3>2 DEF TypeOK
    <2>3. CASE ReleaseUnstarted(s, j)
        <3> DEFINE r == [row[j] EXCEPT !.status = "queued", !.active = NoExec]
        <3>1. row' = row \/ row' = [row EXCEPT ![j] = r] BY <2>3 DEF ReleaseUnstarted
        <3>2. r \in Rows /\ r.active = NoExec /\ r.status # "running" /\ r.last = row[j].last
            BY <1>2 DEF Rows, Statuses
        <3> HIDE DEF r
        <3> QED BY <1>1, <1>4, <3>1, <3>2 DEF TypeOK
    <2>4. CASE \E status \in Results : CleanupAbandoned(s, j, status)
        BY <2>1, <2>4 DEF CleanupAbandoned
    <2> QED BY <2>2, <2>3, <2>4
<1>6. ctl' \in [Sessions -> [Jobs -> Controllers]] /\ ControllersSound'
    <2>1. ASSUME NEW pc \in {"done", "failed", "superseded", "lost"}, Goto(s, j, pc)
          PROVE  ctl' \in [Sessions -> [Jobs -> Controllers]] /\ ControllersSound'
        BY <1>1, <2>1, GotoController DEF TypeOK, Places, Working, HasResult
    <2>2. CASE Finalize(s, j)
        BY <1>2, <2>1, <2>2 DEF Finalize, At, Sound, HasResult, Results
    <2>3. CASE ReleaseUnstarted(s, j)
        <3> DEFINE c == [IdleController EXCEPT !.pc = "pulled"]
        <3>1. c \in Controllers /\ Sound(c)
            BY DEF IdleController, Controllers, Places, Sound, Working, HasResult, NoExec
        <3>2. ctl' = [ctl EXCEPT ![s][j] = c] \/ Goto(s, j, "failed")
            BY <2>3 DEF ReleaseUnstarted
        <3> HIDE DEF c
        <3> QED BY <1>1, <2>1, <3>1, <3>2, SetController DEF TypeOK
    <2>4. CASE \E status \in Results : CleanupAbandoned(s, j, status)
        <3> DEFINE c == [ctl[s][j] EXCEPT !.gen = row[j].gen, !.exec = row[j].active]
        <3>1. ctl' = [ctl EXCEPT ![s][j] = c]
            <4>1. PICK status \in Results : CleanupAbandoned(s, j, status) BY <2>4
            <4>2. ctl' = [ctl EXCEPT ![s][j].gen = row[j].gen, ![s][j].exec = row[j].active]
                BY <4>1 DEF CleanupAbandoned
            <4> QED BY <1>1, <4>2 DEF TypeOK
        <3>2. ctl[s][j].pc \in Joined BY <2>4 DEF CleanupAbandoned, AllJoined
        <3>3. c \in Controllers /\ Sound(c)
            BY <1>2, <3>2 DEF Controllers, Rows, Joined, Sound, Working, HasResult
        <3> HIDE DEF c
        <3> QED BY <1>1, <3>1, <3>3, SetController DEF TypeOK
    <2> QED BY <2>2, <2>3, <2>4
<1> QED BY <1>1, <1>3, <1>5, <1>6, EndStep DEF TypeOK, sessionVars
LEMMA AttemptStep ==
    ASSUME IInv, NEW s \in Sessions, NEW j \in Jobs, Attempt(s, j)
    PROVE  IInv'
<1>1. CASE Claim(s, j) \/ ClaimReplacement(s, j)
    BY <1>1, ClaimLease DEF Claim, ClaimReplacement, ClaimRefused
<1> QED BY <1>1, MoveStep, PublishStep, FinishStep DEF Attempt

(***************************************************************************)
(* The theorems.                                                           *)
(***************************************************************************)
LEMMA InitHolds == Init => IInv
<1> SUFFICES ASSUME Init PROVE IInv OBVIOUS
<1> DEFINE r == [status |-> "queued", gen |-> 0, active |-> NoExec, last |-> NoExec,
                 marker |-> FALSE, event |-> NoEvent]
<1>1. r \in Rows BY DEF Rows, Statuses, NoEvent, Events, NoExec
<1>2. \A j \in Jobs : row[j] = r BY DEF Init
<1>3. row \in [Jobs -> Rows] BY <1>1 DEF Init
<1>4. TypeOK
    <2>1. IdleController \in Controllers
        BY DEF Controllers, IdleController, Places, NoExec
    <2>2. ctl \in [Sessions -> [Jobs -> Controllers]] BY <2>1 DEF Init
    <2>3. owner \in [ExecIds -> Owners] /\ out \in [Jobs -> Outputs]
        BY DEF Init, Owners, Outputs
    <2>4. issued \in 0 .. MaxExecutions /\ cancels \in 0 .. MaxCancels
        BY BoundsAssumption DEF Init
    <2> QED BY <1>3, <2>2, <2>3, <2>4 DEF Init, TypeOK, SessionRows, Lifecycles
<1>5. ControllersSound
    BY DEF Init, ControllersSound, Sound, IdleController, Working, HasResult
<1>6. LeaseOwnership /\ IdsIssued
    BY <1>2 DEF Init, LeaseOwnership, IdsIssued, NoExec
<1>7. ReservationLifecycle /\ PendingReserved
    BY NobodyAssumption DEF Init, ReservationLifecycle, PendingReserved
<1> QED BY <1>4, <1>5, <1>6, <1>7 DEF IInv, LeaseInv

LEMMA NextPreserves == IInv /\ [Next]_vars => IInv'
<1> SUFFICES ASSUME IInv, [Next]_vars PROVE IInv' OBVIOUS
<1>1. CASE Next BY <1>1, AttemptStep, DriverStep, EnvironmentStep DEF Next
<1>2. CASE UNCHANGED vars
    <2>1. UNCHANGED <<jobVars, sessionVars, processVars, out, fence, ctl, cancels>>
        BY <1>2 DEF vars, sessionVars
    <2> QED BY <2>1, ProcessStep DEF IInv, TypeOK, processVars, ControllersSound
<1> QED BY <1>1, <1>2

THEOREM Invariance == Spec => []IInv
BY InitHolds, NextPreserves, PTL DEF Spec

(* Every variable keeps its type: in particular the controllers of any     *)
(* number of sessions only publish outputs with an execution and a result. *)
THEOREM TypeCorrect == Spec => []TypeOK
<1>1. IInv => TypeOK BY DEF IInv
<1> QED BY <1>1, Invariance, PTL

(* Lease ownership (execution_claims.py, execution_restart.py,             *)
(* execution_terminal.py, native_recovery.py), for any number of jobs,     *)
(* sessions, generations, executions and cancellations.                    *)
THEOREM LeaseSafety == Spec => []LeaseOwnership
<1>1. IInv => LeaseOwnership BY DEF IInv, LeaseInv
<1> QED BY <1>1, Invariance, PTL

(* The component is running exactly while its holder's execution is        *)
(* pending (component_states.py, session_settlement.py).                   *)
THEOREM ReservationSafety == Spec => []ReservationLifecycle
<1>1. IInv => ReservationLifecycle BY DEF IInv, LeaseInv
<1> QED BY <1>1, Invariance, PTL

-----------------------------------------------------------------------------
(***************************************************************************)
(* What the attempts publish: the execution fence protects the generation  *)
(* a controller writes for, a visible output agrees with its row, rows and *)
(* controllers only move forward, and a session exits only over restarts   *)
(* it was offered.                                                         *)
(***************************************************************************)

(***************************************************************************)
(* The inductive invariant.  A controller may act long after its lease was *)
(* taken away, so each of its places says how far the row may have moved   *)
(* on.  Fits is stated of a controller record: a step that changes one     *)
(* controller has to show it of the new record only.                       *)
(***************************************************************************)
(* The session's component is pending, or the session is over.  A          *)
(* controller that is neither idle nor done needs this: the component's    *)
(* success is published over idle and done controllers only.               *)
Started(s) == sess[s].pending \/ sess[s].status = "terminal"
AtRest == {"idle", "done"}

(* The places at which a controller still knows the execution it claimed.  *)
Holding == Working \cup {"superseded"}
Owns(s, j, c) ==
    c.pc \in Holding =>
        /\ c.exec \in 1 .. issued /\ c.gen <= row[j].gen
        /\ owner[c.exec] = [job |-> j, gen |-> c.gen, session |-> s]

(* While the session is pending nobody else claims its jobs: a lease is    *)
(* lost by a cancellation, or by a requeue at a later generation.          *)
Overtaken(j, c) ==
    row[j].status = "cancelled" \/ (row[j].status = "queued" /\ row[j].gen > c.gen)
Tracks(j, c) ==
    /\ c.pc \in Holding => row[j].last = c.exec
    /\ c.pc \in Working => IsCurrent(j, c.gen, c.exec) \/ Overtaken(j, c)
    /\ c.pc = "superseded" => Overtaken(j, c)
    /\ c.pc \in {"pulled", "replace", "retry"} => row[j].status \in {"queued", "cancelled"}

(* Under the fence the row stays at the generation of the execution, even  *)
(* when the session was recovered meanwhile: the component then stays      *)
(* failed, since a resume needs the fence.                                 *)
Guards(s, j, c) ==
    c.pc = "guarded" =>
        /\ fence[j] = s /\ row[j].gen = c.gen /\ row[j].last = c.exec
        /\ row[j].active = c.exec \/ row[j].status = "cancelled"
        /\ sess[s].pending \/ comp = "failed"

(* What was written is still there as long as the row has not moved on.    *)
Published(j, c) ==
    c.pc = "written" /\ row[j].gen = c.gen /\ row[j].last = c.exec =>
        out[j] = [status |-> c.result, gen |-> c.gen, exec |-> c.exec]

Fits(s, j, c) ==
    /\ c.pc \notin AtRest => Started(s)
    /\ Owns(s, j, c)
    /\ sess[s].pending => Tracks(j, c)
    /\ Guards(s, j, c)
    /\ Published(j, c)
    /\ c.expect <= row[j].gen
AllFit == \A s \in Sessions, j \in Jobs : Fits(s, j, ctl[s][j])
PInv == AllFit /\ OutputMatchesRow

(***************************************************************************)
(* Facts about states that satisfy both invariants.                        *)
(***************************************************************************)
(* Only the holder of the component is pending, and then it is running.    *)
LEMMA PendingHolds ==
    ASSUME IInv, NEW s \in Sessions, sess[s].pending
    PROVE  resv = s /\ comp = "running" /\ sess[s].status = "running"
BY NobodyAssumption DEF IInv, LeaseInv, PendingReserved, ReservationLifecycle, TypeOK

(* A controller of a running session at work has its session pending.      *)
LEMMA AtWorkPending ==
    ASSUME PInv, NEW s \in Sessions, NEW j \in Jobs, ctl[s][j].pc \notin AtRest,
           sess[s].status = "running"
    PROVE  sess[s].pending
BY DEF PInv, AllFit, Fits, Started

(* The active execution is held by at most one controller, of the holder.  *)
LEMMA ActiveHolder ==
    ASSUME IInv, PInv, NEW s \in Sessions, NEW j \in Jobs, ctl[s][j].pc \in Holding,
           row[j].active = ctl[s][j].exec
    PROVE  /\ resv = s /\ sess[s].pending /\ row[j].status = "running"
           /\ row[j].last = ctl[s][j].exec /\ row[j].gen = ctl[s][j].gen
           /\ ctl[s][j].exec # NoExec
<1>1. ctl[s][j].exec \in 1 .. issued /\
      owner[ctl[s][j].exec] = [job |-> j, gen |-> ctl[s][j].gen, session |-> s]
    BY DEF PInv, AllFit, Fits, Owns
<1>2. row[j].active # NoExec BY <1>1 DEF NoExec
<1>3. /\ row[j].status = "running" /\ row[j].active = row[j].last
      /\ owner[row[j].active] = [job |-> j, gen |-> row[j].gen, session |-> resv]
      /\ sess[resv].status = "running"
    BY <1>2 DEF IInv, LeaseInv, LeaseOwnership
<1>4. resv = s /\ row[j].gen = ctl[s][j].gen BY <1>1, <1>3
<1>5. ctl[s][j].pc \notin AtRest BY DEF Holding, Working, AtRest
<1> QED BY <1>2, <1>3, <1>4, <1>5, AtWorkPending

(* Two controllers that hold the same execution are the same.              *)
LEMMA OneHolder ==
    ASSUME PInv, NEW s \in Sessions, NEW x \in Sessions, NEW j \in Jobs, NEW k \in Jobs,
           ctl[s][j].pc \in Holding, ctl[x][k].pc \in Holding,
           ctl[s][j].exec = ctl[x][k].exec
    PROVE  s = x /\ j = k
<1>1. Owns(s, j, ctl[s][j]) /\ Owns(x, k, ctl[x][k]) BY DEF PInv, AllFit, Fits
<1> QED BY <1>1 DEF Owns

(* A guarded controller excludes every other pending session, and its row  *)
(* is running or cancelled.                                                *)
LEMMA GuardedRow ==
    ASSUME IInv, PInv, NEW s \in Sessions, NEW j \in Jobs, ctl[s][j].pc = "guarded"
    PROVE  /\ fence[j] = s /\ fence[j] # Nobody
           /\ row[j].gen = ctl[s][j].gen /\ row[j].last = ctl[s][j].exec
           /\ \/ row[j].status = "running" /\ row[j].active = ctl[s][j].exec
              \/ row[j].status = "cancelled"
           /\ sess[s].pending \/ comp = "failed"
<1>1. Guards(s, j, ctl[s][j]) BY DEF PInv, AllFit, Fits
<1>2. ctl[s][j].pc \in Holding BY DEF Holding, Working
<1> QED BY <1>1, <1>2, ActiveHolder, NobodyAssumption DEF Guards

(***************************************************************************)
(* Steps that change controllers only.                                     *)
(***************************************************************************)
LEMMA FrameStep ==
    ASSUME PInv, UNCHANGED <<row, owner, issued, sess, comp, out, fence>>,
           \A s \in Sessions, j \in Jobs : Fits(s, j, ctl'[s][j])
    PROVE  PInv'
<1>1. AllFit'
    <2> SUFFICES ASSUME NEW s \in Sessions, NEW j \in Jobs
                 PROVE  Fits(s, j, ctl[s][j])'
        BY DEF AllFit
    <2>1. Fits(s, j, ctl'[s][j]) OBVIOUS
    <2> QED BY <2>1
            DEF Fits, Owns, Tracks, Guards, Published, Overtaken, Started, IsCurrent
<1>3. OutputMatchesRow' BY DEF PInv, OutputMatchesRow
<1> QED BY <1>1, <1>3 DEF PInv

LEMMA OneController ==
    ASSUME IInv, PInv, NEW s \in Sessions, NEW j \in Jobs, NEW c,
           ctl' = [ctl EXCEPT ![s][j] = c], Fits(s, j, c),
           UNCHANGED <<row, owner, issued, sess, comp, out, fence>>
    PROVE  PInv'
<1>1. ASSUME NEW x \in Sessions, NEW k \in Jobs PROVE Fits(x, k, ctl'[x][k])
    <2>1. Fits(x, k, ctl[x][k]) BY DEF PInv, AllFit
    <2>2. ctl'[x][k] = IF x = s /\ k = j THEN c ELSE ctl[x][k]
        BY DEF IInv, TypeOK
    <2> QED BY <2>1, <2>2
<1> QED BY <1>1, FrameStep

(* A controller at a place that promises nothing about the row.            *)
Resting == {"failed", "rejected", "refused", "done", "lost"}
LEMMA RestingFits ==
    ASSUME IInv, PInv, NEW s \in Sessions, NEW j \in Jobs, ctl[s][j].pc \notin AtRest,
           NEW c, c.pc \in Resting, c.expect <= row[j].gen
    PROVE  Fits(s, j, c)
<1>1. Started(s) BY DEF PInv, AllFit, Fits
<1>2. c.pc \notin Holding /\ c.pc \notin Working /\ c.pc # "guarded" /\ c.pc # "written"
    BY DEF Resting, Holding, Working
<1> QED BY <1>1, <1>2 DEF Fits, Owns, Tracks, Guards, Published, Resting

LEMMA MovePublication ==
    ASSUME IInv, PInv, NEW s \in Sessions, NEW j \in Jobs,
           \/ PullQueued(s, j) \/ RefuseClaim(s, j) \/ PauseReclaim(s, j)
           \/ StartTask(s, j) \/ (\E result \in Results : FinishTask(s, j, result))
           \/ DetectRestart(s, j) \/ RaisePermitError(s, j) \/ FinalizeFails(s, j)
           \/ RejectReplacement(s, j) \/ RefuseReplacement(s, j) \/ SkipReplacement(s, j)
    PROVE  PInv'
<1> DEFINE old == ctl[s][j]
<1>1. Fits(s, j, old) BY DEF PInv, AllFit
<1>2. UNCHANGED <<row, owner, issued, sess, comp, out, fence>>
    BY DEF PullQueued, RefuseClaim, PauseReclaim, StartTask, FinishTask, DetectRestart,
           RaisePermitError, FinalizeFails, RejectReplacement, RefuseReplacement,
           SkipReplacement, jobVars, sessionVars
<1>3. old \in Controllers /\ row[j] \in Rows BY DEF IInv, TypeOK
<1>4. row[j].gen \in Nat /\ 0 <= row[j].gen BY <1>3 DEF Rows
<1>5. ASSUME NEW pc \in Resting, Goto(s, j, pc), old.pc \notin AtRest PROVE PInv'
    <2> DEFINE c == [old EXCEPT !.pc = pc]
    <2>1. ctl' = [ctl EXCEPT ![s][j] = c] BY <1>5 DEF Goto
    <2>2. c.pc = pc /\ c.expect = old.expect BY <1>3 DEF Controllers
    <2>3. c.expect <= row[j].gen BY <1>1, <2>2 DEF Fits
    <2> HIDE DEF c
    <2>4. Fits(s, j, c) BY <1>5, <2>2, <2>3, RestingFits
    <2> QED BY <1>2, <2>1, <2>4, OneController
<1>6. ASSUME NEW pc \in Resting, ctl' = [ctl EXCEPT ![s][j] = [IdleController EXCEPT !.pc = pc]],
             old.pc \notin AtRest
      PROVE  PInv'
    <2> DEFINE c == [IdleController EXCEPT !.pc = pc]
    <2>1. c.pc = pc /\ c.expect = 0 BY DEF IdleController
    <2> HIDE DEF c
    <2>2. Fits(s, j, c) BY <1>4, <1>6, <2>1, RestingFits
    <2> QED BY <1>2, <1>6, <2>2, OneController DEF c
<1>7. ASSUME NEW c, c.pc = "pulled", c.expect <= row[j].gen, Started(s),
             sess[s].pending => row[j].status \in {"queued", "cancelled"},
             ctl' = [ctl EXCEPT ![s][j] = c]
      PROVE  PInv'
    <2>1. Fits(s, j, c)
        BY <1>7 DEF Fits, Owns, Tracks, Guards, Published, Holding, Working
    <2> QED BY <1>2, <1>7, <2>1, OneController
<1>8. CASE PullQueued(s, j)
    <2> DEFINE c == [old EXCEPT !.pc = "pulled"]
    <2>1. ctl' = [ctl EXCEPT ![s][j] = c] BY <1>8 DEF PullQueued, Goto
    <2>2. c.pc = "pulled" /\ c.expect = old.expect BY <1>3 DEF Controllers
    <2>3. c.expect <= row[j].gen BY <1>1, <2>2 DEF Fits
    <2> HIDE DEF c
    <2> QED BY <1>7, <1>8, <2>1, <2>2, <2>3 DEF PullQueued, Started
<1>9. CASE PauseReclaim(s, j) \/ (SkipReplacement(s, j) /\ s \in NodeCalls)
    <2> DEFINE c == [IdleController EXCEPT !.pc = "pulled"]
    <2>1. ctl' = [ctl EXCEPT ![s][j] = c] BY <1>9 DEF PauseReclaim, SkipReplacement
    <2>2. c.pc = "pulled" /\ c.expect = 0 BY DEF IdleController
    <2> HIDE DEF c
    <2>3. old.pc \in {"superseded", "replace", "retry"}
        BY <1>9 DEF PauseReclaim, SkipReplacement, Offered, At
    <2>4. sess[s].pending => row[j].status \in {"queued", "cancelled"}
        BY <1>1, <2>3 DEF Fits, Tracks, Overtaken
    <2> QED BY <1>1, <1>4, <1>7, <2>1, <2>2, <2>3, <2>4 DEF Fits, AtRest
<1>10. CASE StartTask(s, j) \/ \E result \in Results : FinishTask(s, j, result)
    <2>1. PICK c : /\ ctl' = [ctl EXCEPT ![s][j] = c]
                   /\ c.pc \in {"executing", "publishing"}
                   /\ c.gen = old.gen /\ c.exec = old.exec /\ c.expect = old.expect
        <3>1. CASE StartTask(s, j)
            <4> DEFINE c == [old EXCEPT !.pc = "executing"]
            <4>1. c.pc = "executing" /\ c.gen = old.gen /\ c.exec = old.exec
                  /\ c.expect = old.expect
                BY <1>3 DEF Controllers
            <4>2. ctl' = [ctl EXCEPT ![s][j] = c] BY <3>1 DEF StartTask, Goto
            <4> QED BY <4>1, <4>2
        <3>2. ASSUME NEW result \in Results, FinishTask(s, j, result)
              PROVE  \E c : /\ ctl' = [ctl EXCEPT ![s][j] = c]
                            /\ c.pc \in {"executing", "publishing"}
                            /\ c.gen = old.gen /\ c.exec = old.exec /\ c.expect = old.expect
            <4> DEFINE c == [old EXCEPT !.pc = "publishing", !.result = result]
            <4>1. c.pc = "publishing" /\ c.gen = old.gen /\ c.exec = old.exec
                  /\ c.expect = old.expect
                BY <1>3 DEF Controllers
            <4>2. ctl' = [ctl EXCEPT ![s][j] = c] BY <3>2 DEF FinishTask
            <4> QED BY <4>1, <4>2
        <3> QED BY <1>10, <3>1, <3>2
    <2>2. old.pc \in {"claimed", "executing"} BY <1>10 DEF StartTask, FinishTask, At
    <2>3. Fits(s, j, c)
        BY <1>1, <2>1, <2>2
           DEF Fits, Owns, Tracks, Guards, Published, Overtaken, Holding, Working, AtRest
    <2> QED BY <1>2, <2>1, <2>3, OneController
<1>11. CASE DetectRestart(s, j)
    <2> DEFINE c == [old EXCEPT !.pc = "superseded"]
    <2>1. ctl' = [ctl EXCEPT ![s][j] = c] BY <1>11 DEF DetectRestart, Goto
    <2>2. c.pc = "superseded" /\ c.gen = old.gen /\ c.exec = old.exec /\ c.expect = old.expect
        BY <1>3 DEF Controllers
    <2> HIDE DEF c
    <2>3. old.pc = "executing" /\ ~IsCurrent(j, old.gen, old.exec)
        BY <1>11 DEF DetectRestart, At
    <2>4. Fits(s, j, c)
        BY <1>1, <2>2, <2>3
           DEF Fits, Owns, Tracks, Guards, Published, Overtaken, Holding, Working, AtRest
    <2> QED BY <1>2, <2>1, <2>4, OneController
<1>12. CASE RefuseClaim(s, j) \/ RaisePermitError(s, j)
    BY <1>6, <1>12 DEF RefuseClaim, RaisePermitError, Claiming, At, Resting, AtRest
<1>13. CASE \/ FinalizeFails(s, j) \/ RejectReplacement(s, j) \/ RefuseReplacement(s, j)
            \/ SkipReplacement(s, j) /\ s \notin NodeCalls
    BY <1>5, <1>13 DEF FinalizeFails, RejectReplacement, RefuseReplacement, SkipReplacement,
       Offered, At, Resting, AtRest
<1> QED BY <1>8, <1>9, <1>10, <1>11, <1>12, <1>13

(***************************************************************************)
(* The guarded write.                                                      *)
(***************************************************************************)
LEMMA GuardPublication ==
    ASSUME IInv, PInv, NEW s \in Sessions, NEW j \in Jobs,
           GuardEnter(s, j) \/ WriteOutput(s, j) \/ WriteFails(s, j)
    PROVE  PInv'
<1> DEFINE old == ctl[s][j]
<1>1. Fits(s, j, old) /\ old \in Controllers BY DEF PInv, AllFit, IInv, TypeOK
<1>2. UNCHANGED <<row, owner, issued, sess, comp>>
    BY DEF GuardEnter, WriteOutput, WriteFails, jobVars, sessionVars
<1>4. ASSUME NEW pc, Goto(s, j, pc)
      PROVE  /\ ctl'[s][j] = [old EXCEPT !.pc = pc]
             /\ ctl'[s][j].pc = pc /\ ctl'[s][j].gen = old.gen /\ ctl'[s][j].exec = old.exec
             /\ ctl'[s][j].result = old.result /\ ctl'[s][j].expect = old.expect
             /\ \A x \in Sessions, k \in Jobs : x # s \/ k # j => ctl'[x][k] = ctl[x][k]
    <2>1. ctl'[s][j] = [old EXCEPT !.pc = pc] BY <1>4 DEF Goto, IInv, TypeOK
    <2>2. \A x \in Sessions, k \in Jobs : x # s \/ k # j => ctl'[x][k] = ctl[x][k]
        BY <1>4 DEF Goto, IInv, TypeOK
    <2> QED BY <1>1, <2>1, <2>2 DEF Controllers
<1>5. CASE GuardEnter(s, j) /\ ~IsCurrent(j, old.gen, old.exec)
    <2> DEFINE c == [old EXCEPT !.pc = "superseded"]
    <2>1. ctl' = [ctl EXCEPT ![s][j] = c] BY <1>5 DEF GuardEnter, Goto
    <2>2. c.pc = "superseded" /\ c.gen = old.gen /\ c.exec = old.exec /\ c.expect = old.expect
        BY <1>1 DEF Controllers
    <2> HIDE DEF c
    <2>3. old.pc = "publishing" /\ UNCHANGED <<out, fence>> BY <1>5 DEF GuardEnter, At
    <2>4. Fits(s, j, c)
        BY <1>1, <1>5, <2>2, <2>3
           DEF Fits, Owns, Tracks, Guards, Published, Overtaken, Holding, Working, AtRest
    <2> QED BY <1>2, <2>1, <2>3, <2>4, OneController
<1>6. CASE GuardEnter(s, j) /\ IsCurrent(j, old.gen, old.exec)
    <2>1. /\ old.pc = "publishing" /\ fence[j] = Nobody /\ Goto(s, j, "guarded")
          /\ fence' = [fence EXCEPT ![j] = s] /\ out' = out
        BY <1>6 DEF GuardEnter, At
    <2>2. /\ row[j].last = old.exec /\ row[j].gen = old.gen /\ row[j].active = old.exec
          /\ sess[s].pending
        BY <1>6, <2>1, ActiveHolder DEF IsCurrent, Holding, Working
    <2>3. fence'[j] = s /\ \A k \in Jobs : k # j => fence'[k] = fence[k]
        BY <2>1 DEF IInv, TypeOK
    <2>4. ASSUME NEW x \in Sessions, NEW k \in Jobs PROVE Fits(x, k, ctl[x][k])'
        <3>1. Fits(x, k, ctl[x][k]) BY DEF PInv, AllFit
        <3>2. CASE x = s /\ k = j
            <4>1. /\ ctl'[s][j].pc = "guarded" /\ ctl'[s][j].gen = old.gen
                  /\ ctl'[s][j].exec = old.exec /\ ctl'[s][j].expect = old.expect
                BY <1>4, <2>1
            <4> QED BY <1>1, <1>2, <2>1, <2>2, <2>3, <3>2, <4>1
                    DEF Fits, Owns, Tracks, Guards, Published, Started, IsCurrent,
                        Holding, Working
        <3>3. CASE x # s \/ k # j
            <4>1. ctl'[x][k] = ctl[x][k] BY <1>4, <2>1, <3>3
            <4>2. ctl[x][k].pc = "guarded" => k # j BY <2>1, GuardedRow
            <4> QED BY <1>2, <2>1, <2>3, <3>1, <4>1, <4>2
                    DEF Fits, Owns, Tracks, Guards, Published, Overtaken, Started, IsCurrent
        <3> QED BY <3>2, <3>3
    <2> QED BY <1>2, <2>1, <2>4 DEF PInv, AllFit, OutputMatchesRow
<1>7. CASE WriteOutput(s, j) \/ WriteFails(s, j)
    <2> DEFINE o == [status |-> old.result, gen |-> old.gen, exec |-> old.exec]
    <2>1. /\ old.pc = "guarded" /\ fence' = [fence EXCEPT ![j] = Nobody]
          /\ \/ Goto(s, j, "written") /\ out' = [out EXCEPT ![j] = o]
             \/ Goto(s, j, "lost") /\ out' = out
        BY <1>7 DEF WriteOutput, WriteFails, At
    <2>2. old.pc \in Holding BY <2>1 DEF Holding, Working
    <2>3. /\ fence[j] = s /\ row[j].gen = old.gen /\ row[j].last = old.exec
          /\ row[j].status # "done"
        BY <2>1, GuardedRow
    <2>4. ASSUME NEW k \in Jobs, k # j PROVE fence'[k] = fence[k] /\ out'[k] = out[k]
        BY <2>1, <2>4 DEF IInv, TypeOK
    <2>5. \/ /\ out'[j] = o /\ ctl'[s][j].pc = "written"
          \/ out'[j] = out[j] /\ ctl'[s][j].pc = "lost"
        BY <1>4, <2>1 DEF IInv, TypeOK
    <2>6. /\ ctl'[s][j].gen = old.gen /\ ctl'[s][j].exec = old.exec
          /\ ctl'[s][j].result = old.result /\ ctl'[s][j].expect = old.expect
          /\ \A x \in Sessions, k \in Jobs : x # s \/ k # j => ctl'[x][k] = ctl[x][k]
        BY <1>4, <2>1
    <2>7. ASSUME NEW x \in Sessions, NEW k \in Jobs PROVE Fits(x, k, ctl[x][k])'
        <3>1. Fits(x, k, ctl[x][k]) BY DEF PInv, AllFit
        <3>2. CASE x = s /\ k = j
            BY <1>1, <1>2, <2>1, <2>3, <2>5, <2>6, <3>2
               DEF Fits, Owns, Tracks, Guards, Published, Overtaken, Started, IsCurrent,
                   Holding, Working, AtRest
        <3>3. CASE x # s /\ k = j
            <4>1. ctl'[x][k] = ctl[x][k] BY <2>6, <3>3
            <4>2. ctl[x][k].pc # "guarded" BY <2>3, <3>3, GuardedRow
            <4>3. ctl[x][k].pc = "written" => ctl[x][k].exec # old.exec
                BY <2>2, <3>3, OneHolder DEF Holding, Working
            <4> QED BY <1>2, <2>3, <2>5, <3>1, <3>3, <4>1, <4>2, <4>3
                    DEF Fits, Owns, Tracks, Guards, Published, Overtaken, Started, IsCurrent
        <3>4. CASE k # j
            <4>1. ctl'[x][k] = ctl[x][k] /\ fence'[k] = fence[k] /\ out'[k] = out[k]
                BY <2>4, <2>6, <3>4
            <4> QED BY <1>2, <3>1, <4>1
                    DEF Fits, Owns, Tracks, Guards, Published, Overtaken, Started, IsCurrent
        <3> QED BY <3>2, <3>3, <3>4
    <2>8. OutputMatchesRow'
        <3> SUFFICES ASSUME NEW k \in Jobs
                     PROVE  /\ out'[k] # NoOutput => out'[k].gen = row'[k].gen
                            /\ row'[k].status = "done" => out'[k].status = "done"
            BY DEF OutputMatchesRow
        <3>1. /\ out[k] # NoOutput => out[k].gen = row[k].gen
              /\ row[k].status = "done" => out[k].status = "done"
            BY DEF PInv, OutputMatchesRow
        <3> QED BY <1>2, <2>3, <2>4, <2>5, <3>1
    <2> QED BY <2>7, <2>8 DEF PInv, AllFit
<1> QED BY <1>5, <1>6, <1>7

(***************************************************************************)
(* The claim.                                                              *)
(***************************************************************************)
LEMMA ClaimPublication ==
    ASSUME IInv, PInv, NEW s \in Sessions, NEW j \in Jobs, ~LeaseRefused(s, j),
           ctl[s][j].pc \notin AtRest, ApplyClaim(s, j)
    PROVE  PInv'
<1> DEFINE e == issued + 1
<1>1. resv = s /\ sess[s].status = "running" /\ row[j].active = NoExec BY DEF LeaseRefused
<1>2. sess[s].pending /\ comp = "running" BY <1>1, AtWorkPending, PendingHolds
<1>3. e \in ExecIds /\ e \in Nat /\ issued \in Nat /\ issued' = e /\ issued < e
    BY BoundsAssumption DEF ApplyClaim, IInv, TypeOK, ExecIds
<1>4. /\ owner'[e] = [job |-> j, gen |-> row[j].gen, session |-> s]
      /\ \A i \in ExecIds : i # e => owner'[i] = owner[i]
    BY <1>3 DEF ApplyClaim, IInv, TypeOK
<1>5. /\ row'[j].status = "running" /\ row'[j].active = e /\ row'[j].last = e
      /\ row'[j].gen = row[j].gen
      /\ \A k \in Jobs : k # j => row'[k] = row[k]
    <2>1. row[j] \in Rows BY DEF IInv, TypeOK
    <2> QED BY <2>1 DEF ApplyClaim, IInv, TypeOK, Rows
<1>6. /\ ctl'[s][j] = [pc |-> "claimed", gen |-> row[j].gen, exec |-> e,
                       result |-> "none", expect |-> 0]
      /\ \A x \in Sessions, k \in Jobs : x # s \/ k # j => ctl'[x][k] = ctl[x][k]
    BY DEF ApplyClaim, IInv, TypeOK
<1>7. UNCHANGED <<sess, comp, out, fence>> BY DEF ApplyClaim, sessionVars
<1>8. row[j].gen \in Nat /\ 1 \in Nat BY DEF IInv, TypeOK, Rows
<1> HIDE DEF e
<1>9. ASSUME NEW x \in Sessions, NEW k \in Jobs PROVE Fits(x, k, ctl[x][k])'
    <2>1. Fits(x, k, ctl[x][k]) BY DEF PInv, AllFit
    <2>2. CASE x = s /\ k = j
        <3>1. e \in 1 .. e BY <1>3 DEF e
        <3> QED BY <1>2, <1>3, <1>4, <1>5, <1>6, <1>7, <1>8, <2>2, <3>1
                DEF Fits, Owns, Tracks, Guards, Published, Started, IsCurrent
    <2>3. CASE x # s \/ k # j
        <3>1. ctl'[x][k] = ctl[x][k] BY <1>6, <2>3
        <3>2. ctl[x][k].pc \in Holding =>
                 /\ ctl[x][k].exec \in 1 .. issued' /\ ctl[x][k].exec # e
                 /\ owner'[ctl[x][k].exec] = owner[ctl[x][k].exec]
            <4>1. \A i \in 1 .. issued : i \in ExecIds /\ i # e /\ i \in 1 .. e
                BY <1>3, BoundsAssumption DEF IInv, TypeOK, ExecIds
            <4> QED BY <1>3, <1>4, <2>1, <4>1 DEF Fits, Owns
        <3>3. CASE k # j
            BY <1>5, <1>7, <2>1, <3>1, <3>2, <3>3
               DEF Fits, Owns, Tracks, Guards, Published, Overtaken, Started, IsCurrent
        <3>4. CASE k = j /\ x # s
            <4>1. ~sess[x].pending BY <1>1, <3>4, PendingHolds
            <4>2. ctl[x][k].pc # "guarded" BY <1>2, <4>1, GuardedRow
            <4>3. ctl[x][k].pc = "written" => ctl[x][k].pc \in Holding
                BY DEF Holding, Working
            <4> QED BY <1>5, <1>7, <2>1, <3>1, <3>2, <3>4, <4>1, <4>2, <4>3
                    DEF Fits, Owns, Tracks, Guards, Published, Started
        <3> QED BY <2>3, <3>3, <3>4
    <2> QED BY <2>2, <2>3
<1>11. OutputMatchesRow'
    BY <1>5, <1>7 DEF PInv, OutputMatchesRow
<1> QED BY <1>9, <1>11 DEF PInv, AllFit

(***************************************************************************)
(* The holder's own end of an active lease.                                *)
(***************************************************************************)
LEMMA EndOwnLease ==
    ASSUME IInv, PInv, NEW s \in Sessions, NEW j \in Jobs, NEW c, resv = s,
           row[j].status = "running", ctl[s][j].pc # "guarded",
           row'[j].gen = row[j].gen, row'[j].last = row[j].last,
           row'[j].status = "done" => out[j].status = "done",
           \A k \in Jobs : k # j => row'[k] = row[k],
           ctl' = [ctl EXCEPT ![s][j] = c],
           c.pc \notin Holding, c.pc \notin AtRest => Started(s), c.expect <= row[j].gen,
           c.pc \in {"pulled", "replace", "retry"} => row'[j].status \in {"queued", "cancelled"},
           UNCHANGED <<owner, issued, sess, comp, out, fence>>
    PROVE  PInv'
<1>1. ASSUME NEW x \in Sessions, NEW k \in Jobs PROVE Fits(x, k, ctl[x][k])'
    <2>1. Fits(x, k, ctl[x][k]) BY DEF PInv, AllFit
    <2>2. ctl'[x][k] = IF x = s /\ k = j THEN c ELSE ctl[x][k] BY DEF IInv, TypeOK
    <2>3. CASE k # j
        BY <2>1, <2>2, <2>3
           DEF Fits, Owns, Tracks, Guards, Published, Overtaken, Started, IsCurrent
    <2>4. CASE k = j /\ x = s
        <3>1. ctl'[x][k] = c BY <2>2, <2>4
        <3>2. c.pc # "guarded" /\ c.pc # "written" /\ c.pc \notin Working /\ c.pc # "superseded"
            BY DEF Holding, Working
        <3> QED BY <2>4, <3>1, <3>2 DEF Fits, Owns, Tracks, Guards, Published, Started
    <2>5. CASE k = j /\ x # s
        <3>1. ~sess[x].pending BY <2>5, PendingHolds
        <3>2. ctl[x][k].pc # "guarded"
            BY <2>5, GuardedRow, ActiveHolder DEF Holding, Working
        <3> QED BY <2>1, <2>2, <2>5, <3>1, <3>2 DEF Fits, Owns, Guards, Published, Started
    <2> QED BY <2>3, <2>4, <2>5
<1>3. OutputMatchesRow'
    <2> SUFFICES ASSUME NEW k \in Jobs
                 PROVE  /\ out'[k] # NoOutput => out'[k].gen = row'[k].gen
                        /\ row'[k].status = "done" => out'[k].status = "done"
        BY DEF OutputMatchesRow
    <2> QED BY DEF PInv, OutputMatchesRow
<1> QED BY <1>1, <1>3 DEF PInv, AllFit

(* A row made terminal keeps its generation. *)
LEMMA TerminalRowGen ==
    ASSUME NEW r \in Rows, NEW status
    PROVE  TerminalRow(r, status).gen = r.gen /\ TerminalRow(r, status).last = r.last
           /\ TerminalRow(r, status).status = status
BY DEF TerminalRow, Rows

LEMMA FinishPublication ==
    ASSUME IInv, PInv, NEW s \in Sessions, NEW j \in Jobs,
           \/ Finalize(s, j) \/ ReleaseUnstarted(s, j)
           \/ \E status \in Results : CleanupAbandoned(s, j, status)
    PROVE  PInv'
<1> DEFINE old == ctl[s][j]
<1>1. Fits(s, j, old) /\ old \in Controllers /\ row[j] \in Rows
    BY DEF PInv, AllFit, IInv, TypeOK
<1>2. UNCHANGED <<owner, issued, sess, comp, out, fence>>
    BY DEF Finalize, ReleaseUnstarted, CleanupAbandoned, sessionVars
<1>3. row[j].gen \in Nat BY <1>1 DEF Rows
<1>4. ASSUME NEW r, row' = [row EXCEPT ![j] = r]
      PROVE  row'[j] = r /\ \A k \in Jobs : k # j => row'[k] = row[k]
    BY <1>4 DEF IInv, TypeOK
<1>5. CASE Finalize(s, j)
    <2>1. old.pc = "written" BY <1>5 DEF Finalize, At
    <2>2. old.pc \in Holding /\ old.result \in Results
        BY <2>1 DEF Holding, Working, HasResult, IInv, ControllersSound, Sound
    <2>3. ASSUME NEW pc, Goto(s, j, pc), NEW c, c = [old EXCEPT !.pc = pc]
          PROVE  /\ ctl' = [ctl EXCEPT ![s][j] = c]
                 /\ c.pc = pc /\ c.gen = old.gen /\ c.exec = old.exec
                 /\ c.expect = old.expect /\ c.result = old.result
        BY <1>1, <2>3 DEF Goto, Controllers
    <2>4. CASE ~TerminalAccepted(j, old.gen, old.exec, old.result)
        <3>1. row' = row /\ Goto(s, j, "superseded") BY <1>5, <2>4 DEF Finalize
        <3>0. PICK c : c = [old EXCEPT !.pc = "superseded"] OBVIOUS
        <3>2. /\ ctl' = [ctl EXCEPT ![s][j] = c]
              /\ c.pc = "superseded" /\ c.gen = old.gen /\ c.exec = old.exec
              /\ c.expect = old.expect
            BY <2>3, <3>1, <3>0
        <3>3. ~IsCurrent(j, old.gen, old.exec) BY <2>4 DEF TerminalAccepted, IsCurrent
        <3>4. Fits(s, j, c)
            BY <1>1, <2>1, <3>2, <3>3
               DEF Fits, Owns, Tracks, Guards, Published, Overtaken, Holding, Working, AtRest
        <3> QED BY <1>2, <3>1, <3>2, <3>4, OneController
    <2>5. CASE TerminalAccepted(j, old.gen, old.exec, old.result) /\ row[j].active = old.exec
        <3>0. PICK pc \in {old.result, "lost"} : Goto(s, j, pc) BY <1>5, <2>5 DEF Finalize
        <3> DEFINE c == [old EXCEPT !.pc = pc]
        <3> DEFINE t == TerminalRow(row[j], old.result)
        <3>1. row' = [row EXCEPT ![j] = t] /\ Goto(s, j, pc)
            BY <1>5, <2>5, <3>0 DEF Finalize
        <3>2. ctl' = [ctl EXCEPT ![s][j] = c] /\ c.pc = pc /\ c.expect = old.expect
            <4>1. c.pc = pc /\ c.expect = old.expect BY <1>1 DEF Controllers
            <4>2. ctl' = [ctl EXCEPT ![s][j] = c] BY <3>1 DEF Goto
            <4> QED BY <4>1, <4>2
        <3>3. t.gen = row[j].gen /\ t.last = row[j].last /\ t.status = old.result
            BY <1>1, TerminalRowGen
        <3> HIDE DEF c, t
        <3>4. /\ resv = s /\ sess[s].pending /\ row[j].status = "running"
              /\ row[j].last = old.exec /\ row[j].gen = old.gen
            BY <2>2, <2>5, ActiveHolder
        <3>5. out[j].status = old.result
            BY <1>1, <2>1, <3>4 DEF Fits, Published
        <3>6. c.pc \notin Holding /\ c.pc \notin {"pulled", "replace", "retry"}
            BY <2>2, <3>0, <3>2 DEF Results, Holding, Working
        <3>7. c.expect <= row[j].gen /\ Started(s) BY <1>1, <3>2, <3>4 DEF Fits, Started
        <3>8. row'[j] = t /\ \A k \in Jobs : k # j => row'[k] = row[k] BY <1>4, <3>1
        <3>9. /\ row'[j].gen = row[j].gen /\ row'[j].last = row[j].last
              /\ row'[j].status = "done" => out[j].status = "done"
            BY <3>3, <3>5, <3>8
        <3> QED BY <1>2, <2>1, <3>2, <3>4, <3>6, <3>7, <3>8, <3>9, EndOwnLease
    <2>6. CASE TerminalAccepted(j, old.gen, old.exec, old.result)
               /\ AlreadyTerminal(j, old.result)
        <3>0. PICK pc \in {old.result, "lost"} : Goto(s, j, pc) BY <1>5, <2>6 DEF Finalize
        <3> DEFINE c == [old EXCEPT !.pc = pc]
        <3>1. row' = [row EXCEPT ![j] = TerminalRow(row[j], old.result)]
              /\ Goto(s, j, pc)
            BY <1>5, <2>6, <3>0 DEF Finalize
        <3>2. TerminalRow(row[j], old.result) = row[j]
            BY <1>1, <2>6 DEF TerminalRow, AlreadyTerminal, Rows
        <3>3. row' = row BY <3>1, <3>2 DEF IInv, TypeOK
        <3>4. ctl' = [ctl EXCEPT ![s][j] = c] /\ c.pc = pc /\ c.expect = old.expect
            <4>1. c.pc = pc /\ c.expect = old.expect BY <1>1 DEF Controllers
            <4>2. ctl' = [ctl EXCEPT ![s][j] = c] BY <3>1 DEF Goto
            <4> QED BY <4>1, <4>2
        <3> HIDE DEF c
        <3>5. c.pc \in Resting /\ c.expect <= row[j].gen
            BY <1>1, <2>2, <3>0, <3>4 DEF Fits, Results, Resting
        <3>6. Fits(s, j, c) BY <2>1, <3>5, RestingFits DEF AtRest
        <3> QED BY <1>2, <3>3, <3>4, <3>6, OneController
    <2> QED BY <2>4, <2>5, <2>6 DEF TerminalAccepted
<1>6. CASE ReleaseUnstarted(s, j)
    <2>1. old.pc = "claimed" /\ old.pc \in Holding
        BY <1>6 DEF ReleaseUnstarted, At, Holding, Working
    <2> DEFINE idle == [IdleController EXCEPT !.pc = "pulled"]
    <2>2. idle.pc = "pulled" /\ idle.expect = 0 BY DEF IdleController
    <2> HIDE DEF idle
    <2>3. CASE IsCurrent(j, old.gen, old.exec)
        <3> DEFINE r == [row[j] EXCEPT !.status = "queued", !.active = NoExec]
        <3>1. row' = [row EXCEPT ![j] = r] /\ ctl' = [ctl EXCEPT ![s][j] = idle]
            BY <1>6, <2>3 DEF ReleaseUnstarted, idle
        <3>2. r.gen = row[j].gen /\ r.last = row[j].last /\ r.status = "queued"
            BY <1>1 DEF Rows
        <3> HIDE DEF r
        <3>3. row'[j] = r /\ \A k \in Jobs : k # j => row'[k] = row[k] BY <1>4, <3>1
        <3>4. resv = s /\ sess[s].pending /\ row[j].status = "running"
            BY <2>1, <2>3, ActiveHolder DEF IsCurrent
        <3>5. idle.pc \notin Holding /\ idle.expect <= row[j].gen
            BY <1>3, <2>2 DEF Holding, Working
        <3>6. /\ row'[j].gen = row[j].gen /\ row'[j].last = row[j].last
              /\ row'[j].status = "queued"
            BY <3>2, <3>3
        <3> QED BY <1>2, <2>1, <3>1, <3>3, <3>4, <3>5, <3>6, EndOwnLease DEF Started
    <2>4. CASE ~IsCurrent(j, old.gen, old.exec) /\ s \in NodeCalls
        <3>1. row' = row /\ ctl' = [ctl EXCEPT ![s][j] = idle]
            BY <1>6, <2>4 DEF ReleaseUnstarted, idle
        <3>2. Fits(s, j, idle)
            BY <1>1, <1>3, <2>1, <2>2, <2>4
               DEF Fits, Owns, Tracks, Guards, Published, Overtaken, Holding, Working, AtRest
        <3> QED BY <1>2, <3>1, <3>2, OneController
    <2>5. CASE ~IsCurrent(j, old.gen, old.exec) /\ s \notin NodeCalls
        <3> DEFINE c == [old EXCEPT !.pc = "failed"]
        <3>1. row' = row /\ ctl' = [ctl EXCEPT ![s][j] = c]
            BY <1>6, <2>5 DEF ReleaseUnstarted, Goto
        <3>2. c.pc = "failed" /\ c.expect = old.expect BY <1>1 DEF Controllers
        <3> HIDE DEF c
        <3>3. c.pc \in Resting /\ c.expect <= row[j].gen
            BY <1>1, <3>2 DEF Fits, Resting
        <3>4. Fits(s, j, c) BY <2>1, <3>3, RestingFits DEF AtRest
        <3> QED BY <1>2, <3>1, <3>4, OneController
    <2> QED BY <2>3, <2>4, <2>5
<1>7. CASE \E status \in Results : CleanupAbandoned(s, j, status)
    <2>1. PICK status \in Results : CleanupAbandoned(s, j, status) BY <1>7
    <2> DEFINE c == [old EXCEPT !.gen = row[j].gen, !.exec = row[j].active]
    <2> DEFINE t == TerminalRow(row[j], status)
    <2>2. row' = [row EXCEPT ![j] = t] BY <2>1 DEF CleanupAbandoned
    <2>3. ctl' = [ctl EXCEPT ![s][j] = c]
        <3>1. ctl' = [ctl EXCEPT ![s][j].gen = row[j].gen, ![s][j].exec = row[j].active]
            BY <2>1 DEF CleanupAbandoned
        <3> QED BY <3>1 DEF IInv, TypeOK
    <2>4. c.pc = old.pc /\ c.expect = old.expect BY <1>1 DEF Controllers
    <2>5. t.gen = row[j].gen /\ t.last = row[j].last /\ t.status = status
        BY <1>1, TerminalRowGen
    <2> HIDE DEF c, t
    <2>6. resv = s /\ sess[s].status = "running" /\ row[j].status = "running" /\ old.pc \in Joined
        BY <2>1 DEF CleanupAbandoned, AllJoined
    <2>7. status = "done" => out[j].status = "done" BY <2>1 DEF CleanupAbandoned
    <2>8. row'[j] = t /\ \A k \in Jobs : k # j => row'[k] = row[k] BY <1>4, <2>2
    <2>9. old.pc \notin {"pulled", "replace", "retry"}
        <3>1. old.pc # "pulled"
            BY <1>1, <2>6, AtWorkPending DEF Fits, Tracks, AtRest
        <3> QED BY <2>6, <3>1 DEF Joined
    <2>10. c.pc \notin Holding /\ old.pc # "guarded" BY <2>4, <2>6 DEF Joined, Holding, Working
    <2>11. (c.pc \notin AtRest => Started(s)) /\ c.expect <= row[j].gen BY <1>1, <2>4 DEF Fits
    <2>12. /\ row'[j].gen = row[j].gen /\ row'[j].last = row[j].last
           /\ row'[j].status = "done" => out[j].status = "done"
        BY <2>5, <2>7, <2>8
    <2>13. c.pc \notin {"pulled", "replace", "retry"} BY <2>4, <2>9
    <2> QED BY <1>2, <2>3, <2>6, <2>8, <2>10, <2>11, <2>12, <2>13, EndOwnLease
<1> QED BY <1>5, <1>6, <1>7

(***************************************************************************)
(* Operations of other processes on the rows.                              *)
(***************************************************************************)
(* What they do to a job: nothing that matters here, a requeue at the next *)
(* generation under the fence that takes the output along, or (recovery)   *)
(* the status of the output of its active execution.                       *)
Kept(k) ==
    /\ row'[k].status = row[k].status /\ row'[k].gen = row[k].gen
    /\ row'[k].active = row[k].active /\ row'[k].last = row[k].last
    /\ out'[k] = out[k]
Requeues(k) ==
    /\ row'[k].status = "queued" /\ row'[k].gen = row[k].gen + 1
    /\ row'[k].last = row[k].last
    /\ fence[k] = Nobody /\ out'[k] = NoOutput
Recovers(k) ==
    /\ row'[k].gen = row[k].gen /\ row'[k].last = row[k].last
    /\ row'[k].status = out[k].status /\ fence[k] = Nobody /\ out'[k] = out[k]

LEMMA RequeueRows ==
    ASSUME IInv, PInv, \A k \in Jobs : Kept(k) \/ Requeues(k),
           UNCHANGED <<owner, issued, sess, fence, ctl>>,
           \/ comp' = comp
           \/ \A s \in Sessions, k \in Jobs : ctl[s][k].pc # "guarded"
    PROVE  PInv'
<1>1. ASSUME NEW x \in Sessions, NEW k \in Jobs PROVE Fits(x, k, ctl[x][k])'
    <2>1. Fits(x, k, ctl[x][k]) BY DEF PInv, AllFit
    <2>2. row[k].gen \in Nat /\ ctl[x][k].gen \in Nat /\ ctl[x][k].expect \in Nat
        BY DEF IInv, TypeOK, Rows, Controllers
    <2>3. CASE Kept(k)
        BY <2>1, <2>3
           DEF Kept, Fits, Owns, Tracks, Guards, Published, Overtaken, Started, IsCurrent
    <2>4. CASE Requeues(k)
        <3>1. ctl[x][k].pc # "guarded" BY <2>4, GuardedRow DEF Requeues
        <3>2. ctl[x][k].pc \in Holding => ctl[x][k].gen <= row[k].gen BY <2>1 DEF Fits, Owns
        <3>3. ctl[x][k].pc \in Holding => row'[k].gen > ctl[x][k].gen
            BY <2>2, <2>4, <3>2 DEF Requeues
        <3>4. ctl[x][k].expect <= row'[k].gen BY <2>1, <2>2, <2>4 DEF Fits, Requeues
        <3>5. Owns(x, k, ctl[x][k])' BY <2>1, <2>2, <3>3, <2>4 DEF Fits, Owns, Requeues
        <3>6. sess[x].pending => Tracks(k, ctl[x][k])'
            BY <2>1, <2>4, <3>3 DEF Fits, Tracks, Overtaken, Requeues, Holding, Working
        <3>7. Published(k, ctl[x][k])'
            <4>1. ctl[x][k].pc = "written" => row'[k].gen # ctl[x][k].gen
                BY <2>2, <2>4, <3>3 DEF Requeues, Holding, Working
            <4> QED BY <4>1 DEF Published
        <3> QED BY <2>1, <3>1, <3>4, <3>5, <3>6, <3>7 DEF Fits, Guards, Started
    <2> QED BY <2>3, <2>4
<1>3. OutputMatchesRow'
    <2> SUFFICES ASSUME NEW k \in Jobs
                 PROVE  /\ out'[k] # NoOutput => out'[k].gen = row'[k].gen
                        /\ row'[k].status = "done" => out'[k].status = "done"
        BY DEF OutputMatchesRow
    <2> QED BY DEF PInv, OutputMatchesRow, Kept, Requeues
<1> QED BY <1>1, <1>3 DEF PInv, AllFit

LEMMA RestartPublication ==
    ASSUME IInv, PInv, NEW T \in SUBSET Jobs, NEW owned \in BOOLEAN, ApplyRestart(T, owned)
    PROVE  PInv'
<1>1. ASSUME NEW k \in Jobs PROVE Kept(k) \/ Requeues(k)
    <2>1. row[k] \in Rows BY DEF IInv, TypeOK
    <2>2. CASE k \in T
        <3> DEFINE ev == [gen |-> row[k].gen + 1, exec |-> IF owned THEN row[k].last ELSE NoExec]
        <3>1. row'[k] = [row[k] EXCEPT !.status = "queued", !.gen = @ + 1, !.active = NoExec,
                                       !.marker = TRUE, !.event = ev]
            BY <2>2 DEF ApplyRestart
        <3> HIDE DEF ev
        <3>2. out'[k] = NoOutput /\ fence[k] = Nobody
            BY <2>2 DEF ApplyRestart, Withdrawn, FencesFree
        <3> QED BY <2>1, <3>1, <3>2 DEF Requeues, Rows
    <2>3. CASE k \notin T BY <2>3 DEF ApplyRestart, Withdrawn, Kept
    <2> QED BY <2>2, <2>3
<1> QED BY <1>1, RequeueRows DEF ApplyRestart, sessionVars

LEMMA ResumePublication ==
    ASSUME IInv, PInv, NEW s \in Sessions, NEW clear \in BOOLEAN, PrepareResume(s, clear)
    PROVE  PInv'
<1>1. ASSUME NEW k \in Jobs PROVE Kept(k) \/ Requeues(k)
    <2>1. row[k] \in Rows BY DEF IInv, TypeOK
    <2>2. CASE k \in Unsuccessful
        <3> DEFINE ev == [gen |-> row[k].gen + 1, exec |-> NoExec]
        <3>1. row'[k] = [row[k] EXCEPT !.status = "queued", !.gen = @ + 1,
                                       !.marker = TRUE, !.event = ev]
            BY <2>2 DEF PrepareResume
        <3> HIDE DEF ev
        <3>2. out'[k] = NoOutput /\ fence[k] = Nobody
            BY <2>2 DEF PrepareResume, Withdrawn, FencesFree
        <3> QED BY <2>1, <3>1, <3>2 DEF Requeues, Rows
    <2>3. CASE k \notin Unsuccessful
        <3>1. row'[k] = [row[k] EXCEPT !.event = NoEvent] \/ row'[k] = row[k]
            BY <2>3 DEF PrepareResume
        <3>2. out'[k] = out[k] BY <2>3 DEF PrepareResume, Withdrawn
        <3> QED BY <2>1, <3>1, <3>2 DEF Kept, Rows
    <2> QED BY <2>2, <2>3
<1>2. ASSUME NEW x \in Sessions, NEW k \in Jobs, ctl[x][k].pc = "guarded" PROVE FALSE
    <2>1. row[k].active = NoExec BY DEF PrepareResume
    <2>2. row[k].status # "running"
        BY <2>1 DEF IInv, LeaseInv, LeaseOwnership
    <2>3. row[k].status = "cancelled" /\ fence[k] # Nobody BY <1>2, <2>2, GuardedRow
    <2> QED BY <2>3 DEF PrepareResume, FencesFree, Unsuccessful
<1> QED BY <1>1, <1>2, RequeueRows DEF PrepareResume

LEMMA CancelPublication ==
    ASSUME IInv, PInv, NEW j \in Jobs, Cancel(j)
    PROVE  PInv'
<1> DEFINE t == TerminalRow(row[j], "cancelled")
<1>1. row[j] \in Rows BY DEF IInv, TypeOK
<1>2. t.gen = row[j].gen /\ t.last = row[j].last /\ t.status = "cancelled"
    BY <1>1, TerminalRowGen
<1>3. row' = [row EXCEPT ![j] = t] BY DEF Cancel
<1> HIDE DEF t
<1>4. row'[j] = t /\ \A k \in Jobs : k # j => row'[k] = row[k] BY <1>3 DEF IInv, TypeOK
<1>5. UNCHANGED <<owner, issued, sess, comp, out, fence, ctl>> BY DEF Cancel, sessionVars
<1>6. ASSUME NEW x \in Sessions, NEW k \in Jobs PROVE Fits(x, k, ctl[x][k])'
    <2>1. Fits(x, k, ctl[x][k]) BY DEF PInv, AllFit
    <2> QED BY <1>2, <1>4, <1>5, <2>1
            DEF Fits, Owns, Tracks, Guards, Published, Overtaken, Started, IsCurrent
<1>8. OutputMatchesRow'
    <2> SUFFICES ASSUME NEW k \in Jobs
                 PROVE  /\ out'[k] # NoOutput => out'[k].gen = row'[k].gen
                        /\ row'[k].status = "done" => out'[k].status = "done"
        BY DEF OutputMatchesRow
    <2> QED BY <1>2, <1>4, <1>5 DEF PInv, OutputMatchesRow
<1> QED BY <1>6, <1>8 DEF PInv, AllFit

(* A session that is settled leaves its controllers without promises about *)
(* their rows, except under the fence.                                     *)
LEMMA RecoverPublication ==
    ASSUME IInv, PInv, NEW s \in Sessions, RecoverSession(s)
    PROVE  PInv'
<1>1. sess[s].status = "running" /\ FencesFree(ActiveOf(s)) /\ Settle(s, FALSE)
    BY DEF RecoverSession, Abandoned
<1>2. UNCHANGED <<owner, issued, fence, ctl>> BY DEF RecoverSession
<1>3. /\ sess'[s].status = "terminal" /\ sess'[s].pending = FALSE
      /\ \A x \in Sessions : x # s => sess'[x] = sess[x]
    BY <1>1 DEF Settle, IInv, TypeOK
<1>4. comp' = IF sess[s].pending THEN "failed" ELSE comp BY DEF RecoverSession
<1>5. ASSUME NEW k \in Jobs PROVE Kept(k) \/ Requeues(k) \/ Recovers(k)
    <2>1. row[k] \in Rows BY DEF IInv, TypeOK
    <2>2. CASE k \notin ActiveOf(s)
        BY <2>2 DEF RecoverSession, Withdrawn, Kept
    <2>3. CASE k \in ActiveOf(s) /\ Finished(k)
        <3> DEFINE t == TerminalRow(row[k], out[k].status)
        <3>1. row'[k] = [t EXCEPT !.marker = FALSE] /\ out'[k] = out[k]
            BY <2>3 DEF RecoverSession, Withdrawn
        <3>2. t.gen = row[k].gen /\ t.last = row[k].last /\ t.status = out[k].status
            BY <2>1, TerminalRowGen
        <3>3. row'[k].gen = t.gen /\ row'[k].last = t.last /\ row'[k].status = t.status
            BY <2>1, <3>1 DEF TerminalRow, Rows
        <3> QED BY <1>1, <2>3, <3>1, <3>2, <3>3 DEF Recovers, FencesFree
    <2>4. CASE k \in ActiveOf(s) /\ ~Finished(k)
        <3>1. row'[k] = [row[k] EXCEPT !.status = "queued", !.gen = @ + 1, !.active = NoExec,
                                       !.marker = FALSE]
            BY <2>4 DEF RecoverSession
        <3>2. out'[k] = NoOutput /\ fence[k] = Nobody
            BY <1>1, <2>4 DEF RecoverSession, Withdrawn, FencesFree
        <3> QED BY <2>1, <3>1, <3>2 DEF Requeues, Rows
    <2> QED BY <2>2, <2>3, <2>4
<1>6. ASSUME NEW x \in Sessions, x # s, sess[x].pending, NEW k \in Jobs
      PROVE  row'[k] = row[k] /\ out'[k] = out[k]
    <2>1. resv = x BY <1>6, PendingHolds
    <2>2. k \notin ActiveOf(s)
        <3>1. SUFFICES ASSUME row[k].active # NoExec PROVE OwnerOf(k).session # s
            BY DEF ActiveOf, OwnedBy
        <3>2. /\ row[k].active = row[k].last
              /\ owner[row[k].active] = [job |-> k, gen |-> row[k].gen, session |-> resv]
            BY <3>1 DEF IInv, LeaseInv, LeaseOwnership
        <3>3. OwnerOf(k) = owner[row[k].active] BY <3>1, <3>2 DEF OwnerOf
        <3> QED BY <1>6, <2>1, <3>2, <3>3
    <2> QED BY <2>2 DEF RecoverSession, Withdrawn
<1>7. ASSUME NEW x \in Sessions, NEW k \in Jobs PROVE Fits(x, k, ctl[x][k])'
    <2> DEFINE c == ctl[x][k]
    <2>1. Fits(x, k, c) /\ ctl'[x][k] = c BY <1>2 DEF PInv, AllFit
    <2>2. row[k].gen \in Nat /\ c.gen \in Nat /\ c.expect \in Nat
        BY DEF IInv, TypeOK, Rows, Controllers
    <2>3. row'[k].gen = row[k].gen \/ row'[k].gen = row[k].gen + 1
        BY <1>5 DEF Kept, Requeues, Recovers
    <2>4. Owns(x, k, c)' BY <1>2, <2>1, <2>2, <2>3 DEF Fits, Owns
    <2>5. c.pc \notin AtRest => Started(x)' BY <1>3, <2>1 DEF Fits, Started
    <2>6. c.expect <= row'[k].gen BY <2>1, <2>2, <2>3 DEF Fits
    <2>7. Published(k, c)'
        <3>1. SUFFICES ASSUME c.pc = "written", row'[k].gen = c.gen, row'[k].last = c.exec
                       PROVE  out'[k] = [status |-> c.result, gen |-> c.gen, exec |-> c.exec]
            BY <1>2 DEF Published
        <3>2. c.gen <= row[k].gen BY <2>1, <3>1 DEF Fits, Owns, Holding, Working
        <3>3. ~Requeues(k) BY <2>2, <3>1, <3>2 DEF Requeues
        <3>4. row'[k].gen = row[k].gen /\ row'[k].last = row[k].last /\ out'[k] = out[k]
            BY <1>5, <3>3 DEF Kept, Recovers
        <3> QED BY <2>1, <3>1, <3>4 DEF Fits, Published
    <2>8. sess'[x].pending => Tracks(k, c)'
        BY <1>2, <1>3, <1>6, <2>1 DEF Fits, Tracks, Overtaken, IsCurrent
    <2>9. Guards(x, k, c)'
        <3>1. SUFFICES ASSUME c.pc = "guarded" PROVE Guards(x, k, c)' BY <1>2 DEF Guards
        <3>2. fence[k] # Nobody /\ (sess[x].pending \/ comp = "failed")
            BY <3>1, GuardedRow
        <3>3. Kept(k) BY <1>5, <3>2 DEF Requeues, Recovers
        <3>4. sess'[x].pending \/ comp' = "failed"
            BY <1>3, <1>4, <3>2
        <3> QED BY <1>2, <2>1, <3>1, <3>3, <3>4 DEF Fits, Guards, Kept
    <2> QED BY <2>1, <2>4, <2>5, <2>6, <2>7, <2>8, <2>9 DEF Fits
<1>9. OutputMatchesRow'
    <2> SUFFICES ASSUME NEW k \in Jobs
                 PROVE  /\ out'[k] # NoOutput => out'[k].gen = row'[k].gen
                        /\ row'[k].status = "done" => out'[k].status = "done"
        BY DEF OutputMatchesRow
    <2> QED BY <1>5 DEF PInv, OutputMatchesRow, Kept, Requeues, Recovers
<1> QED BY <1>7, <1>9 DEF PInv, AllFit

(***************************************************************************)
(* Sessions and processes.                                                 *)
(***************************************************************************)
(* The rows, the files and the fences stay; every controller keeps its     *)
(* record or becomes idle, and no session forgets that it was started.     *)
LEMMA SessionFrame ==
    ASSUME IInv, PInv, UNCHANGED <<row, owner, issued, out>>,
           \A x \in Sessions, k \in Jobs :
               ctl'[x][k] = IdleController \/
               /\ ctl'[x][k] = ctl[x][k]
               /\ sess'[x].pending => sess[x].pending \/ ctl[x][k].pc \in AtRest
               /\ ctl[x][k].pc = "guarded" =>
                     fence'[k] = fence[k] /\ (sess'[x].pending \/ comp' = "failed"),
           \A x \in Sessions : Started(x) =>
               \/ sess'[x].pending \/ sess'[x].status = "terminal"
               \/ \A k \in Jobs : ctl[x][k].pc \in AtRest
    PROVE  PInv'
<1>1. ASSUME NEW x \in Sessions, NEW k \in Jobs PROVE Fits(x, k, ctl[x][k])'
    <2>1. Fits(x, k, ctl[x][k]) BY DEF PInv, AllFit
    <2>2. row[k].gen \in Nat /\ row'[k] = row[k] BY DEF IInv, TypeOK, Rows
    <2>3. CASE ctl'[x][k] = IdleController
        BY <2>2, <2>3 DEF IdleController, Fits, Owns, Tracks, Guards, Published, Holding, Working,
           AtRest
    <2>4. CASE ctl'[x][k] = ctl[x][k] /\ ctl[x][k].pc \in AtRest
        BY <2>1, <2>2, <2>4 DEF AtRest, Fits, Owns, Tracks, Guards, Published, Holding, Working
    <2>5. CASE ctl'[x][k] = ctl[x][k] /\ ctl[x][k].pc \notin AtRest /\ ctl'[x][k] # IdleController
        BY <2>1, <2>2, <2>5
           DEF Fits, Owns, Tracks, Guards, Published, Overtaken, Started, IsCurrent
    <2> QED BY <2>3, <2>4, <2>5
<1>3. OutputMatchesRow' BY DEF PInv, OutputMatchesRow
<1> QED BY <1>1, <1>3 DEF PInv, AllFit

(* Success is published only when every controller of the session is idle  *)
(* or done: an attempt that ended otherwise would have stopped the burst,  *)
(* and nothing that waits for its claim fits a component of done jobs.     *)
LEMMA FinishAtRest ==
    ASSUME IInv, NEW s \in Sessions, FinishComponent(s)
    PROVE  /\ \A k \in Jobs : ctl[s][k].pc \in AtRest
           /\ \A k \in Jobs : row[k].status = "done"
<1>1. AllJoined(s) /\ ~BurstStopped(s) /\ \A k \in Jobs : row[k].status = "done"
    BY DEF FinishComponent, Completes, ExitReady, Succeeded
<1>2. \A k \in Jobs : ctl[s][k].pc \in AtRest \/ ctl[s][k].pc = "pulled"
    BY <1>1 DEF AllJoined, Joined, BurstStopped, AtRest
<1>3. UnfinishedJobs(s) = {} BY <1>1 DEF UnfinishedJobs, AcceptedRestart, IsSuccessor
<1>4. \A k \in Jobs : ctl[s][k].pc # "pulled"
    BY <1>1, <1>3 DEF FinishComponent, Completes, ExitReady
<1> QED BY <1>1, <1>2, <1>4

LEMMA SessionPublication ==
    ASSUME IInv, PInv, NEW s \in Sessions,
           \/ CreateSession(s) \/ ReserveComponents(s) \/ ReservationConflict(s)
           \/ BeginComponent(s) \/ FinishComponent(s) \/ ExitSession(s) \/ ExitFails(s)
           \/ Crash(s) \/ GoStale(s) \/ Heartbeat(s)
    PROVE  PInv'
<1>1. UNCHANGED <<row, owner, issued, out>>
    BY DEF CreateSession, ReserveComponents, ReservationConflict, BeginComponent,
           FinishComponent, ExitSession, ExitFails, Crash, GoStale, Heartbeat, jobVars
<1>2. CASE CreateSession(s)
    <2>1. /\ \A x \in Sessions : sess'[x].pending = sess[x].pending
          /\ \A x \in Sessions : sess[x].status = "terminal" => sess'[x].status = "terminal"
        BY <1>2 DEF CreateSession, IInv, TypeOK, SessionRows
    <2>2. UNCHANGED <<comp, fence, ctl>> BY <1>2 DEF CreateSession
    <2> QED BY <1>1, <2>1, <2>2, GuardedRow, SessionFrame DEF Started
<1>3. CASE ReserveComponents(s) \/ GoStale(s) \/ Heartbeat(s)
    <2>1. UNCHANGED <<sess, comp, fence, ctl>>
        BY <1>3 DEF ReserveComponents, GoStale, Heartbeat, sessionVars
    <2> QED BY <1>1, <2>1, GuardedRow, SessionFrame DEF Started
<1>4. CASE ReservationConflict(s)
    <2>1. ~sess[s].pending BY <1>4, PendingHolds DEF ReservationConflict
    <2>2. /\ \A x \in Sessions : sess'[x].pending = sess[x].pending
          /\ \A x \in Sessions : sess[x].status = "terminal" => sess'[x].status = "terminal"
        BY <1>4 DEF ReservationConflict, IInv, TypeOK, SessionRows
    <2>3. UNCHANGED <<comp, fence, ctl>> BY <1>4 DEF ReservationConflict
    <2> QED BY <1>1, <2>2, <2>3, GuardedRow, SessionFrame DEF Started
<1>5. CASE BeginComponent(s)
    <2>1. /\ sess'[s].pending /\ \A x \in Sessions : x # s => sess'[x] = sess[x]
          /\ sess'[s].status = sess[s].status
        BY <1>5 DEF BeginComponent, IInv, TypeOK, SessionRows
    <2>2. sess[s].status = "running" /\ comp = "queued" /\ UNCHANGED <<fence, ctl>>
        BY <1>5 DEF BeginComponent
    <2>3. \A x \in Sessions : ~sess[x].pending BY <2>2, PendingHolds
    <2>4. \A k \in Jobs : ctl[s][k].pc \in AtRest BY <2>2, <2>3, AtWorkPending
    <2>5. \A x \in Sessions, k \in Jobs : ctl[x][k].pc # "guarded" BY <2>2, <2>3, GuardedRow
    <2> QED BY <1>1, <2>1, <2>2, <2>4, <2>5, SessionFrame DEF Started
<1>6. CASE ExitSession(s)
    <2>1. Settle(s, TRUE) /\ sess[s].status = "running" /\ fence' = fence
        BY <1>6 DEF ExitSession, ExitReady
    <2>2. /\ sess'[s].status = "terminal" /\ sess'[s].pending = FALSE
          /\ \A x \in Sessions : x # s => sess'[x] = sess[x]
        BY <2>1 DEF Settle, IInv, TypeOK
    <2>3. /\ \A k \in Jobs : ctl'[s][k] = IdleController
          /\ \A x \in Sessions : x # s => ctl'[x] = ctl[x]
        BY <1>6 DEF ExitSession, IInv, TypeOK
    <2>4. ~sess[s].pending => comp' = comp BY <1>6 DEF ExitSession
    <2>5. ASSUME NEW x \in Sessions, NEW k \in Jobs, x # s, ctl[x][k].pc = "guarded"
          PROVE  sess'[x].pending \/ comp' = "failed"
        <3>1. sess[x].pending \/ comp = "failed" BY <2>5, GuardedRow
        <3>2. sess[s].pending => resv = s /\ comp = "running" BY PendingHolds
        <3>3. sess[x].pending => resv = x BY PendingHolds
        <3> QED BY <2>2, <2>4, <2>5, <3>1, <3>2, <3>3
    <2> QED BY <1>1, <2>1, <2>2, <2>3, <2>5, SessionFrame DEF Started
<1>7. CASE ExitFails(s) \/ Crash(s)
    <2>1. UNCHANGED <<sess, comp>> BY <1>7 DEF ExitFails, Crash, sessionVars
    <2>2. /\ \A k \in Jobs : ctl'[s][k] = IdleController
          /\ \A x \in Sessions : x # s => ctl'[x] = ctl[x]
        BY <1>7 DEF ExitFails, Crash, IInv, TypeOK
    <2>3. \A k \in Jobs : fence[k] # s => fence'[k] = fence[k]
        BY <1>7 DEF ExitFails, Crash
    <2> QED BY <1>1, <2>1, <2>2, <2>3, GuardedRow, SessionFrame DEF Started
<1>8. CASE FinishComponent(s)
    <2>1. sess[s].pending /\ UNCHANGED <<fence, ctl>>
        BY <1>8 DEF FinishComponent, Completes
    <2>2. /\ \A x \in Sessions : x # s => sess'[x] = sess[x]
          /\ ~sess'[s].pending
        BY <1>8 DEF FinishComponent, IInv, TypeOK, SessionRows
    <2>3. \A k \in Jobs : ctl[s][k].pc \in AtRest BY <1>8, FinishAtRest
    <2>4. ASSUME NEW x \in Sessions, NEW k \in Jobs, ctl[x][k].pc = "guarded" PROVE FALSE
        <3>1. sess[x].pending BY <2>1, <2>4, PendingHolds, GuardedRow
        <3>2. x = s BY <2>1, <3>1, PendingHolds
        <3> QED BY <2>3, <2>4, <3>2 DEF AtRest
    <2> QED BY <1>1, <2>1, <2>2, <2>3, <2>4, SessionFrame DEF Started
<1> QED BY <1>2, <1>3, <1>4, <1>5, <1>6, <1>7, <1>8

(* The jobs that are offered again are queued. *)
LEMMA ReplacingPublication ==
    ASSUME IInv, PInv, NEW s \in Sessions, PrepareReplacements(s) \/ ContinueSession(s)
    PROVE  PInv'
<1>1. PICK T : /\ Replacing(s, T)
               /\ T = Replaceable(s) \/ T = Continuing(s)
    BY DEF PrepareReplacements, ContinueSession
<1>2. UNCHANGED <<row, owner, issued, sess, comp, out, fence>>
    BY DEF PrepareReplacements, ContinueSession, jobVars, sessionVars
<1>3. ASSUME NEW k \in Jobs, k \in T
      PROVE  row[k].status = "queued" /\ (ctl[s][k].pc \notin AtRest \/ sess[s].pending)
    BY <1>1, <1>3 DEF Replaceable, Continuing, Candidates, Successor, AcceptedRestart, IsSuccessor,
       AtRest
<1>4. ASSUME NEW x \in Sessions, NEW k \in Jobs PROVE Fits(x, k, ctl'[x][k])
    <2>1. Fits(x, k, ctl[x][k]) /\ ctl[x][k] \in Controllers /\ row[k].gen \in Nat
        BY DEF PInv, AllFit, IInv, TypeOK, Rows
    <2>2. CASE x = s /\ k \in T
        <3> DEFINE pc == IF OfferedAgain(s, k) THEN "retry" ELSE "replace"
        <3>1. ctl'[s][k] = [ctl[s][k] EXCEPT !.pc = pc, !.gen = OwnerOf(k).gen,
                                             !.exec = row[k].last, !.expect = row[k].gen]
            BY <1>1, <2>2 DEF Replacing, IInv, TypeOK
        <3>2. pc \in {"replace", "retry"} OBVIOUS
        <3> HIDE DEF pc
        <3>3. ctl'[s][k].pc = pc /\ ctl'[s][k].expect = row[k].gen
            BY <2>1, <2>2, <3>1 DEF Controllers
        <3>4. Started(s) BY <1>3, <2>1, <2>2 DEF Fits, Started
        <3>5. row[k].status = "queued" BY <1>3, <2>2
        <3> QED BY <2>1, <2>2, <3>2, <3>3, <3>4, <3>5
                DEF Fits, Owns, Tracks, Guards, Published, Holding, Working
    <2>3. CASE ~(x = s /\ k \in T)
        <3>1. ctl'[x][k] = ctl[x][k]
            BY <1>1, <2>3 DEF Replacing, IInv, TypeOK
        <3> QED BY <2>1, <3>1
    <2> QED BY <2>2, <2>3
<1> QED BY <1>2, <1>4, FrameStep

LEMMA PublicationStep == IInv /\ PInv /\ [Next]_vars => PInv'
<1> SUFFICES ASSUME IInv, PInv, [Next]_vars PROVE PInv' OBVIOUS
<1>1. ASSUME NEW s \in Sessions, NEW j \in Jobs, Attempt(s, j) PROVE PInv'
    <2>1. CASE Claim(s, j) \/ ClaimReplacement(s, j)
        BY <2>1, ClaimPublication
           DEF Claim, ClaimReplacement, ClaimRefused, Claiming, Offered, At, AtRest
    <2> QED BY <1>1, <2>1, MovePublication, GuardPublication, FinishPublication DEF Attempt
<1>2. ASSUME NEW s \in Sessions, Driver(s) PROVE PInv'
    BY <1>2, SessionPublication, ResumePublication, ReplacingPublication DEF Driver
<1>3. CASE Environment
    BY <1>3, SessionPublication, RecoverPublication, RestartPublication, CancelPublication
       DEF Environment, OwnedRestart, IndependentRestart
<1>4. CASE UNCHANGED vars
    BY <1>4, FrameStep DEF vars, jobVars, sessionVars, PInv, AllFit
<1> QED BY <1>1, <1>2, <1>3, <1>4 DEF Next

LEMMA PublicationInit == Init => PInv
<1> SUFFICES ASSUME Init PROVE PInv OBVIOUS
<1>1. AllFit
    BY DEF Init, AllFit, Fits, Owns, Tracks, Guards, Published, IdleController, Holding, Working,
           AtRest
<1>3. OutputMatchesRow BY DEF Init, OutputMatchesRow
<1> QED BY <1>1, <1>3 DEF PInv

(* Rows, outputs and sessions keep the invariants of claims and of         *)
(* publication together (execution_claims.py, execution_ownership.py,      *)
(* execution_terminal.py).                                                 *)
THEOREM PublicationInvariance == Spec => [](IInv /\ PInv)
<1>1. Init => IInv /\ PInv BY InitHolds, PublicationInit
<1>2. (IInv /\ PInv) /\ [Next]_vars => (IInv /\ PInv)' BY NextPreserves, PublicationStep
<1> QED BY <1>1, <1>2, PTL DEF Spec

(* While a controller may write output.json the row stays at its           *)
(* generation (guard_job_execution), whoever restarts, recovers, resumes,  *)
(* cancels or dies.                                                        *)
THEOREM FenceSafety == Spec => []FenceProtectsGeneration
<1>1. IInv /\ PInv => FenceProtectsGeneration BY GuardedRow DEF FenceProtectsGeneration
<1> QED BY <1>1, PublicationInvariance, PTL

(* Rows and output files agree at every moment.                            *)
THEOREM OutputSafety == Spec => []OutputMatchesRow
<1>1. PInv => OutputMatchesRow BY DEF PInv
<1> QED BY <1>1, PublicationInvariance, PTL

(***************************************************************************)
(* Action properties.                                                      *)
(***************************************************************************)
(* The only step that makes an output visible is WriteOutput. *)
LEMMA OnlyWrites ==
    ASSUME IInv, Next, NEW j \in Jobs, out'[j] # out[j], out'[j] # NoOutput
    PROVE  \E s \in Sessions : WriteOutput(s, j)
<1>1. ASSUME NEW T PROVE Withdrawn(T)[j] = out[j] \/ Withdrawn(T)[j] = NoOutput
    BY DEF Withdrawn
<1>2. ASSUME NEW s \in Sessions, NEW k \in Jobs, Attempt(s, k) PROVE WriteOutput(s, j)
    <2>1. CASE WriteOutput(s, k)
        <3>1. k # j => out'[j] = out[j] BY <2>1 DEF WriteOutput, IInv, TypeOK
        <3> QED BY <2>1, <3>1
    <2>2. CASE ~WriteOutput(s, k)
        BY <1>2, <2>2 DEF Attempt, PullQueued, Claim, RefuseClaim, PauseReclaim, StartTask,
           ReleaseUnstarted, FinishTask, DetectRestart, RaisePermitError, GuardEnter, WriteFails,
           Finalize, FinalizeFails, ClaimReplacement, RejectReplacement, RefuseReplacement,
           SkipReplacement, CleanupAbandoned, ApplyClaim
    <2> QED BY <2>1, <2>2
<1>3. ASSUME NEW s \in Sessions, Driver(s) PROVE FALSE
    <2>1. CASE ReserveComponents(s) BY <1>1, <2>1 DEF ReserveComponents
    <2>2. CASE ReservationConflict(s) BY <1>1, <2>2 DEF ReservationConflict
    <2>3. ASSUME NEW clear \in BOOLEAN, PrepareResume(s, clear) PROVE FALSE
        BY <1>1, <2>3 DEF PrepareResume
    <2>4. CASE BeginComponent(s) BY <1>1, <2>4 DEF BeginComponent
    <2>5. CASE PrepareReplacements(s) BY <1>1, <2>5 DEF PrepareReplacements
    <2>6. CASE ContinueSession(s) BY <1>1, <2>6 DEF ContinueSession
    <2>7. CASE ExitSession(s) BY <1>1, <2>7 DEF ExitSession
    <2>8. CASE ExitFails(s) BY <1>1, <2>8 DEF ExitFails
    <2>9. CASE FinishComponent(s) BY <1>1, <2>9 DEF FinishComponent
    <2> QED BY <1>3, <2>1, <2>2, <2>3, <2>4, <2>5, <2>6, <2>7, <2>8, <2>9 DEF Driver
<1>4. CASE Environment
    BY <1>1, <1>4 DEF Environment, CreateSession, Crash, GoStale, Heartbeat, RecoverSession,
       OwnedRestart, IndependentRestart, ApplyRestart, Cancel
<1> QED BY <1>2, <1>3, <1>4 DEF Next

LEMMA PublishesForRow ==
    ASSUME IInv, PInv, [Next]_vars, NEW j \in Jobs, out'[j] # out[j], out'[j] # NoOutput
    PROVE  out'[j].gen = row[j].gen /\ out'[j].exec = row[j].last
<1>1. CASE Next
    <2>1. PICK s \in Sessions : WriteOutput(s, j) BY <1>1, OnlyWrites
    <2>2. /\ ctl[s][j].pc = "guarded"
          /\ out'[j].gen = ctl[s][j].gen /\ out'[j].exec = ctl[s][j].exec
        BY <2>1 DEF WriteOutput, At, IInv, TypeOK
    <2> QED BY <2>2, GuardedRow
<1>2. CASE UNCHANGED vars BY <1>2 DEF vars
<1> QED BY <1>1, <1>2

(* A done row is left only for a later generation or for a cancellation.   *)
LEMMA DoneLeft ==
    ASSUME IInv, PInv, [Next]_vars, NEW j \in Jobs,
           row[j].status = "done", row'[j].status # "done"
    PROVE  row'[j].gen > row[j].gen \/ row'[j].status = "cancelled"
<1>1. row[j] \in Rows /\ row[j].gen \in Nat /\ row[j].active = NoExec
    BY DEF IInv, TypeOK, Rows, LeaseInv, LeaseOwnership
<1>2. ASSUME NEW k \in Jobs, NEW r, row' = [row EXCEPT ![k] = r] PROVE k = j /\ row'[j] = r
    <2>1. k # j => row'[j] = row[j] BY <1>2 DEF IInv, TypeOK
    <2> QED BY <1>2, <2>1 DEF IInv, TypeOK
<1>3. ASSUME NEW T, NEW owned, ApplyRestart(T, owned) PROVE row'[j].gen > row[j].gen
    <2>1. j \in T BY <1>3 DEF ApplyRestart
    <2> DEFINE ev == [gen |-> row[j].gen + 1, exec |-> IF owned THEN row[j].last ELSE NoExec]
    <2>2. row'[j] = [row[j] EXCEPT !.status = "queued", !.gen = @ + 1, !.active = NoExec,
                                   !.marker = TRUE, !.event = ev]
        BY <1>3, <2>1 DEF ApplyRestart
    <2> HIDE DEF ev
    <2>3. row'[j].gen = row[j].gen + 1 BY <1>1, <2>2 DEF Rows
    <2> QED BY <1>1, <2>3
<1>4. ASSUME NEW s \in Sessions, NEW k \in Jobs, Attempt(s, k) PROVE FALSE
    <2>1. CASE Claim(s, k) \/ ClaimReplacement(s, k)
        <3>1. ApplyClaim(s, k) BY <2>1 DEF Claim, ClaimReplacement
        <3>2. k = j
            BY <3>1, <1>2 DEF ApplyClaim, IInv, TypeOK
        <3>3. /\ ctl[s][j].pc \in {"pulled", "superseded"} \/ row[j].status = "queued"
              /\ resv = s /\ sess[s].status = "running"
            BY <2>1, <3>2 DEF Claim, ClaimReplacement, Claiming, At, Intact, ClaimRefused,
               LeaseRefused
        <3>4. ctl[s][j].pc \in {"pulled", "superseded"} BY <3>3
        <3>5. sess[s].pending BY <3>3, <3>4, AtWorkPending DEF AtRest
        <3>6. Tracks(j, ctl[s][j]) BY <3>5 DEF PInv, AllFit, Fits
        <3> QED BY <3>4, <3>6 DEF Tracks, Overtaken
    <2>2. CASE Finalize(s, k)
        <3> DEFINE c == ctl[s][k]
        <3>1. /\ c.pc = "written" /\ TerminalAccepted(k, c.gen, c.exec, c.result)
              /\ row' = [row EXCEPT ![k] = TerminalRow(row[k], c.result)]
            BY <2>2 DEF Finalize, At
        <3>2. k = j /\ row'[j] = TerminalRow(row[j], c.result) BY <1>2, <3>1
        <3>3. row'[j].status = c.result BY <1>1, <3>2, TerminalRowGen
        <3>4. c.exec # NoExec
            BY <3>1 DEF IInv, ControllersSound, Sound, Working
        <3>5. row[j].status = c.result
            BY <1>1, <3>1, <3>2, <3>4 DEF TerminalAccepted, AlreadyTerminal
        <3> QED BY <3>3, <3>5
    <2>3. CASE ReleaseUnstarted(s, k)
        <3>1. /\ ctl[s][k].pc = "claimed" /\ row[k].active = ctl[s][k].exec
              /\ row' = [row EXCEPT ![k].status = "queued", ![k].active = NoExec]
            BY <2>3 DEF ReleaseUnstarted, At, IsCurrent
        <3>2. k = j BY <3>1 DEF IInv, TypeOK
        <3>3. ctl[s][k].exec # NoExec
            BY <3>1 DEF IInv, ControllersSound, Sound, Working
        <3> QED BY <1>1, <3>1, <3>2, <3>3
    <2>4. ASSUME NEW status \in Results, CleanupAbandoned(s, k, status) PROVE FALSE
        <3>1. row[k].status = "running" /\ row' = [row EXCEPT ![k] = TerminalRow(@, status)]
            BY <2>4 DEF CleanupAbandoned
        <3>2. k # j BY <3>1
        <3> QED BY <3>1, <3>2 DEF IInv, TypeOK
    <2> QED BY <1>4, <2>1, <2>2, <2>3, <2>4
            DEF Attempt, PullQueued, RefuseClaim, PauseReclaim, StartTask, FinishTask,
                DetectRestart, RaisePermitError, GuardEnter, WriteOutput, WriteFails,
                FinalizeFails, RejectReplacement, RefuseReplacement, SkipReplacement, jobVars
<1>5. ASSUME NEW s \in Sessions, Driver(s) PROVE FALSE
    <2>1. ASSUME NEW clear \in BOOLEAN, PrepareResume(s, clear) PROVE FALSE
        <3>1. row'[j] = [row[j] EXCEPT !.event = NoEvent] \/ row'[j] = row[j]
            BY <2>1 DEF PrepareResume, Unsuccessful
        <3> QED BY <1>1, <3>1 DEF Rows
    <2> QED BY <1>5, <2>1
            DEF Driver, ReserveComponents, ReservationConflict, BeginComponent,
                PrepareReplacements, FinishComponent, ContinueSession, ExitSession, ExitFails,
                jobVars
<1>6. CASE Environment
    <2>1. ASSUME NEW s \in Sessions, RecoverSession(s) PROVE FALSE
        BY <1>1, <2>1 DEF RecoverSession, ActiveOf
    <2>2. ASSUME NEW k \in Jobs, Cancel(k) PROVE row'[j].status = "cancelled"
        <3>1. row' = [row EXCEPT ![k] = TerminalRow(row[k], "cancelled")] BY <2>2 DEF Cancel
        <3>2. row'[j] = TerminalRow(row[j], "cancelled") BY <1>2, <3>1
        <3> QED BY <1>1, <3>2, TerminalRowGen
    <2> QED BY <1>3, <1>6, <2>1, <2>2
            DEF Environment, CreateSession, Crash, GoStale, Heartbeat, OwnedRestart,
                IndependentRestart, jobVars
<1>7. CASE UNCHANGED vars BY <1>7 DEF vars, jobVars
<1> QED BY <1>4, <1>5, <1>6, <1>7 DEF Next

(* The only steps that bring a controller to "claimed" are claims. *)
LEMMA OnlyClaims ==
    ASSUME IInv, [Next]_vars, NEW s \in Sessions, NEW j \in Jobs,
           ctl[s][j].pc = "superseded", ctl'[s][j].pc = "claimed"
    PROVE  Claim(s, j) /\ ApplyClaim(s, j)
<1>1. ctl[s][j] \in Controllers BY DEF IInv, TypeOK
<1>2. ASSUME NEW x \in Sessions, NEW k \in Jobs, NEW c, ctl' = [ctl EXCEPT ![x][k] = c]
      PROVE  x = s /\ k = j /\ c.pc = "claimed"
    <2>1. x # s \/ k # j => ctl'[s][j] = ctl[s][j] BY <1>2 DEF IInv, TypeOK
    <2>2. x = s /\ k = j BY <2>1
    <2> QED BY <1>2, <2>2 DEF IInv, TypeOK
<1>3. ASSUME NEW x \in Sessions, NEW k \in Jobs, NEW pc, Goto(x, k, pc)
      PROVE  x = s /\ k = j /\ pc = "claimed"
    <2> DEFINE c == [ctl[x][k] EXCEPT !.pc = pc]
    <2>1. ctl' = [ctl EXCEPT ![x][k] = c] BY <1>3 DEF Goto
    <2>2. c.pc = pc BY DEF IInv, TypeOK, Controllers
    <2> HIDE DEF c
    <2> QED BY <1>2, <2>1, <2>2
<1>4. ASSUME NEW x \in Sessions, NEW k \in Jobs, NEW pc,
             ctl' = [ctl EXCEPT ![x][k] = [IdleController EXCEPT !.pc = pc]]
      PROVE  pc = "claimed"
    <2> DEFINE c == [IdleController EXCEPT !.pc = pc]
    <2>1. c.pc = pc BY DEF IdleController
    <2> HIDE DEF c
    <2>2. ctl' = [ctl EXCEPT ![x][k] = c] BY <1>4 DEF c
    <2> QED BY <1>2, <2>1, <2>2
<1>5. ASSUME NEW x \in Sessions, NEW k \in Jobs, Attempt(x, k)
      PROVE  Claim(s, j) /\ ApplyClaim(s, j)
    <2>1. CASE Claim(x, k) \/ ClaimReplacement(x, k)
        <3>1. ApplyClaim(x, k) BY <2>1 DEF Claim, ClaimReplacement
        <3>2. x = s /\ k = j BY <1>2, <3>1 DEF ApplyClaim
        <3> QED BY <2>1, <3>1, <3>2 DEF ClaimReplacement, Offered, At
    <2>2. ASSUME NEW result \in Results, FinishTask(x, k, result) PROVE FALSE
        <3> DEFINE c == [ctl[x][k] EXCEPT !.pc = "publishing", !.result = result]
        <3>1. ctl' = [ctl EXCEPT ![x][k] = c] BY <2>2 DEF FinishTask
        <3>2. c.pc = "publishing" BY DEF IInv, TypeOK, Controllers
        <3> HIDE DEF c
        <3> QED BY <1>2, <3>1, <3>2
    <2>3. ASSUME NEW status \in Results, CleanupAbandoned(x, k, status) PROVE FALSE
        <3> DEFINE c == [ctl[x][k] EXCEPT !.gen = row[k].gen, !.exec = row[k].active]
        <3>1. ctl' = [ctl EXCEPT ![x][k].gen = row[k].gen, ![x][k].exec = row[k].active]
            BY <2>3 DEF CleanupAbandoned
        <3>2. ctl' = [ctl EXCEPT ![x][k] = c] BY <3>1 DEF IInv, TypeOK
        <3>3. c.pc = ctl[x][k].pc BY DEF IInv, TypeOK, Controllers
        <3> HIDE DEF c
        <3> QED BY <1>2, <3>2, <3>3
    <2>4. CASE Finalize(x, k)
        <3>1. ctl[x][k].pc = "written" /\ \E pc : Goto(x, k, pc) BY <2>4 DEF Finalize, At
        <3> QED BY <1>3, <3>1
    <2>5. CASE ReleaseUnstarted(x, k)
        BY <1>3, <1>4, <2>5 DEF ReleaseUnstarted
    <2>6. CASE RefuseClaim(x, k) \/ PauseReclaim(x, k) \/ RaisePermitError(x, k)
        BY <1>4, <2>6 DEF RefuseClaim, PauseReclaim, RaisePermitError
    <2>7. CASE \/ PullQueued(x, k) \/ StartTask(x, k) \/ DetectRestart(x, k) \/ GuardEnter(x, k)
               \/ WriteOutput(x, k) \/ WriteFails(x, k) \/ FinalizeFails(x, k)
               \/ RejectReplacement(x, k)
        BY <1>3, <2>7 DEF PullQueued, StartTask, DetectRestart, GuardEnter, WriteOutput,
           WriteFails, FinalizeFails, RejectReplacement
    <2>8. CASE RefuseReplacement(x, k) \/ SkipReplacement(x, k)
        <3>1. \/ Goto(x, k, "rejected") \/ Goto(x, k, "refused")
              \/ ctl' = [ctl EXCEPT ![x][k] = [IdleController EXCEPT !.pc = "pulled"]]
            BY <2>8 DEF RefuseReplacement, SkipReplacement
        <3> QED BY <1>3, <1>4, <3>1
    <2> QED BY <1>5, <2>1, <2>2, <2>3, <2>4, <2>5, <2>6, <2>7, <2>8 DEF Attempt
<1>6. ASSUME NEW x \in Sessions, ctl' = [ctl EXCEPT ![x] = [k \in Jobs |-> IdleController]]
      PROVE  FALSE
    BY <1>6 DEF IInv, TypeOK, IdleController
<1>7. ASSUME NEW x \in Sessions, NEW J, Replacing(x, J) PROVE FALSE
    <2>1. x = s /\ j \in J BY <1>7 DEF Replacing, IInv, TypeOK
    <2> DEFINE pc == IF OfferedAgain(s, j) THEN "retry" ELSE "replace"
    <2>2. ctl'[s][j] = [ctl[s][j] EXCEPT !.pc = pc, !.gen = OwnerOf(j).gen,
                                         !.exec = row[j].last, !.expect = row[j].gen]
        BY <1>7, <2>1 DEF Replacing, IInv, TypeOK
    <2>3. pc \in {"retry", "replace"} OBVIOUS
    <2> HIDE DEF pc
    <2>4. ctl'[s][j].pc = pc BY <1>1, <2>2 DEF Controllers
    <2> QED BY <2>3, <2>4
<1>8. ASSUME NEW x \in Sessions, Driver(x) PROVE FALSE
    BY <1>6, <1>7, <1>8 DEF Driver, ReserveComponents, ReservationConflict, PrepareResume,
       BeginComponent, PrepareReplacements, FinishComponent, ContinueSession, ExitSession,
       ExitFails
<1>9. CASE Environment
    BY <1>6, <1>9 DEF Environment, CreateSession, Crash, GoStale, Heartbeat, RecoverSession,
       OwnedRestart, IndependentRestart, ApplyRestart, Cancel
<1>10. CASE UNCHANGED vars BY <1>10 DEF vars
<1> QED BY <1>5, <1>8, <1>9, <1>10 DEF Next

(* A superseded controller whose row is only cancelled is held up by the   *)
(* cancelled job itself, so what it claims is a later generation.          *)
LEMMA ReclaimStep ==
    ASSUME IInv, PInv, [Next]_vars, NEW s \in Sessions, NEW j \in Jobs,
           ctl[s][j].pc = "superseded", ctl'[s][j].pc = "claimed"
    PROVE  ctl'[s][j].gen > ctl[s][j].gen
<1>1. Claim(s, j) /\ ApplyClaim(s, j) BY OnlyClaims
<1>2. ctl'[s][j].gen = row[j].gen BY <1>1 DEF ApplyClaim, IInv, TypeOK
<1>3. ~LeaseRefused(s, j) BY <1>1 DEF Claim, ClaimRefused
<1>4. sess[s].pending BY <1>3, AtWorkPending DEF LeaseRefused, AtRest
<1>5. Fits(s, j, ctl[s][j]) BY DEF PInv, AllFit
<1>6. Overtaken(j, ctl[s][j]) /\ row[j].last = ctl[s][j].exec
    BY <1>4, <1>5 DEF Fits, Tracks, Holding
<1>7. OwnedBy(s, j)
    BY <1>5, <1>6 DEF Fits, Owns, Holding, OwnedBy, OwnerOf, NoExec
<1>8. row[j].status # "cancelled"
    <2>1. SUFFICES ASSUME row[j].status = "cancelled" PROVE FALSE OBVIOUS
    <2>2. j \in UnfinishedJobs(s) BY <1>7, <2>1 DEF UnfinishedJobs, Selected
    <2>3. ~AcceptedRestart(s, j) BY <2>1 DEF AcceptedRestart, IsSuccessor
    <2> QED BY <1>1, <2>2, <2>3 DEF Claim, ClaimWaits
<1> QED BY <1>2, <1>6, <1>8 DEF Overtaken

(* What is published, what is done and what is claimed only moves forward  *)
(* (guard_job_execution, execution_terminal.py, execution_claims.py).      *)
THEOREM ForwardSafety == Spec => RowsMoveForward
<1>1. IInv /\ PInv /\ [Next]_vars =>
        [\A j \in Jobs : out'[j] # out[j] /\ out'[j] # NoOutput =>
            out'[j].gen = row[j].gen /\ out'[j].exec = row[j].last]_vars
    BY PublishesForRow
<1>2. IInv /\ PInv /\ [Next]_vars =>
        [\A j \in Jobs : row[j].status = "done" /\ row'[j].status # "done" =>
            row'[j].gen > row[j].gen \/ row'[j].status = "cancelled"]_vars
    BY DoneLeft
<1>3. IInv /\ PInv /\ [Next]_vars =>
        [\A s \in Sessions, j \in Jobs :
            ctl[s][j].pc = "superseded" /\ ctl'[s][j].pc = "claimed" =>
                ctl'[s][j].gen > ctl[s][j].gen]_vars
    BY ReclaimStep
<1> QED BY <1>1, <1>2, <1>3, PublicationInvariance, PTL
        DEF Spec, RowsMoveForward, NoStalePublication, DoneIsKept, ReclaimAdvances

(***************************************************************************)
(* Restarts and the exit of their session.                                 *)
(***************************************************************************)
ExitedTerminal == \A s \in Sessions : sess[s].exited => sess[s].status = "terminal"
LEMMA ExitedStep == IInv /\ ExitedTerminal /\ [Next]_vars => ExitedTerminal'
<1> SUFFICES ASSUME IInv, ExitedTerminal, [Next]_vars PROVE ExitedTerminal' OBVIOUS
<1>1. sess \in [Sessions -> SessionRows] BY DEF IInv, TypeOK
<1>2. CASE sess' = sess BY <1>2 DEF ExitedTerminal
<1>3. ASSUME NEW s \in Sessions, NEW exited \in BOOLEAN, Settle(s, exited) PROVE ExitedTerminal'
    BY <1>1, <1>3 DEF Settle, ExitedTerminal
<1>4. ASSUME NEW s \in Sessions,
             \/ CreateSession(s) \/ ReservationConflict(s)
             \/ BeginComponent(s) \/ FinishComponent(s)
      PROVE  ExitedTerminal'
    BY <1>1, <1>4 DEF CreateSession, ReservationConflict, BeginComponent, FinishComponent,
       ExitedTerminal, SessionRows
<1>5. ASSUME NEW s \in Sessions, NEW j \in Jobs, Attempt(s, j) PROVE sess' = sess
    BY <1>5 DEF Attempt, PullQueued, Claim, RefuseClaim, PauseReclaim, StartTask,
       ReleaseUnstarted, FinishTask, DetectRestart, RaisePermitError, GuardEnter, WriteOutput,
       WriteFails, Finalize, FinalizeFails, ClaimReplacement, RejectReplacement,
       RefuseReplacement, SkipReplacement, CleanupAbandoned, ApplyClaim, sessionVars
<1>6. ASSUME NEW s \in Sessions, Driver(s) PROVE ExitedTerminal'
    BY <1>2, <1>3, <1>4, <1>6 DEF Driver, ReserveComponents, PrepareResume,
       PrepareReplacements, ContinueSession, ExitSession, ExitFails, sessionVars
<1>7. CASE Environment
    BY <1>2, <1>3, <1>4, <1>7 DEF Environment, Crash, GoStale, Heartbeat, RecoverSession,
       OwnedRestart, IndependentRestart, ApplyRestart, Cancel, sessionVars
<1>8. CASE UNCHANGED vars BY <1>2, <1>8 DEF vars, sessionVars
<1> QED BY <1>2, <1>5, <1>6, <1>7, <1>8 DEF Next

(* A restart is accepted for a session only while that session is running. *)
LEMMA AcceptedByRunning ==
    ASSUME IInv, PInv, [Next]_vars, NEW s \in Sessions, NEW j \in Jobs,
           AcceptedRestart(s, j)', ~AcceptedRestart(s, j)
    PROVE  sess[s].status = "running" /\ sess' = sess
<1> DEFINE e == row'[j].last
<1>1. /\ e # NoExec /\ owner'[e].session = s
      /\ row'[j].status = "queued" /\ row'[j].active = NoExec
      /\ row'[j].gen > owner'[e].gen /\ row'[j].marker
      /\ row'[j].event = [gen |-> row'[j].gen, exec |-> e]
    BY DEF AcceptedRestart, IsSuccessor, OwnedBy, OwnerOf
<1>2. row[j] \in Rows BY DEF IInv, TypeOK
<1>3. ~(row'[j] = row[j] /\ owner'[e] = owner[e])
    BY <1>1 DEF AcceptedRestart, IsSuccessor, OwnedBy, OwnerOf
<1>4. row'[j].event.exec # NoExec BY <1>1
<1>5. ASSUME NEW k \in Jobs, NEW r, row' = [row EXCEPT ![k] = r], owner' = owner
      PROVE  k = j /\ row'[j] = r
    <2>1. k # j => row'[j] = row[j] BY <1>5 DEF IInv, TypeOK
    <2> QED BY <1>3, <1>5, <2>1 DEF IInv, TypeOK
<1>6. ASSUME NEW x \in Sessions, NEW k \in Jobs, Attempt(x, k) PROVE FALSE
    <2>1. CASE Claim(x, k) \/ ClaimReplacement(x, k)
        <3>1. ApplyClaim(x, k) BY <2>1 DEF Claim, ClaimReplacement
        <3>2. issued \in Nat /\ issued + 1 # NoExec BY DEF IInv, TypeOK, NoExec
        <3>3. CASE k = j
            <4>1. row'[j].active = issued + 1 BY <1>2, <3>1, <3>3 DEF ApplyClaim, IInv, TypeOK, Rows
            <4> QED BY <1>1, <3>2, <4>1
        <3>4. CASE k # j
            <4>1. row'[j] = row[j] BY <3>1, <3>4 DEF ApplyClaim, IInv, TypeOK
            <4>2. e <= issued /\ e \in Nat /\ e \in ExecIds
                BY <1>1, <1>2, <4>1 DEF IInv, LeaseInv, IdsIssued, Rows, ExecIds, NoExec
            <4>3. owner' = [owner EXCEPT ![issued + 1] =
                              [job |-> k, gen |-> row[k].gen, session |-> x]]
                BY <3>1 DEF ApplyClaim
            <4>4. e # issued + 1 BY <3>2, <4>2
            <4>5. owner'[e] = owner[e] BY <4>2, <4>3, <4>4 DEF IInv, TypeOK
            <4> QED BY <1>3, <4>1, <4>5
        <3> QED BY <3>3, <3>4
    <2>2. ASSUME NEW status \in Results, row' = [row EXCEPT ![k] = TerminalRow(@, status)],
                 owner' = owner
          PROVE  FALSE
        <3>1. row'[j] = TerminalRow(row[j], status) BY <1>5, <2>2
        <3> QED BY <1>1, <1>2, <3>1, TerminalRowGen DEF Results
    <2>3. CASE Finalize(x, k)
        <3>1. ctl[x][k].result \in Results
            BY <2>3 DEF Finalize, At, IInv, ControllersSound, Sound, HasResult
        <3>2. \/ row' = row
              \/ row' = [row EXCEPT ![k] = TerminalRow(@, ctl[x][k].result)]
            BY <2>3 DEF Finalize
        <3> QED BY <1>3, <2>2, <2>3, <3>1, <3>2 DEF Finalize
    <2>4. CASE ReleaseUnstarted(x, k)
        <3> DEFINE r == [row[k] EXCEPT !.status = "queued", !.active = NoExec]
        <3>1. owner' = owner /\ (row' = row \/ row' = [row EXCEPT ![k] = r])
            BY <2>4 DEF ReleaseUnstarted
        <3>2. k = j /\ row'[j] = r BY <1>3, <1>5, <3>1
        <3>3. row[j].active = ctl[x][j].exec /\ ctl[x][j].pc \in Holding
            BY <1>3, <2>4, <3>2 DEF ReleaseUnstarted, At, IsCurrent, Holding, Working
        <3>4. row[j].active # NoExec BY <3>3, ActiveHolder
        <3>5. row[j].last = row[j].active /\ owner[row[j].active].gen = row[j].gen
            <4>1. /\ row[j].active = row[j].last
                  /\ owner[row[j].active] = [job |-> j, gen |-> row[j].gen, session |-> resv]
                BY <3>4 DEF IInv, LeaseInv, LeaseOwnership
            <4> QED BY <4>1
        <3>6. row'[j].gen = row[j].gen /\ e = row[j].last BY <1>2, <3>2 DEF Rows
        <3>7. row[j].gen \in Nat BY <1>2 DEF Rows
        <3> QED BY <1>1, <3>1, <3>5, <3>6, <3>7
    <2>5. ASSUME NEW status \in Results, CleanupAbandoned(x, k, status) PROVE FALSE
        BY <2>2, <2>5 DEF CleanupAbandoned
    <2> QED BY <1>3, <1>6, <2>1, <2>3, <2>4, <2>5
            DEF Attempt, PullQueued, RefuseClaim, PauseReclaim, StartTask, FinishTask,
                DetectRestart, RaisePermitError, GuardEnter, WriteOutput, WriteFails,
                FinalizeFails, RejectReplacement, RefuseReplacement, SkipReplacement, jobVars
<1>7. ASSUME NEW x \in Sessions, Driver(x) PROVE FALSE
    <2>1. ASSUME NEW clear \in BOOLEAN, PrepareResume(x, clear) PROVE FALSE
        <3>1. CASE j \in Unsuccessful
            <4> DEFINE ev == [gen |-> row[j].gen + 1, exec |-> NoExec]
            <4>1. row'[j] = [row[j] EXCEPT !.status = "queued", !.gen = @ + 1, !.marker = TRUE,
                                           !.event = ev]
                BY <2>1, <3>1 DEF PrepareResume
            <4>2. ev.exec = NoExec OBVIOUS
            <4> HIDE DEF ev
            <4>3. row'[j].event = ev BY <1>2, <4>1 DEF Rows
            <4> QED BY <1>4, <4>2, <4>3
        <3>2. CASE j \notin Unsuccessful
            <4>1. row'[j] = [row[j] EXCEPT !.event = NoEvent] \/ row'[j] = row[j]
                BY <2>1, <3>2 DEF PrepareResume
            <4>2. row'[j] # row[j] BY <1>3, <2>1 DEF PrepareResume
            <4>3. row'[j].event = NoEvent BY <1>2, <4>1, <4>2 DEF Rows
            <4> QED BY <1>4, <4>3 DEF NoEvent
        <3> QED BY <3>1, <3>2
    <2> QED BY <1>3, <1>7, <2>1
            DEF Driver, ReserveComponents, ReservationConflict, BeginComponent,
                PrepareReplacements, FinishComponent, ContinueSession, ExitSession, ExitFails,
                jobVars
<1>8. CASE Environment
    <2>1. ASSUME NEW x \in Sessions, RecoverSession(x) PROVE FALSE
        <3>1. owner' = owner BY <2>1 DEF RecoverSession
        <3>2. j \in ActiveOf(x) BY <1>3, <2>1, <3>1 DEF RecoverSession
        <3>3. CASE Finished(j)
            <4> DEFINE t == TerminalRow(row[j], out[j].status)
            <4>1. row'[j] = [t EXCEPT !.marker = FALSE] BY <2>1, <3>2, <3>3 DEF RecoverSession
            <4>2. row'[j].marker = FALSE BY <1>2, <4>1 DEF TerminalRow, Rows
            <4> QED BY <1>1, <4>2
        <3>4. CASE ~Finished(j)
            <4>1. row'[j] = [row[j] EXCEPT !.status = "queued", !.gen = @ + 1, !.active = NoExec,
                                           !.marker = FALSE]
                BY <2>1, <3>2, <3>4 DEF RecoverSession
            <4>2. row'[j].marker = FALSE BY <1>2, <4>1 DEF Rows
            <4> QED BY <1>1, <4>2
        <3> QED BY <3>3, <3>4
    <2>2. ASSUME NEW T \in SUBSET Jobs, NEW owned \in BOOLEAN, ApplyRestart(T, owned)
          PROVE  j \in T /\ owned /\ e = row[j].last /\ owner' = owner /\ sess' = sess
        <3>1. owner' = owner /\ sess' = sess BY <2>2 DEF ApplyRestart, sessionVars
        <3>2. j \in T BY <1>3, <2>2, <3>1 DEF ApplyRestart
        <3> DEFINE ev == [gen |-> row[j].gen + 1, exec |-> IF owned THEN row[j].last ELSE NoExec]
        <3>3. row'[j] = [row[j] EXCEPT !.status = "queued", !.gen = @ + 1, !.active = NoExec,
                                       !.marker = TRUE, !.event = ev]
            BY <2>2, <3>2 DEF ApplyRestart
        <3>4. ~owned => ev.exec = NoExec OBVIOUS
        <3> HIDE DEF ev
        <3>5. row'[j].event = ev /\ e = row[j].last BY <1>2, <3>3 DEF Rows
        <3> QED BY <1>4, <3>1, <3>2, <3>4, <3>5
    <2>3. ASSUME NEW x \in Sessions, NEW T \in SUBSET Jobs, OwnedRestart(x, T)
          PROVE  sess[s].status = "running" /\ sess' = sess
        <3>1. ApplyRestart(T, TRUE) BY <2>3 DEF OwnedRestart
        <3>2. j \in T /\ e = row[j].last /\ owner' = owner /\ sess' = sess BY <2>2, <3>1
        <3>3. OwnedTarget(x, j) BY <2>3, <3>2 DEF OwnedRestart
        <3> QED BY <1>1, <3>2, <3>3 DEF OwnedTarget, OwnedBy, OwnerOf, JudgedLive
    <2>4. ASSUME NEW k \in Jobs, IndependentRestart(k) PROVE FALSE
        BY <2>2, <2>4 DEF IndependentRestart
    <2>5. ASSUME NEW k \in Jobs, Cancel(k) PROVE FALSE
        <3>1. row' = [row EXCEPT ![k] = TerminalRow(row[k], "cancelled")] /\ owner' = owner
            BY <2>5 DEF Cancel
        <3>2. row'[j] = TerminalRow(row[j], "cancelled") BY <1>5, <3>1
        <3> QED BY <1>1, <1>2, <3>2, TerminalRowGen
    <2> QED BY <1>3, <1>8, <2>1, <2>3, <2>4, <2>5
            DEF Environment, CreateSession, Crash, GoStale, Heartbeat, jobVars
<1>9. CASE UNCHANGED vars BY <1>3, <1>9 DEF vars, jobVars
<1> QED BY <1>6, <1>7, <1>8, <1>9 DEF Next

(* A session of its own accord ends a pending execution by publishing the  *)
(* success of the component or by the exit decision.                       *)
LEMMA OnlyEnds ==
    ASSUME IInv, [Next]_vars, NEW s \in Sessions, EndsPending(s)
    PROVE  FinishComponent(s) \/ ExitSession(s)
<1>1. sess \in [Sessions -> SessionRows] BY DEF IInv, TypeOK
<1>2. sess' # sess BY DEF EndsPending
<1>3. ASSUME NEW x \in Sessions, CreateSession(x) \/ BeginComponent(x) PROVE FALSE
    BY <1>1, <1>3 DEF CreateSession, BeginComponent, SessionRows, EndsPending
<1>4. ASSUME NEW x \in Sessions, ReservationConflict(x) PROVE FALSE
    BY <1>1, <1>4 DEF ReservationConflict, SessionRows, EndsPending
<1>5. ASSUME NEW x \in Sessions, FinishComponent(x) \/ ExitSession(x) PROVE x = s
    BY <1>1, <1>5 DEF FinishComponent, ExitSession, Settle, SessionRows, EndsPending
<1>6. ASSUME NEW x \in Sessions, RecoverSession(x) PROVE FALSE
    BY <1>1, <1>6 DEF RecoverSession, Settle, EndsPending
<1>7. ASSUME NEW x \in Sessions, NEW j \in Jobs, Attempt(x, j) PROVE FALSE
    BY <1>2, <1>7 DEF Attempt, PullQueued, Claim, RefuseClaim, PauseReclaim, StartTask,
       ReleaseUnstarted, FinishTask, DetectRestart, RaisePermitError, GuardEnter, WriteOutput,
       WriteFails, Finalize, FinalizeFails, ClaimReplacement, RejectReplacement,
       RefuseReplacement, SkipReplacement, CleanupAbandoned, ApplyClaim, sessionVars
<1>8. ASSUME NEW x \in Sessions, Driver(x) PROVE FinishComponent(s) \/ ExitSession(s)
    BY <1>2, <1>3, <1>4, <1>5, <1>8 DEF Driver, ReserveComponents, PrepareResume,
       PrepareReplacements, ContinueSession, ExitFails, sessionVars
<1>9. CASE Environment
    BY <1>2, <1>3, <1>6, <1>9 DEF Environment, Crash, GoStale, Heartbeat,
       OwnedRestart, IndependentRestart, ApplyRestart, Cancel, sessionVars
<1>10. CASE UNCHANGED vars BY <1>2, <1>10 DEF vars, sessionVars
<1> QED BY <1>7, <1>8, <1>9, <1>10 DEF Next

LEMMA EndStepServes ==
    ASSUME IInv, PInv, [Next]_vars, NEW s \in Sessions, NEW j \in Jobs,
           EndsPending(s), AcceptedRestart(s, j)'
    PROVE  TurnedDown(s, j)
<1>1. FinishComponent(s) \/ ExitSession(s) BY OnlyEnds
<1>2. UNCHANGED <<row, owner>> BY <1>1 DEF FinishComponent, ExitSession, jobVars
<1>3. AcceptedRestart(s, j) BY <1>2 DEF AcceptedRestart, IsSuccessor, OwnedBy, OwnerOf
<1>4. row[j].status = "queued" /\ row[j].marker BY <1>3 DEF AcceptedRestart, IsSuccessor
<1>5. ExitSession(s) BY <1>1, <1>4, FinishAtRest
<1>6. sess[s].pending /\ j \notin Continuing(s) BY <1>5 DEF ExitSession, EndsPending
<1>7. ctl[s][j].pc = "rejected" /\ ~(row[j].gen > ctl[s][j].expect)
    BY <1>3, <1>4, <1>6 DEF Continuing
<1>8. ctl[s][j].expect <= row[j].gen BY DEF PInv, AllFit, Fits
<1>9. ctl[s][j].expect \in Nat /\ row[j].gen \in Nat
    BY DEF IInv, TypeOK, Controllers, Rows
<1> QED BY <1>7, <1>8, <1>9 DEF TurnedDown

(* The end of a pending execution overlooks no accepted restart, and an    *)
(* exited session is sent none (finish_successful_component_execution and  *)
(* decide_execution_session_exit against the acceptance of restarts).      *)
THEOREM ExitSafety == Spec => ExitServedRestarts
<1>1. Init => ExitedTerminal BY DEF Init, ExitedTerminal
<1>2. ASSUME IInv, PInv, ExitedTerminal, [Next]_vars, NEW s \in Sessions, NEW j \in Jobs,
             AcceptedRestart(s, j)'
      PROVE  /\ EndsPending(s) => TurnedDown(s, j)
             /\ sess[s].exited => AcceptedRestart(s, j)
    BY <1>2, EndStepServes, AcceptedByRunning DEF ExitedTerminal
<1>3. IInv /\ PInv /\ ExitedTerminal /\ [Next]_vars =>
        [\A s \in Sessions, j \in Jobs :
            AcceptedRestart(s, j)' =>
               /\ EndsPending(s) => TurnedDown(s, j)
               /\ sess[s].exited => AcceptedRestart(s, j)]_vars
    BY <1>2
<1> QED BY <1>1, <1>3, ExitedStep, PublicationInvariance, PTL DEF Spec, ExitServedRestarts
=============================================================================
