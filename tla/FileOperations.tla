--------------------------- MODULE FileOperations ---------------------------
(***************************************************************************)
(* The operations that change node files together with database rows: the  *)
(* preparation of components for a run, a resume or a membership change,   *)
(* the publication of managed inputs, the node clipboard, and the recovery *)
(* of an abandoned session.  Each keeps the originals it replaces in a     *)
(* private directory and decides in a receipt row: recorded "prepared"     *)
(* before the first visible file moves, "committed" in the transaction     *)
(* that changes the rows, "aborted" once the originals are back.  `mwf     *)
(* recover' replays the receipts of operations whose owner is gone.        *)
(*                                                                         *)
(* One receiver node with two paths; a file is the original, the file of   *)
(* an operation, or one an outsider wrote.  Owners and recoveries may die  *)
(* at every step, a step may fail, and a transaction may be applied while  *)
(* its answer is lost.                                                     *)
(*                                                                         *)
(* An operator named Bug... is not part of the specification: it is the    *)
(* definition after it with a plausible mistake, for mutation runs.        *)
(***************************************************************************)
EXTENDS Naturals, Sequences, FiniteSets, FiniteSetsExt

CONSTANTS Ops,          \* operations
          Recoverers,   \* processes that run `mwf recover'
          Nobody,       \* no owner of a lock or of the receiver guard
          Scenarios,    \* who meets: the kinds of the operations and the recoveries
          MaxTroubles   \* bound on process deaths, failing steps, lost answers
                        \* and files written by an outsider, together

VARIABLES
    kind,       \* [Ops -> Kinds]: fixed; an "idle" operation is never started
    crew,       \* SUBSET Recoverers: fixed; the recoveries that are run
    pc, unit,   \* owner: its step and the unit it is preparing
    status,     \* owner: "running", "failed", or "unsure" of its own attempt
    alive,      \* [Ops -> BOOLEAN]: the process of the owner exists
    seen,       \* [Ops -> rows]: what the operation observed before its locks
    visible,    \* [Paths -> content]: the files of the node
    saved,      \* [Ops -> [Paths -> content]]: originals in the private directory
    incoming,   \* [Ops -> [Paths -> content]]: new files, still private
    recorded,   \* [Ops -> [Paths -> content]]: the originals in the manifest
    dir,        \* [Ops -> SUBSET Units]: private directories that exist
    receipt,    \* [Ops -> [Units -> state]]: receipt rows
    attempt,    \* [Ops -> state]: preparation_attempts, clipboard_attempts
    completed,  \* [Ops -> BOOLEAN]: completed_membership_revision is set
    guard,      \* receiver_mutation_guards: the owner of the receiver
    rows,       \* [Paths -> content]: what the rows of the database decided
    oplock,     \* [Ops -> holder]: operation locks
    nodelock,   \* holder of the input and jobs locks of the receiver (of the
                \* session lock, when the operations are session recoveries)
    rpc, plan,  \* recovery: its step and the row it observed
    troubles,   \* how much has gone wrong so far
    wrote       \* an outsider has written a file

owner == <<pc, unit, status, alive, seen>>
private == <<saved, incoming, recorded, dir>>
db == <<receipt, attempt, completed, guard, rows>>
locks == <<oplock, nodelock>>
recovery == <<rpc, plan>>
budget == <<troubles, wrote>>
vars == <<kind, crew, owner, visible, private, db, locks, recovery, budget>>

Absent == "absent"
Paths == {1, 2}
Preparing == {"preparation", "resume", "membership"}
Kinds == Preparing \cup {"input", "clipboard", "recovery", "idle"}

(* What an operation puts at a path: a preparation replaces an output      *)
(* directory by an empty one, that of a membership change also deletes a   *)
(* job, a publication replaces one input and deletes another, the          *)
(* clipboard replaces one tree, a session recovery removes unfinished      *)
(* outputs.                                                                *)
Writes == [preparation |-> {1}, resume |-> {1}, membership |-> {2}, input |-> {1},
           clipboard |-> {1}, recovery |-> {}, idle |-> {}]
New(o, p) == IF p \in Writes[kind[o]] THEN o ELSE Absent

(* A preparation has a receipt and a private directory per unit: here one, *)
(* and two for a membership change.                                        *)
Units(o) == IF kind[o] = "membership" THEN Paths ELSE {1}
PathsOf(o, u) == IF kind[o] \in {"input", "recovery"} THEN Paths ELSE {u}
InPlace(o) == kind[o] = "input"

(* The steps of the operations, in the order of their code.                *)
FileSteps == <<"allocate", "prepare", "publish", "moving", "commit",
               "discard", "rmdir", "release">>
PreparationOrder == <<"observe", "begin", "lock", "node">> \o FileSteps \o <<"finish">>
MembershipOrder == <<"observe", "begin", "lock", "node">> \o FileSteps \o <<"complete", "finish">>
ResumeOrder == <<"observe", "node", "begin", "lock">> \o FileSteps \o <<"finish">>
InputOrder == <<"node", "lock">> \o FileSteps \o <<"done">>
ClipboardOrder == <<"observe", "lock", "node", "begin">> \o FileSteps \o <<"done">>
RecoveryOrder == <<"observe", "node", "lock">> \o FileSteps \o <<"done">>

Order == [preparation |-> PreparationOrder, resume |-> ResumeOrder, membership |-> MembershipOrder,
          input |-> InputOrder, clipboard |-> ClipboardOrder, recovery |-> RecoveryOrder,
          idle |-> <<"done">>]
Follow(o) == LET s == Order[kind[o]]
             IN  s[1 + CHOOSE i \in DOMAIN s : s[i] = pc[o]]

Init ==
    /\ \E s \in Scenarios : kind = s.kind /\ crew = s.crew
    /\ pc = [o \in Ops |-> Head(Order[kind[o]])]
    /\ unit = [o \in Ops |-> 1]
    /\ status = [o \in Ops |-> "running"]
    /\ alive = [o \in Ops |-> TRUE]
    /\ visible = [p \in Paths |-> "orig"]
    /\ rows = visible
    /\ seen = [o \in Ops |-> rows]
    /\ saved = [o \in Ops |-> [p \in Paths |-> Absent]]
    /\ incoming = saved /\ recorded = saved
    /\ dir = [o \in Ops |-> {}]
    /\ receipt = [o \in Ops |-> [u \in Paths |-> "none"]]
    /\ attempt = [o \in Ops |-> "none"]
    /\ completed = [o \in Ops |-> FALSE]
    /\ guard = Nobody /\ nodelock = Nobody
    /\ oplock = [o \in Ops |-> Nobody]
    /\ rpc = [r \in Recoverers |-> "idle"]
    /\ plan = [r \in Recoverers |-> [op |-> Nobody, unit |-> 0, receipt |-> "none", attempt |-> "none"]]
    /\ troubles = 0 /\ wrote = FALSE

-----------------------------------------------------------------------------
(* Control of an owner.                                                    *)

Goto(o, to) == pc' = [pc EXCEPT ![o] = to] /\ UNCHANGED <<unit, status, alive, seen>>
Give(o, to, how) == /\ pc' = [pc EXCEPT ![o] = to]
                    /\ status' = [status EXCEPT ![o] = how]
                    /\ UNCHANGED <<unit, alive, seen>>
Fails(o) == Give(o, "failed", "failed")

Trouble == troubles < MaxTroubles /\ troubles' = troubles + 1
Fault == Trouble /\ UNCHANGED wrote
NoFault == UNCHANGED budget

(* The caller of a decision goes on, or the decision is applied and its    *)
(* answer lost: the caller drains the request and takes the error path.    *)
Decides(o, to, lost, how) ==
    \/ Goto(o, to) /\ NoFault
    \/ Give(o, lost, how) /\ Fault

-----------------------------------------------------------------------------
(* What transactions refuse.                                               *)

Prepared(o) == \E u \in Units(o) : receipt[o][u] = "prepared"
UnfinishedPreparation == \E o \in Ops : kind[o] \in Preparing /\ Prepared(o)
UnsettledInput == \E o \in Ops : kind[o] = "input" /\ Prepared(o)
Mutable == guard = Nobody /\ ~UnfinishedPreparation
Original(o, u) == \A p \in PathsOf(o, u) : visible[p] = recorded[o][p]
Resolved == \A o \in Ops : receipt[o][1] # "prepared" /\ (receipt[o][1] # "none" => dir[o] = {})

(* The rows an operation works on are still the ones it observed.          *)
ComponentUnchanged(o, u) == \A p \in PathsOf(o, u) : rows[p] = seen[o][p]
FootprintUnchanged(o) == \A p \in Paths : rows[p] = seen[o][p]
ResumeUnchanged(o) == rows[1] = seen[o][1]
NodeUnchanged(o) == rows[1] = seen[o][1]
SessionUnchanged(o) == \A p \in Paths : rows[p] = seen[o][p]

(* The published state a decision is taken on: the new files are visible   *)
(* and the originals private.                                              *)
InputPublished(o) ==
    \A p \in Paths : visible[p] = New(o, p) /\ incoming[o][p] = Absent /\ saved[o][p] = recorded[o][p]
ClipboardPublished(o) == visible[1] = o /\ incoming[o][1] = Absent /\ saved[o][1] = recorded[o][1]
OutputsStaged(o) == \A p \in Paths : visible[p] = Absent /\ saved[o][p] = recorded[o][p]
Published(o) == CASE kind[o] = "input"     -> InputPublished(o)
                  [] kind[o] = "clipboard" -> ClipboardPublished(o)
                  [] kind[o] = "recovery"  -> OutputsStaged(o)
                  [] OTHER -> TRUE

-----------------------------------------------------------------------------
(* Beginning an operation.                                                 *)

Observes(o, to) ==
    /\ pc[o] = "observe"
    /\ pc' = [pc EXCEPT ![o] = to]
    /\ seen' = [seen EXCEPT ![o] = rows]
    /\ UNCHANGED <<kind, crew, unit, status, alive, visible, saved, incoming, dir, db, locks, recovery, budget>>

ObserveComponents(o) ==
    kind[o] \in {"preparation", "membership"} /\ Observes(o, Follow(o)) /\ UNCHANGED recorded

ObserveResume(o) == kind[o] = "resume" /\ Observes(o, Follow(o)) /\ UNCHANGED recorded

ObserveNode(o) == kind[o] = "clipboard" /\ Observes(o, Follow(o)) /\ UNCHANGED recorded

(* A session with unfinished outputs; its files are recorded at once.      *)
ObserveSession(o) ==
    /\ kind[o] = "recovery"
    /\ Observes(o, IF rows[1] = Absent \/ ~Resolved THEN "done" ELSE Follow(o))
    /\ recorded' = [recorded EXCEPT ![o] = visible]

Lock(o) ==
    /\ pc[o] = "lock"
    /\ oplock[o] = Nobody
    /\ oplock' = [oplock EXCEPT ![o] = o]
    /\ Goto(o, Follow(o))
    /\ UNCHANGED <<kind, crew, visible, private, db, nodelock, recovery, budget>>

(* What is checked under the locks of the receiver, which are waited for.  *)
InputMayStart == ~UnsettledInput
ResumeMayStart(o) == ResumeUnchanged(o) /\ Mutable /\ ~UnsettledInput
ClipboardIdle(o) == NodeUnchanged(o) /\ ~UnsettledInput /\ Mutable
SessionMayStart(o) == Resolved /\ SessionUnchanged(o) /\ Original(o, 1)
NodeChecked(o) ==
    CASE kind[o] = "input"     -> InputMayStart
      [] kind[o] = "resume"    -> ResumeMayStart(o)
      [] kind[o] = "clipboard" -> ClipboardIdle(o)
      [] kind[o] = "recovery"  -> SessionMayStart(o)
      [] OTHER -> TRUE

LockNode(o) ==
    /\ pc[o] = "node"
    /\ nodelock = Nobody
    /\ nodelock' = o
    /\ IF NodeChecked(o) THEN Goto(o, Follow(o)) ELSE Give(o, "release", "failed")
    /\ recorded' = IF kind[o] = "clipboard" THEN [recorded EXCEPT ![o] = visible] ELSE recorded
    /\ UNCHANGED <<kind, crew, visible, saved, incoming, dir, db, oplock, recovery, budget>>

(* The session lock is not waited for.                                     *)
NodeBusy(o) ==
    /\ pc[o] = "node"
    /\ kind[o] = "recovery"
    /\ nodelock # Nobody
    /\ Goto(o, "done")
    /\ UNCHANGED <<kind, crew, visible, private, db, locks, recovery, budget>>

(* The attempt row and the receiver guards, in one transaction; a resume   *)
(* holds no guards.                                                        *)
Begins(o, may, row, guarded, lost, refused) ==
    /\ pc[o] = "begin"
    /\ \/ /\ may
          /\ attempt' = [attempt EXCEPT ![o] = row]
          /\ guard' = guarded
          /\ Decides(o, Follow(o), lost, "failed")
       \/ /\ ~may
          /\ Give(o, refused, "failed")
          /\ UNCHANGED <<attempt, guard>> /\ NoFault
    /\ UNCHANGED <<kind, crew, visible, private, receipt, completed, rows, locks, recovery>>

PreparationMayBegin(o) == Mutable /\ ~UnsettledInput /\ FootprintUnchanged(o)
ClipboardMayBegin(o) == Mutable /\ ~UnsettledInput /\ NodeUnchanged(o)

BeginPreparation(o) ==
    /\ kind[o] \in {"preparation", "membership"}
    /\ Begins(o, PreparationMayBegin(o), "preparing", o, "interrupt", "done")

BeginResume(o) ==
    /\ kind[o] = "resume"
    /\ Begins(o, ResumeMayStart(o), "preparing", guard, "interrupt", "release")

BeginClipboard(o) ==
    /\ kind[o] = "clipboard"
    /\ Begins(o, ClipboardMayBegin(o), "allocating", o, "failed", "release")

-----------------------------------------------------------------------------
(* The private directory, and the receipt that makes it known.             *)

OfUnit(o, old, new) == [p \in Paths |-> IF p \in PathsOf(o, unit[o]) THEN new[p] ELSE old[p]]

Allocates(o) ==
    /\ pc[o] = "allocate"
    /\ dir' = [dir EXCEPT ![o] = @ \cup {unit[o]}]
    /\ incoming' = [incoming EXCEPT ![o] = OfUnit(o, @, [p \in Paths |-> New(o, p)])]
    /\ UNCHANGED <<kind, crew, visible, db, locks, recovery, budget>>

AllocatePreparation(o) ==
    /\ kind[o] \in Preparing /\ Allocates(o)
    /\ recorded' = [recorded EXCEPT ![o] = OfUnit(o, @, visible)]
    /\ Goto(o, Follow(o)) /\ UNCHANGED saved

(* The originals of the inputs are copied.                                 *)
StageInput(o) ==
    /\ kind[o] = "input" /\ Allocates(o)
    /\ recorded' = [recorded EXCEPT ![o] = visible]
    /\ saved' = [saved EXCEPT ![o] = visible]
    /\ Goto(o, Follow(o))

AllocateClipboard(o) ==
    /\ kind[o] = "clipboard" /\ Allocates(o)
    /\ IF Original(o, 1) THEN Goto(o, Follow(o)) ELSE Give(o, "abandon", "failed")
    /\ UNCHANGED <<recorded, saved>>

AllocateRecovery(o) ==
    kind[o] = "recovery" /\ Allocates(o) /\ Goto(o, Follow(o)) /\ UNCHANGED <<recorded, saved>>

Prepares(o, may, next) ==
    /\ pc[o] = "prepare"
    /\ \/ may /\ receipt' = [receipt EXCEPT ![o][unit[o]] = "prepared"] /\ next
       \/ ~may /\ Fails(o) /\ NoFault /\ UNCHANGED <<receipt, attempt>>
    /\ UNCHANGED <<kind, crew, visible, private, completed, guard, rows, locks, recovery>>

PreparationStillValid(o) == guard = o /\ ComponentUnchanged(o, unit[o]) /\ ~UnfinishedPreparation

PreparePreparation(o) ==
    /\ kind[o] \in Preparing
    /\ Prepares(o, IF kind[o] = "resume" THEN ResumeMayStart(o) ELSE PreparationStillValid(o),
                UNCHANGED attempt /\ Decides(o, Follow(o), "failed", "failed"))

(* The publication that waited for its answer reads its receipt: it goes   *)
(* on, or takes the error path.                                            *)
PrepareInput(o) ==
    /\ kind[o] = "input"
    /\ Prepares(o, Mutable /\ ~UnsettledInput,
                /\ UNCHANGED attempt
                /\ Decides(o, Follow(o), "failed", "failed") \/ (Goto(o, Follow(o)) /\ Fault))

PrepareClipboard(o) ==
    /\ kind[o] = "clipboard"
    /\ Prepares(o, attempt[o] = "allocating" /\ NodeUnchanged(o) /\ Original(o, 1),
                /\ attempt' = [attempt EXCEPT ![o] = "prepared"]
                /\ Decides(o, Follow(o), "failed", "unsure"))

PrepareRecovery(o) ==
    /\ kind[o] = "recovery"
    /\ Prepares(o, SessionUnchanged(o), UNCHANGED attempt /\ Decides(o, Follow(o), "failed", "failed"))

-----------------------------------------------------------------------------
(* Publication: every original is checked, then the files move one by one. *)

Publish(o) ==
    /\ pc[o] = "publish"
    /\ IF Original(o, unit[o]) THEN Goto(o, Follow(o)) ELSE Fails(o)
    /\ UNCHANGED <<kind, crew, visible, private, db, locks, recovery, budget>>

ToDetach(o) == {p \in PathsOf(o, unit[o]) : ~InPlace(o) /\ recorded[o][p] # Absent /\ saved[o][p] = Absent}
ToReplace(o) == {p \in PathsOf(o, unit[o]) : InPlace(o) /\ visible[p] # New(o, p)}
ToAttach(o) == {p \in PathsOf(o, unit[o]) : ~InPlace(o) /\ incoming[o][p] # Absent}

Detach(o) ==
    /\ pc[o] = "moving" /\ ToDetach(o) # {}
    /\ LET p == Min(ToDetach(o))
       IN  IF visible[p] = recorded[o][p]
           THEN /\ saved' = [saved EXCEPT ![o][p] = visible[p]]
                /\ visible' = [visible EXCEPT ![p] = Absent]
                /\ UNCHANGED owner
           ELSE Fails(o) /\ UNCHANGED <<saved, visible>>
    /\ UNCHANGED <<kind, crew, incoming, recorded, dir, db, locks, recovery, budget>>

(* An outsider replaces the file between the check and the move: the move  *)
(* takes the file of the outsider.                                         *)
DetachRaced(o) ==
    /\ pc[o] = "moving" /\ ToDetach(o) # {} /\ kind[o] # "clipboard"
    /\ Trouble /\ wrote' = TRUE
    /\ LET p == Min(ToDetach(o))
       IN  /\ visible[p] = recorded[o][p]
           /\ saved' = [saved EXCEPT ![o][p] = "user"]
           /\ visible' = [visible EXCEPT ![p] = Absent]
    /\ UNCHANGED <<kind, crew, owner, incoming, recorded, dir, db, locks, recovery>>

(* An input is replaced, or deleted, in place.                             *)
Replace(o) ==
    /\ pc[o] = "moving" /\ ToReplace(o) # {}
    /\ LET p == Min(ToReplace(o))
       IN  IF visible[p] = recorded[o][p]
           THEN /\ visible' = [visible EXCEPT ![p] = New(o, p)]
                /\ incoming' = [incoming EXCEPT ![o][p] = Absent]
                /\ UNCHANGED owner
           ELSE Fails(o) /\ UNCHANGED <<incoming, visible>>
    /\ UNCHANGED <<kind, crew, saved, recorded, dir, db, locks, recovery, budget>>

(* A move never replaces a file that has appeared at its destination.      *)

Attach(o) ==
    /\ pc[o] = "moving" /\ ToDetach(o) = {} /\ ToAttach(o) # {}
    /\ LET p == Min(ToAttach(o))
       IN  IF visible[p] = Absent
           THEN /\ visible' = [visible EXCEPT ![p] = incoming[o][p]]
                /\ incoming' = [incoming EXCEPT ![o][p] = Absent]
                /\ UNCHANGED owner
           ELSE Fails(o) /\ UNCHANGED <<incoming, visible>>
    /\ UNCHANGED <<kind, crew, saved, recorded, dir, db, locks, recovery, budget>>

Moved(o) ==
    /\ pc[o] = "moving" /\ ToDetach(o) \cup ToReplace(o) \cup ToAttach(o) = {}
    /\ IF Published(o) THEN Goto(o, Follow(o)) ELSE Fails(o)
    /\ UNCHANGED <<kind, crew, visible, private, db, locks, recovery, budget>>

-----------------------------------------------------------------------------
(* The decision.                                                           *)

Commits(o, may) ==
    /\ pc[o] = "commit"
    /\ \/ /\ may /\ receipt[o][unit[o]] = "prepared"
          /\ receipt' = [receipt EXCEPT ![o][unit[o]] = "committed"]
          /\ rows' = OfUnit(o, rows, [p \in Paths |-> New(o, p)])
          /\ Decides(o, Follow(o), "failed", "failed")
       \/ ~may /\ Fails(o) /\ NoFault /\ UNCHANGED <<receipt, rows>>
    /\ UNCHANGED <<kind, crew, visible, private, completed, locks, recovery>>

CommitPreparation(o) ==
    /\ kind[o] \in {"preparation", "membership"}
    /\ Commits(o, guard = o /\ ComponentUnchanged(o, unit[o]))
    /\ UNCHANGED <<attempt, guard>>

CommitResume(o) ==
    kind[o] = "resume" /\ Commits(o, ResumeUnchanged(o)) /\ UNCHANGED <<attempt, guard>>

CommitInput(o) ==
    kind[o] = "input" /\ Commits(o, InputPublished(o) /\ Mutable) /\ UNCHANGED <<attempt, guard>>

ClipboardMayCommit(o) == attempt[o] = "prepared" /\ ClipboardPublished(o) /\ NodeUnchanged(o)
CommitClipboard(o) ==
    /\ kind[o] = "clipboard"
    /\ Commits(o, ClipboardMayCommit(o))
    /\ IF receipt' = receipt THEN UNCHANGED <<attempt, guard>>
       ELSE attempt' = [attempt EXCEPT ![o] = "committed"] /\ guard' = Nobody

CommitRecovery(o) ==
    kind[o] = "recovery" /\ Commits(o, OutputsStaged(o) /\ SessionUnchanged(o)) /\ UNCHANGED <<attempt, guard>>

(* Private material is removed only if it is what the manifest says; that  *)
(* of the clipboard is one tree, by the decision.                          *)
Remaining(content, known) == content \in {Absent, known}
PreparationDiscardable(o, u) ==
    Remaining(saved[o][u], recorded[o][u]) /\ Remaining(incoming[o][u], New(o, u))
InputDiscardable(o) ==
    \A p \in Paths : Remaining(saved[o][p], recorded[o][p]) /\ Remaining(incoming[o][p], New(o, p))
ClipboardDiscardable(o) ==
    IF receipt[o][1] = "committed" THEN incoming[o][1] = Absent /\ Remaining(saved[o][1], recorded[o][1])
                                   ELSE saved[o][1] = Absent /\ Remaining(incoming[o][1], o)
RecoveryDiscardable(o) == \A p \in Paths : Remaining(saved[o][p], recorded[o][p])
Discardable(o, u) ==
    CASE kind[o] \in Preparing   -> PreparationDiscardable(o, u)
      [] kind[o] = "input"       -> InputDiscardable(o)
      [] kind[o] = "clipboard"   -> ClipboardDiscardable(o)
      [] OTHER                   -> RecoveryDiscardable(o)

Remove(o, u) ==
    /\ saved' = [saved EXCEPT ![o] = [p \in Paths |-> IF p \in PathsOf(o, u) THEN Absent ELSE @[p]]]
    /\ incoming' = [incoming EXCEPT ![o] = [p \in Paths |-> IF p \in PathsOf(o, u) THEN Absent ELSE @[p]]]

Discard(o) ==
    /\ pc[o] = "discard"
    /\ IF Discardable(o, unit[o])
       THEN Remove(o, unit[o]) /\ Goto(o, "rmdir")
       ELSE Goto(o, "release") /\ UNCHANGED <<saved, incoming>>
    /\ UNCHANGED <<kind, crew, visible, recorded, dir, db, locks, recovery, budget>>

RemoveDirectory(o) ==
    /\ pc[o] = "rmdir"
    /\ dir' = [dir EXCEPT ![o] = @ \ {unit[o]}]
    /\ Goto(o, "release")
    /\ UNCHANGED <<kind, crew, visible, saved, incoming, recorded, db, locks, recovery, budget>>

-----------------------------------------------------------------------------
(* The error path: what is undone depends on the receipt.                  *)

(* A path is in a state the restoration recognises: untouched, detached or *)
(* replaced.                                                               *)
Untouched(o, p) == visible[p] = recorded[o][p] /\ saved[o][p] = Absent
Detached(o, p) == visible[p] = Absent /\ saved[o][p] = recorded[o][p]
Replaced(o, p) == visible[p] = New(o, p) /\ incoming[o][p] = Absent /\ saved[o][p] = recorded[o][p]

PreparationRestorable(o, p) == Untouched(o, p) \/ Detached(o, p) \/ Replaced(o, p)
ClipboardRestorable(o) == Untouched(o, 1) \/ Detached(o, 1) \/ Replaced(o, 1)
RecoveryRestorable(o, p) == Untouched(o, p) \/ Detached(o, p)
InputRestorable(o, p) == visible[p] \in {recorded[o][p], New(o, p)} /\ saved[o][p] = recorded[o][p]
RestorableAt(o, p) == CASE kind[o] \in Preparing -> PreparationRestorable(o, p)
                        [] kind[o] = "input"     -> InputRestorable(o, p)
                        [] kind[o] = "clipboard" -> ClipboardRestorable(o)
                        [] OTHER                 -> RecoveryRestorable(o, p)
Restorable(o, u) == \A p \in PathsOf(o, u) : RestorableAt(o, p)
ToRestore(o, u) == {p \in PathsOf(o, u) : visible[p] # recorded[o][p] \/ (~InPlace(o) /\ saved[o][p] # Absent)}

(* One move of a restoration, the last path first: an input is written     *)
(* back, a replacement is moved out, an original is moved home.            *)
RestoreInput(o, p) ==
    visible' = [visible EXCEPT ![p] = saved[o][p]] /\ UNCHANGED <<saved, incoming>>

MoveOut(o, p) ==
    /\ incoming' = [incoming EXCEPT ![o][p] = visible[p]]
    /\ visible' = [visible EXCEPT ![p] = Absent]
    /\ UNCHANGED saved

MoveHome(o, p) ==
    /\ visible' = [visible EXCEPT ![p] = saved[o][p]]
    /\ saved' = [saved EXCEPT ![o][p] = Absent]
    /\ UNCHANGED incoming

RestorePreparation(o, p) == IF visible[p] # Absent THEN MoveOut(o, p) ELSE MoveHome(o, p)
RestoreClipboard(o) == IF visible[1] # Absent THEN MoveOut(o, 1) ELSE MoveHome(o, 1)
RestoreRecovery(o, p) == MoveHome(o, p)
Restore(o, p) == CASE kind[o] \in Preparing -> RestorePreparation(o, p)
                   [] kind[o] = "input"     -> RestoreInput(o, p)
                   [] kind[o] = "clipboard" -> RestoreClipboard(o)
                   [] OTHER                 -> RestoreRecovery(o, p)

Undo(o) == IF unit[o] \in dir[o] /\ Restorable(o, unit[o]) THEN "restoring" ELSE "release"

(* The receipt is read: after a commit only private material is removed.   *)
PreparationUndo(o) == IF receipt[o][unit[o]] = "committed" THEN "discard" ELSE Undo(o)
BugGuessesDecision(o) == Undo(o)
InputUndo(o) == IF receipt[o][1] = "committed" THEN "release" ELSE Undo(o)
ClipboardUndo(o) == CASE receipt[o][1] = "committed" -> IF ClipboardPublished(o) THEN "discard" ELSE "release"
                      [] dir[o] = {} -> "abandon"
                      [] OTHER -> Undo(o)
RecoveryUndo(o) == IF receipt[o][1] = "committed" THEN "discard" ELSE Undo(o)

ReadDecision(o) ==
    /\ pc[o] = "failed"
    /\ Goto(o, CASE kind[o] \in Preparing -> PreparationUndo(o)
                 [] kind[o] = "input"     -> InputUndo(o)
                 [] kind[o] = "clipboard" -> ClipboardUndo(o)
                 [] OTHER                 -> RecoveryUndo(o))
    /\ UNCHANGED <<kind, crew, visible, private, db, locks, recovery, budget>>

RestoreOwn(o) ==
    /\ pc[o] = "restoring"
    /\ LET todo == ToRestore(o, unit[o])
       IN  IF todo = {}
           THEN /\ Goto(o, IF kind[o] = "clipboard" \/ receipt[o][unit[o]] = "prepared" THEN "abort" ELSE "discard")
                /\ UNCHANGED <<visible, saved, incoming>>
           ELSE IF RestorableAt(o, Max(todo)) THEN Restore(o, Max(todo)) /\ UNCHANGED owner
           ELSE Goto(o, "release") /\ UNCHANGED <<visible, saved, incoming>>
    /\ UNCHANGED <<kind, crew, recorded, dir, db, locks, recovery, budget>>

Aborts(o, may) ==
    /\ pc[o] = "abort"
    /\ \/ /\ may
          /\ receipt' = [receipt EXCEPT ![o][unit[o]] = "aborted"]
          /\ Decides(o, "discard", "release", status[o])
       \/ ~may /\ Goto(o, "release") /\ NoFault /\ UNCHANGED receipt
    /\ UNCHANGED <<kind, crew, visible, private, completed, rows, locks, recovery>>

AbortPreparation(o) ==
    kind[o] \in Preparing /\ Aborts(o, Original(o, unit[o])) /\ UNCHANGED <<attempt, guard>>

AbortInput(o) == kind[o] = "input" /\ Aborts(o, Original(o, 1)) /\ UNCHANGED <<attempt, guard>>

AbortRecovery(o) == kind[o] = "recovery" /\ Aborts(o, Original(o, 1)) /\ UNCHANGED <<attempt, guard>>

(* The abort of the clipboard also ends its attempt, which must be the one *)
(* its owner knows: not so when the answer of the prepared row was lost.   *)
AbortClipboard(o) ==
    /\ kind[o] = "clipboard"
    /\ Aborts(o, Original(o, 1) /\ status[o] # "unsure")
    /\ IF receipt' = receipt THEN UNCHANGED <<attempt, guard>>
       ELSE attempt' = [attempt EXCEPT ![o] = "aborted"] /\ guard' = Nobody

(* A clipboard operation that never had its files ends without restoring.  *)
Abandon(o) ==
    /\ pc[o] = "abandon"
    /\ IF attempt[o] = "none" THEN UNCHANGED <<receipt, attempt, guard>>
       ELSE /\ receipt' = [receipt EXCEPT ![o][1] = "aborted"]
            /\ attempt' = [attempt EXCEPT ![o] = "aborted"]
            /\ guard' = Nobody
    /\ Goto(o, "release")
    /\ UNCHANGED <<kind, crew, visible, private, completed, rows, locks, recovery, budget>>

-----------------------------------------------------------------------------
(* Ending an operation.                                                    *)

Free(lock, who) == IF lock = who THEN Nobody ELSE lock

Release(o) ==
    /\ pc[o] = "release" /\ kind[o] \in {"input", "clipboard", "recovery"}
    /\ nodelock' = Free(nodelock, o)
    /\ oplock' = [oplock EXCEPT ![o] = Free(@, o)]
    /\ Goto(o, "done")
    /\ UNCHANGED <<kind, crew, visible, private, db, recovery, budget>>

(* The next unit of a preparation, or its end.                             *)
ReleaseUnit(o) ==
    /\ pc[o] = "release" /\ kind[o] \in {"preparation", "membership"}
    /\ nodelock' = Free(nodelock, o)
    /\ IF status[o] = "running" /\ unit[o] + 1 \in Units(o)
       THEN unit' = [unit EXCEPT ![o] = @ + 1] /\ pc' = [pc EXCEPT ![o] = "node"]
       ELSE /\ pc' = [pc EXCEPT ![o] = IF status[o] = "running" THEN Follow(o) ELSE "finish"]
            /\ UNCHANGED unit
    /\ UNCHANGED <<kind, crew, status, alive, seen, visible, private, db, oplock, recovery, budget>>

(* A resume ends its attempt before it gives the receiver back.            *)
LeaveResume(o) ==
    /\ pc[o] = "release" /\ kind[o] = "resume"
    /\ IF attempt[o] = "none" THEN nodelock' = Free(nodelock, o) /\ Goto(o, "done")
                              ELSE Goto(o, "finish") /\ UNCHANGED nodelock
    /\ UNCHANGED <<kind, crew, visible, private, db, oplock, recovery, budget>>

AllCommitted(o) == \A u \in Units(o) : receipt[o][u] = "committed"

(* The membership revision is completed once every unit has committed.     *)
Complete(o) ==
    /\ pc[o] = "complete"
    /\ AllCommitted(o) /\ guard = o
    /\ completed' = [completed EXCEPT ![o] = TRUE]
    /\ Decides(o, Follow(o), "finish", "failed")
    /\ UNCHANGED <<kind, crew, visible, private, receipt, attempt, guard, rows, locks, recovery>>

Outcome(o) ==
    CASE Prepared(o) -> "interrupted"
      [] AllCommitted(o) /\ (kind[o] = "membership" => completed[o]) -> "committed"
      [] OTHER -> "aborted"

Finish(o) ==
    /\ pc[o] = "finish"
    /\ attempt' = [attempt EXCEPT ![o] = Outcome(o)]
    /\ guard' = IF Outcome(o) # "interrupted" /\ guard = o THEN Nobody ELSE guard
    /\ oplock' = [oplock EXCEPT ![o] = Nobody]
    /\ nodelock' = Free(nodelock, o)
    /\ Goto(o, "done")
    /\ UNCHANGED <<kind, crew, visible, private, receipt, completed, rows, recovery, budget>>

(* An attempt that could not be finished is marked for a recovery.         *)
Interrupt(o) ==
    /\ pc[o] = "interrupt"
    /\ attempt' = [attempt EXCEPT ![o] = IF @ = "preparing" THEN "interrupted" ELSE @]
    /\ nodelock' = Free(nodelock, o)
    /\ Goto(o, "done")
    /\ UNCHANGED <<kind, crew, visible, private, receipt, completed, guard, rows, oplock, recovery, budget>>

(* Where the error of a step leads when the step had no effect.            *)
ErrorPath(o) ==
    CASE pc[o] = "begin"    -> CASE kind[o] = "clipboard" -> "abandon"
                                 [] kind[o] = "resume"    -> "release"
                                 [] OTHER                 -> "done"
      [] pc[o] = "allocate" -> IF kind[o] = "clipboard" THEN "abandon" ELSE "release"
      [] pc[o] \in {"prepare", "moving", "commit"} -> "failed"
      [] pc[o] = "complete" -> "finish"
      [] pc[o] = "finish"   -> "interrupt"
      [] OTHER -> "release"

Fail(o) ==
    /\ pc[o] \in {"begin", "allocate", "prepare", "moving", "commit", "complete", "finish", "failed",
                  "restoring", "abort", "abandon", "discard", "rmdir"}
    /\ Fault
    /\ Give(o, ErrorPath(o), IF status[o] = "running" THEN "failed" ELSE status[o])
    /\ oplock' = IF pc[o] = "finish" THEN [oplock EXCEPT ![o] = Nobody] ELSE oplock
    /\ UNCHANGED <<kind, crew, visible, private, db, nodelock, recovery>>

(* Somebody outside the framework writes a file of the node.               *)
OutsideWrite(p) ==
    /\ Trouble /\ wrote' = TRUE
    /\ visible' = [visible EXCEPT ![p] = "user"]
    /\ UNCHANGED <<kind, crew, owner, private, db, locks, recovery>>

-----------------------------------------------------------------------------
(* Recovery: rows are observed without locks, and replayed under them.     *)

(* An owner that still exists keeps its preparation and its publication.   *)
PreparationActive(o) == attempt[o] = "preparing" /\ alive[o]
InputActive(o) == alive[o]
Active(o) == CASE kind[o] \in Preparing -> PreparationActive(o)
               [] kind[o] = "input" -> InputActive(o)
               [] OTHER -> FALSE

Row(o, u) == [op |-> o, unit |-> u, receipt |-> IF u = 0 THEN "none" ELSE receipt[o][u],
              attempt |-> <<attempt[o], completed[o], guard = o>>]

(* The rows that need a recovery: a prepared receipt, a decided one whose  *)
(* private files are still there, an attempt without prepared receipts     *)
(* (unit 0), and an allocation that was never prepared.                    *)
Leftover(o, u) == receipt[o][u] = "prepared" \/ (receipt[o][u] # "none" /\ u \in dir[o])

BugReceiptsOnly(o, u) == u # 0 /\ Leftover(o, u)

PendingPreparation(o, u) ==
    IF u = 0 THEN attempt[o] \in {"preparing", "interrupted"} /\ ~Prepared(o) ELSE Leftover(o, u)
PendingInput(o, u) == u # 0 /\ Leftover(o, u)
PendingClipboard(o, u) == u # 0 /\ (Leftover(o, u) \/ attempt[o] = "allocating")
PendingSession(o, u) == u # 0 /\ Leftover(o, u)
Pending(o, u) == CASE kind[o] \in Preparing -> PendingPreparation(o, u)
                   [] kind[o] = "input"     -> PendingInput(o, u)
                   [] kind[o] = "clipboard" -> PendingClipboard(o, u)
                   [] OTHER                 -> PendingSession(o, u)

(* The process dies: the operating system gives its locks back.  The exit  *)
(* of a process matters where it left something that waits for the exit.   *)
Gone(o) ==
    /\ alive' = [alive EXCEPT ![o] = FALSE]
    /\ pc' = [pc EXCEPT ![o] = "done"]
    /\ nodelock' = Free(nodelock, o)
    /\ oplock' = [oplock EXCEPT ![o] = Free(@, o)]
    /\ UNCHANGED <<kind, crew, unit, status, seen, visible, private, db, recovery, wrote>>

Crash(o) == alive[o] /\ pc[o] # "done" /\ Trouble /\ Gone(o)
Exit(o) == /\ alive[o] /\ pc[o] = "done" /\ \E u \in Units(o) \cup {0} : Pending(o, u) /\ Active(o)
           /\ UNCHANGED troubles /\ Gone(o)

Undecided(row) == row.unit = 0 \/ row.receipt \in {"none", "prepared"}

ObservePlan(r, o, u) ==
    /\ r \in crew /\ rpc[r] = "idle"
    /\ u \in Units(o) \cup {0} /\ Pending(o, u)
    /\ Undecided(Row(o, u)) => ~Active(o)
    /\ rpc' = [rpc EXCEPT ![r] = "observed"]
    /\ plan' = [plan EXCEPT ![r] = Row(o, u)]
    /\ UNCHANGED <<kind, crew, owner, visible, private, db, locks, budget>>

(* The row is unchanged under the locks, its owner has not become active   *)
(* again, and what must be undone can be.                                  *)
SameRow(row) == IF Undecided(row) THEN Row(row.op, row.unit) = row
                                  ELSE receipt[row.op][row.unit] = row.receipt
CleanupCurrent(row) ==
    /\ SameRow(row)
    /\ Undecided(row) => ~Active(row.op)
    /\ row.receipt = "prepared" => Restorable(row.op, row.unit)
ClipboardCurrent(row) ==
    SameRow(row) /\ (row.receipt = "prepared" => Restorable(row.op, 1) /\ NodeUnchanged(row.op))
SessionCurrent(row) ==
    SameRow(row) /\ (row.receipt = "prepared" => Restorable(row.op, 1) /\ SessionUnchanged(row.op))

(* An allocation that was never prepared must be as it was installed.      *)
Installed(o) == Original(o, 1) /\ incoming[o][1] = New(o, 1) /\ saved[o][1] = Absent

BugClearsFirst(row) == IF row.unit = 0 THEN "finish" ELSE "clear"
CleanupStep(row) == CASE row.unit = 0 -> "finish"
                      [] row.receipt = "prepared" -> "restore"
                      [] OTHER -> "clear"
ClipboardStep(row) == CASE row.receipt = "none" -> IF 1 \in dir[row.op] THEN "clear" ELSE "finish"
                        [] row.receipt = "prepared" -> "restore"
                        [] OTHER -> "clear"
SessionStep(row) == IF row.receipt = "prepared" THEN "restore" ELSE "clear"

(* Neither lock is waited for.                                             *)
BugNoOperationLock(r, current, step) ==
    /\ IF nodelock = Nobody /\ current
       THEN nodelock' = r /\ rpc' = [rpc EXCEPT ![r] = step]
       ELSE rpc' = [rpc EXCEPT ![r] = "idle"] /\ UNCHANGED nodelock
    /\ UNCHANGED <<kind, crew, owner, visible, private, db, oplock, plan, budget>>

TakeLocks(r, current, step) ==
    /\ IF oplock[plan[r].op] = Nobody /\ nodelock = Nobody /\ current
       THEN /\ oplock' = [oplock EXCEPT ![plan[r].op] = r]
            /\ nodelock' = r
            /\ rpc' = [rpc EXCEPT ![r] = step]
       ELSE rpc' = [rpc EXCEPT ![r] = "idle"] /\ UNCHANGED locks
    /\ UNCHANGED <<kind, crew, owner, visible, private, db, plan, budget>>

Cleanup(r) == kind[plan[r].op] \in Preparing \cup {"input"}
RecoverCleanup(r) ==
    /\ rpc[r] = "observed" /\ Cleanup(r)
    /\ TakeLocks(r, CleanupCurrent(plan[r]), CleanupStep(plan[r]))
RecoverClipboard(r) ==
    /\ rpc[r] = "observed" /\ kind[plan[r].op] = "clipboard"
    /\ TakeLocks(r, ClipboardCurrent(plan[r]), ClipboardStep(plan[r]))
RecoverReceipt(r) ==
    /\ rpc[r] = "observed" /\ kind[plan[r].op] = "recovery"
    /\ TakeLocks(r, SessionCurrent(plan[r]), SessionStep(plan[r]))

RestorePlan(r) ==
    LET row == plan[r]
        todo == ToRestore(row.op, row.unit) IN
    /\ rpc[r] = "restore"
    /\ IF todo = {} \/ ~RestorableAt(row.op, Max(todo))
       THEN /\ rpc' = [rpc EXCEPT ![r] = IF todo = {} THEN "finish" ELSE "end"]
            /\ UNCHANGED <<visible, saved, incoming>>
       ELSE Restore(row.op, Max(todo)) /\ UNCHANGED rpc
    /\ UNCHANGED <<kind, crew, owner, recorded, dir, db, locks, plan, budget>>

(* The transaction that ends the operation: the originals are back, and    *)
(* the attempt is retired with its last unfinished receipt.                *)
Ends(r, may, done) ==
    /\ rpc[r] = "finish"
    /\ IF may THEN /\ receipt' = [receipt EXCEPT ![plan[r].op] = done]
                   /\ rpc' = [rpc EXCEPT ![r] = IF plan[r].receipt = "prepared" THEN "clear" ELSE "end"]
              ELSE rpc' = [rpc EXCEPT ![r] = "end"] /\ UNCHANGED receipt
    /\ UNCHANGED <<kind, crew, owner, visible, private, completed, rows, locks, plan, budget>>

Retires(o, done) ==
    LET whole == completed[o] \/ kind[o] # "membership" IN
    /\ attempt' = [attempt EXCEPT ![o] = IF whole /\ \A v \in Units(o) : done[v] = "committed"
                                         THEN "committed" ELSE "aborted"]
    /\ guard' = Free(guard, o)

FinishCleanup(r) ==
    LET o == plan[r].op
        u == plan[r].unit
        may == CleanupCurrent(plan[r]) /\ (u # 0 => Original(o, u))
        done == IF u = 0 THEN receipt[o] ELSE [receipt[o] EXCEPT ![u] = "aborted"] IN
    /\ rpc[r] = "finish" /\ Cleanup(r)
    /\ Ends(r, may, done)
    /\ IF may /\ kind[o] # "input" /\ \A v \in Units(o) : done[v] # "prepared"
       THEN Retires(o, done) ELSE UNCHANGED <<attempt, guard>>

FinishAllocating(r) ==
    LET o == plan[r].op
        done == [receipt[o] EXCEPT ![1] = "aborted"] IN
    /\ rpc[r] = "finish" /\ kind[plan[r].op] = "clipboard" /\ plan[r].receipt = "none"
    /\ Ends(r, ClipboardCurrent(plan[r]), done)
    /\ IF ClipboardCurrent(plan[r]) THEN Retires(o, done) ELSE UNCHANGED <<attempt, guard>>

FinishPrepared(r) ==
    LET o == plan[r].op
        may == ClipboardCurrent(plan[r]) /\ Original(o, 1)
        done == [receipt[o] EXCEPT ![1] = "aborted"] IN
    /\ rpc[r] = "finish" /\ kind[plan[r].op] = "clipboard" /\ plan[r].receipt = "prepared"
    /\ Ends(r, may, done)
    /\ IF may THEN Retires(o, done) ELSE UNCHANGED <<attempt, guard>>

FinishReceipt(r) ==
    /\ rpc[r] = "finish" /\ kind[plan[r].op] = "recovery"
    /\ Ends(r, SessionCurrent(plan[r]) /\ Original(plan[r].op, 1), [receipt[plan[r].op] EXCEPT ![1] = "aborted"])
    /\ UNCHANGED <<attempt, guard>>

ClearPlan(r) ==
    LET o == plan[r].op
        u == plan[r].unit IN
    /\ rpc[r] = "clear"
    /\ IF Discardable(o, u) /\ (plan[r].receipt = "none" => Installed(o))
       THEN Remove(o, u) /\ rpc' = [rpc EXCEPT ![r] = "rmdir"]
       ELSE rpc' = [rpc EXCEPT ![r] = "end"] /\ UNCHANGED <<saved, incoming>>
    /\ UNCHANGED <<kind, crew, owner, visible, recorded, dir, db, locks, plan, budget>>

RemovePlanDirectory(r) ==
    /\ rpc[r] = "rmdir"
    /\ dir' = [dir EXCEPT ![plan[r].op] = @ \ {plan[r].unit}]
    /\ rpc' = [rpc EXCEPT ![r] = IF plan[r].receipt = "none" THEN "finish" ELSE "end"]
    /\ UNCHANGED <<kind, crew, owner, visible, saved, incoming, recorded, db, locks, plan, budget>>

Leaves(r) ==
    /\ rpc' = [rpc EXCEPT ![r] = "idle"]
    /\ nodelock' = Free(nodelock, r)
    /\ oplock' = [o \in Ops |-> Free(oplock[o], r)]
    /\ UNCHANGED <<kind, crew, owner, visible, private, db, plan, wrote>>

EndPlan(r) == rpc[r] = "end" /\ UNCHANGED troubles /\ Leaves(r)
RecoveryDies(r) == rpc[r] \notin {"idle", "end"} /\ Trouble /\ Leaves(r)

-----------------------------------------------------------------------------
OwnerStep(o) ==
    \/ ObserveComponents(o) \/ ObserveResume(o) \/ ObserveNode(o) \/ ObserveSession(o)
    \/ Lock(o) \/ LockNode(o) \/ NodeBusy(o)
    \/ BeginPreparation(o) \/ BeginResume(o) \/ BeginClipboard(o)
    \/ AllocatePreparation(o) \/ StageInput(o) \/ AllocateClipboard(o) \/ AllocateRecovery(o)
    \/ PreparePreparation(o) \/ PrepareInput(o) \/ PrepareClipboard(o) \/ PrepareRecovery(o)
    \/ Publish(o) \/ Detach(o) \/ Replace(o) \/ Attach(o) \/ Moved(o)
    \/ CommitPreparation(o) \/ CommitResume(o) \/ CommitInput(o) \/ CommitClipboard(o) \/ CommitRecovery(o)
    \/ Discard(o) \/ RemoveDirectory(o)
    \/ ReadDecision(o) \/ RestoreOwn(o)
    \/ AbortPreparation(o) \/ AbortInput(o) \/ AbortRecovery(o) \/ AbortClipboard(o) \/ Abandon(o)
    \/ Release(o) \/ ReleaseUnit(o) \/ LeaveResume(o) \/ Complete(o) \/ Finish(o) \/ Interrupt(o)
    \/ Exit(o)

RecoveryStep(r) ==
    \/ RecoverCleanup(r) \/ RecoverClipboard(r) \/ RecoverReceipt(r)
    \/ RestorePlan(r)
    \/ FinishCleanup(r) \/ FinishAllocating(r) \/ FinishPrepared(r) \/ FinishReceipt(r)
    \/ ClearPlan(r) \/ RemovePlanDirectory(r) \/ EndPlan(r)

Next ==
    \/ \E o \in Ops : OwnerStep(o) \/ DetachRaced(o) \/ Fail(o) \/ Crash(o)
    \/ \E r \in Recoverers : \/ RecoveryStep(r) \/ RecoveryDies(r)
                             \/ \E o \in Ops, u \in Paths \cup {0} : ObservePlan(r, o, u)
    \/ \E p \in Paths : OutsideWrite(p)

Spec == Init /\ [][Next]_vars

(* Processes run until they end, and `mwf recover' is run until nothing is *)
(* reported: every operation it can act on is observed again and again.    *)
Fairness ==
    /\ \A o \in Ops : WF_vars(OwnerStep(o))
    /\ \A r \in Recoverers : WF_vars(RecoveryStep(r))
    /\ \A o \in Ops : SF_vars(\E r \in Recoverers, u \in Paths \cup {0} : ObservePlan(r, o, u))

FairSpec == Spec /\ Fairness

-----------------------------------------------------------------------------
(* Properties.                                                             *)

(* Files and rows agree wherever no receipt is prepared: a decision is     *)
(* taken only on published files, an abort only on restored ones, and no   *)
(* operation starts on top of the unfinished files of another.             *)
FilesMatchRows ==
    ~wrote =>
        \A p \in Paths :
            (\A o \in Ops : \A u \in Units(o) : p \in PathsOf(o, u) => receipt[o][u] # "prepared")
                => visible[p] = rows[p]

(* Until its decision an operation can be undone: the rows still say what  *)
(* its manifest recorded, and that file is at its place or saved.          *)
Undoable ==
    ~wrote =>
        \A o \in Ops : \A u \in Units(o) : receipt[o][u] = "prepared" =>
            \A p \in PathsOf(o, u) : /\ rows[p] = recorded[o][p]
                                     /\ recorded[o][p] \in {visible[p], saved[o][p]}

(* The file of an outsider is never destroyed, by an owner, its error path *)
(* or a recovery, unless an operation recorded it as an original and       *)
(* committed.  Managed inputs are replaced in place and are left out.      *)
OutsiderKeepsFile ==
    wrote /\ (\A o \in Ops : ~InPlace(o)) =>
        \/ \E p \in Paths : visible[p] = "user"
        \/ \E o \in Ops, p \in Paths : "user" \in {saved[o][p], incoming[o][p]}
        \/ \E o \in Ops : \E u \in Units(o) : \E p \in PathsOf(o, u) :
                receipt[o][u] = "committed" /\ recorded[o][p] = "user"

(* A recovery works on the files of an operation only when its owner has   *)
(* left them, although it observed the rows before it took a lock.         *)
OwnerUndisturbed ==
    \A r \in Recoverers : rpc[r] \in {"restore", "finish", "clear", "rmdir"} => pc[plan[r].op] \in {"done", "interrupt"}

(* Nobody works on the files of others: outsiders keep theirs, and live    *)
(* owners are left alone.                                                  *)
OthersUndisturbed == OutsiderKeepsFile /\ OwnerUndisturbed

Settled(o) == /\ ~Prepared(o) /\ guard # o
              /\ \A u \in Units(o) : receipt[o][u] # "none" => u \notin dir[o]

(* A recovery of an allocation that was never prepared died between the    *)
(* removal of the private tree and that of its directory.                  *)
HalfCleared(o) == attempt[o] = "allocating" /\ dir[o] # {} /\ incoming[o][1] = Absent

(* Whatever died or failed, every operation ends decided, its receiver is  *)
(* free again and its recorded private files are gone, unless an outsider  *)
(* changed the files or an allocation was half cleared.                    *)
RecoverySettles == \A o \in Ops : []<>(Settled(o) \/ wrote \/ HalfCleared(o))
=============================================================================
