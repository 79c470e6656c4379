--------------------------- MODULE MutationWriter ---------------------------
(***************************************************************************)
(* SQLiteMutationWriter (storage/sqlite/mutation_writer.py): the one lane  *)
(* through which every thread of a process changes the project database,   *)
(* with the submission gate of storage/sqlite/connection.py.               *)
(*                                                                         *)
(* Submitting threads take a serial and put their request in a priority    *)
(* queue; a daemon thread, started on demand and retired when the queue is *)
(* empty, collects batches of one priority, runs each in a transaction,    *)
(* resolves the futures and advances the durability watermark that         *)
(* barriers wait for.  A step here is what one thread does under _guard,   *)
(* the queue mutex or the transaction.  Retired threads may still be in    *)
(* their finally block when the next one runs.                             *)
(*                                                                         *)
(* An operator named Bug... is not part of the specification: it is the    *)
(* definition after it with a plausible mistake, for mutation runs.        *)
(***************************************************************************)
EXTENDS Integers, Sequences, FiniteSets

CONSTANTS
    Requests,     \* mutations, each submitted once
    Priority,     \* [Requests -> Nat], smaller is more urgent
    Weight,       \* [Requests -> Nat], database rows of the request
    Group,        \* [Requests -> group keys], NoGroup for a single mutation
    Droppable,    \* requests whose callers hold a future and may drop it
    NoGroup,
    Callers,      \* threads that call barrier
    Closers,      \* the callers that are close_database_connections
    Writers,      \* writer threads that can exist at once, retiring ones included
    Nobody,       \* Python None
    MaxBatch,     \* requests in one transaction (max_batch and the slice limits)
    SliceRows,    \* rows in one transaction, urgent and background slices
    ClaimRows,    \* rows in one transaction, ordinary priorities
    HeapMargin    \* stale heap entries tolerated before a rebuild

ASSUME WriterAssumption ==
    /\ Priority \in [Requests -> Nat] /\ Weight \in [Requests -> Nat \ {0}]
    /\ Droppable \subseteq Requests /\ Closers \subseteq Callers /\ Requests \cap Callers = {}
    /\ Nobody \notin Requests \cup Callers \cup Writers
    /\ MaxBatch \in Nat \ {0} /\ SliceRows \in Nat /\ ClaimRows \in Nat /\ HeapMargin \in Nat

VARIABLES
    gate,     \* holder of _storage_close_guard
    serial,   \* _serial
    number,   \* the serial of every request, 0 before it has one
    queue,    \* requests in the PriorityQueue
    pending,  \* _pending_serials
    heap,     \* _pending_serial_heap, which may hold stale serials
    through,  \* _completed_through
    thread,   \* _thread
    pc,       \* place of every writer thread in _run
    batch,    \* the batch a writer thread has collected
    rows,     \* its weight (batch_weight)
    outcome,  \* what the transaction decided for every request
    stamp,    \* when the effect of a request was applied
    txns,     \* transactions committed so far
    future,   \* the future of every request
    bar,      \* calls of barrier
    urgent    \* _urgent_pending, read by the API runner as admission pressure

submitVars == <<gate, serial, number, urgent>>
watermarkVars == <<pending, heap, through>>
writerVars == <<thread, pc, batch, rows>>
databaseVars == <<outcome, stamp, txns>>
vars == <<submitVars, queue, watermarkVars, writerVars, databaseVars, future, bar>>

Loop == {"get", "collect", "execute", "resolve", "record", "refresh", "clear", "recheck"}
NoStamp == [txn |-> 0, unit |-> 0, item |-> 0]
Stamps == [txn : Nat, unit : Nat, item : Nat]

TypeOK ==
    /\ gate \in Requests \cup Closers \cup {Nobody}
    /\ serial \in Nat /\ number \in [Requests -> 0 .. serial]
    /\ queue \subseteq Requests
    /\ pending \subseteq 1 .. serial /\ heap \subseteq 1 .. serial /\ through \in 0 .. serial
    /\ thread \in Writers \cup {Nobody}
    /\ pc \in [Writers -> Loop \cup {"closing", "ended"}]
    /\ batch \in [Writers -> Seq(Requests)] /\ rows \in [Writers -> Nat]
    /\ outcome \in [Requests -> {"none", "ok", "error"}]
    /\ stamp \in [Requests -> Stamps] /\ txns \in Nat
    /\ future \in [Requests -> {"pending", "ok", "error", "cancelled"}]
    /\ bar \in [Callers -> [pc : {"idle", "waiting", "returned"}, target : Nat]]
    /\ urgent \in BOOLEAN

Init ==
    /\ gate = Nobody /\ serial = 0 /\ number = [r \in Requests |-> 0]
    /\ queue = {} /\ pending = {} /\ heap = {} /\ through = 0
    /\ thread = Nobody /\ pc = [w \in Writers |-> "ended"]
    /\ batch = [w \in Writers |-> <<>>] /\ rows = [w \in Writers |-> 0]
    /\ outcome = [r \in Requests |-> "none"] /\ stamp = [r \in Requests |-> NoStamp]
    /\ txns = 0 /\ future = [r \in Requests |-> "pending"]
    /\ bar = [c \in Callers |-> [pc |-> "idle", target |-> 0]] /\ urgent = FALSE

(***************************************************************************)
(* Submitting threads: submit_db_mutation and submit_grouped_db_mutation   *)
(* hold the gate over _new_request and _enqueue, which sets the urgent     *)
(* flag before it takes _guard.                                            *)
(***************************************************************************)
IsUrgent(r) == Priority[r] <= 5

GateFree(x) == gate = Nobody

NewRequest(r) ==
    /\ GateFree(r) /\ number[r] = 0
    /\ gate' = r /\ serial' = serial + 1
    /\ number' = [number EXCEPT ![r] = serial + 1]
    /\ pending' = pending \cup {serial + 1} /\ heap' = heap \cup {serial + 1}
    /\ urgent' = (urgent \/ IsUrgent(r))
    /\ UNCHANGED <<queue, through, writerVars, databaseVars, future, bar>>

(* _enqueue; it starts a writer thread unless one is alive. *)
Enqueue(r) ==
    /\ gate = r /\ gate' = Nobody
    /\ queue' = queue \cup {r}
    /\ IF thread # Nobody /\ pc[thread] # "ended"
       THEN UNCHANGED <<thread, pc>>
       ELSE \E w \in Writers : /\ pc[w] = "ended"
                               /\ thread' = w /\ pc' = [pc EXCEPT ![w] = "get"]
    /\ UNCHANGED <<serial, number, urgent, watermarkVars, batch, rows, databaseVars, future, bar>>

(* A caller that did not wait drops its future (Future.cancel). *)
CancelFuture(r) ==
    /\ r \in Droppable /\ number[r] # 0 /\ future[r] = "pending"
    /\ future' = [future EXCEPT ![r] = "cancelled"]
    /\ UNCHANGED <<submitVars, queue, watermarkVars, writerVars, databaseVars, bar>>

(* barrier, and close_database_connections, which holds the gate over it. *)
BarrierStart(c) ==
    /\ bar[c].pc = "idle"
    /\ IF c \in Closers THEN GateFree(c) /\ gate' = c ELSE gate' = gate
    /\ bar' = [bar EXCEPT ![c] = [pc |-> "waiting", target |-> serial]]
    /\ UNCHANGED <<serial, number, urgent, queue, watermarkVars, writerVars, databaseVars, future>>
BarrierReturn(c) ==
    /\ bar[c].pc = "waiting" /\ through >= bar[c].target
    /\ bar' = [bar EXCEPT ![c].pc = "returned"]
    /\ gate' = IF c \in Closers THEN Nobody ELSE gate
    /\ UNCHANGED <<serial, number, urgent, queue, watermarkVars, writerVars, databaseVars, future>>

(***************************************************************************)
(* The writer thread (_run).                                               *)
(***************************************************************************)
Goto(w, place) == pc' = [pc EXCEPT ![w] = place]

(* PriorityQueue.get: the most urgent request, then the oldest.  Its 250   *)
(* ms timeout, which leads to a second recheck like the one below, is no   *)
(* action: NeverIdles says that it cannot fire.                            *)
BugNewestFirst == CHOOSE r \in queue : \A q \in queue :
            Priority[r] < Priority[q] \/ (Priority[r] = Priority[q] /\ number[r] >= number[q])
First == CHOOSE r \in queue : \A q \in queue :
            Priority[r] < Priority[q] \/ (Priority[r] = Priority[q] /\ number[r] <= number[q])
RowLimit(p) == IF p > 5 /\ p < 20 THEN ClaimRows ELSE SliceRows

Get(w) ==
    /\ pc[w] = "get" /\ queue # {}
    /\ queue' = queue \ {First}
    /\ batch' = [batch EXCEPT ![w] = <<First>>] /\ rows' = [rows EXCEPT ![w] = Weight[First]]
    /\ Goto(w, "collect")
    /\ UNCHANGED <<submitVars, watermarkVars, thread, databaseVars, future, bar>>

(* _collect_batch: more requests of the same priority, until the deadline, *)
(* a limit, or a candidate that does not fit and is put back.              *)
Collect(w) ==
    /\ pc[w] = "collect" /\ queue # {} /\ Len(batch[w]) < MaxBatch
    /\ Priority[First] = Priority[batch[w][1]]
    /\ rows[w] + Weight[First] <= RowLimit(Priority[First])
    /\ queue' = queue \ {First}
    /\ batch' = [batch EXCEPT ![w] = Append(@, First)]
    /\ rows' = [rows EXCEPT ![w] = @ + Weight[First]]
    /\ UNCHANGED <<submitVars, watermarkVars, thread, pc, databaseVars, future, bar>>
StopCollecting(w) ==
    /\ pc[w] = "collect" /\ Goto(w, "execute")
    /\ UNCHANGED <<submitVars, queue, watermarkVars, thread, batch, rows, databaseVars, future, bar>>

(* _execute_batch: the requests of one group run together, where the first *)
(* of them stands; each unit has a savepoint, so a request can fail alone. *)
InBatch(w) == {batch[w][i] : i \in DOMAIN batch[w]}
UnitOf(w, i) ==
    IF Group[batch[w][i]] = NoGroup THEN i
    ELSE CHOOSE k \in DOMAIN batch[w] :
            /\ Group[batch[w][k]] = Group[batch[w][i]]
            /\ \A l \in DOMAIN batch[w] : Group[batch[w][l]] = Group[batch[w][i]] => k <= l
StampOf(w, r) ==
    LET i == CHOOSE k \in DOMAIN batch[w] : batch[w][k] = r
    IN  [txn |-> txns + 1, unit |-> UnitOf(w, i), item |-> i]
(* The transaction keeps what did not fail and decides its requests. *)
Commit(w, failed, refused) ==
    /\ pc[w] = "execute" /\ failed \subseteq InBatch(w)
    /\ outcome' = [r \in Requests |-> IF r \notin InBatch(w) THEN outcome[r]
                                      ELSE IF r \in refused THEN "error" ELSE "ok"]
    /\ stamp' = [r \in Requests |-> IF r \in InBatch(w) \ failed THEN StampOf(w, r) ELSE stamp[r]]
    /\ txns' = txns + 1
    /\ Goto(w, "resolve")
    /\ UNCHANGED <<submitVars, queue, watermarkVars, thread, batch, rows, future, bar>>
ExecuteBatch(w, failed) == Commit(w, failed, failed)
(* db_transaction calls notify_state_change after the COMMIT; when that    *)
(* raises, _run takes the whole batch for failed although it is kept.      *)
NotificationFails(w, failed) == Commit(w, failed, InBatch(w))

(* BEGIN or COMMIT raises: the transaction is rolled back. *)
BugHalfReported(w) ==
    /\ pc[w] = "execute"
    /\ \E r \in InBatch(w) : outcome' = [q \in Requests |-> IF q = r THEN "error" ELSE
                                           IF q \in InBatch(w) THEN "ok" ELSE outcome[q]]
    /\ Goto(w, "resolve")
    /\ UNCHANGED <<submitVars, queue, watermarkVars, thread, batch, rows, stamp, txns, future, bar>>
TransactionFails(w) ==
    /\ pc[w] = "execute"
    /\ outcome' = [r \in Requests |-> IF r \in InBatch(w) THEN "error" ELSE outcome[r]]
    /\ Goto(w, "resolve")
    /\ UNCHANGED <<submitVars, queue, watermarkVars, thread, batch, rows, stamp, txns, future, bar>>

(* _finish_batch: resolve the futures, then _record_completed. *)
Resolve(w) ==
    /\ pc[w] = "resolve" /\ Goto(w, "record")
    /\ future' = [r \in Requests |-> IF r \in InBatch(w) /\ future[r] = "pending"
                                     THEN outcome[r] ELSE future[r]]
    /\ UNCHANGED <<submitVars, queue, watermarkVars, thread, batch, rows, databaseVars, bar>>

(* The lazy heap drops stale serials from its top, or is rebuilt; the      *)
(* watermark is what its top says.                                         *)
Popped(left) == {n \in heap : \E p \in heap \cap left : p <= n}
HeapAfter(left) ==
    IF Cardinality(Popped(left)) > 2 * Cardinality(left) + HeapMargin THEN left ELSE Popped(left)
ThroughOf(h) == IF h = {} THEN serial ELSE (CHOOSE n \in h : \A m \in h : n <= m) - 1
RecordCompleted(w) ==
    LET left == pending \ {number[r] : r \in InBatch(w)} IN
    /\ pc[w] = "record" /\ Goto(w, IF IsUrgent(batch[w][1]) THEN "refresh" ELSE "recheck")
    /\ pending' = left /\ heap' = HeapAfter(left) /\ through' = ThroughOf(HeapAfter(left))
    /\ UNCHANGED <<submitVars, queue, thread, batch, rows, databaseVars, future, bar>>

(* _refresh_urgent_signal looks at the queue under its mutex and clears    *)
(* the flag outside it.                                                    *)
UrgentQueued == {r \in queue : IsUrgent(r)}
RefreshUrgent(w) ==
    /\ pc[w] = "refresh" /\ Goto(w, IF UrgentQueued = {} THEN "clear" ELSE "recheck")
    /\ UNCHANGED <<submitVars, queue, watermarkVars, thread, batch, rows, databaseVars, future, bar>>
ClearUrgent(w) ==
    /\ pc[w] = "clear" /\ Goto(w, "recheck") /\ urgent' = FALSE
    /\ UNCHANGED <<gate, serial, number, queue, watermarkVars, thread, batch, rows, databaseVars, future, bar>>

(* The guarded recheck after a batch: retire only while the queue is empty.*)
BugRetiresAnyway == TRUE
Drained == queue = {}
Recheck(w) ==
    /\ pc[w] = "recheck"
    /\ IF Drained THEN thread' = Nobody /\ Goto(w, "closing")
                  ELSE thread' = thread /\ Goto(w, "get")
    /\ batch' = [batch EXCEPT ![w] = <<>>] /\ rows' = [rows EXCEPT ![w] = 0]
    /\ UNCHANGED <<submitVars, queue, watermarkVars, databaseVars, future, bar>>

(* The finally block of a retired thread. *)
BugForgetsSuccessor(w) == Nobody
ThreadAfter(w) == IF thread = w THEN Nobody ELSE thread
Retire(w) ==
    /\ pc[w] = "closing" /\ Goto(w, "ended") /\ thread' = ThreadAfter(w)
    /\ UNCHANGED <<submitVars, queue, watermarkVars, batch, rows, databaseVars, future, bar>>

WriterStep(w) ==
    \/ Get(w) \/ Collect(w) \/ StopCollecting(w)
    \/ \E failed \in SUBSET Requests : ExecuteBatch(w, failed) \/ NotificationFails(w, failed)
    \/ TransactionFails(w) \/ Resolve(w) \/ RecordCompleted(w) \/ RefreshUrgent(w) \/ ClearUrgent(w)
    \/ Recheck(w) \/ Retire(w)
Next ==
    \/ \E r \in Requests : NewRequest(r) \/ Enqueue(r) \/ CancelFuture(r)
    \/ \E c \in Callers : BarrierStart(c) \/ BarrierReturn(c)
    \/ \E w \in Writers : WriterStep(w)

Spec == Init /\ [][Next]_vars

(***************************************************************************)
(* Safety.                                                                 *)
(***************************************************************************)
(* Two threads are never in the loop at once, although a new one starts    *)
(* while its predecessor is still in its finally block: SQLite mutations   *)
(* of a process are serialized by this alone.                              *)
SingleWriter ==
    \A v, w \in Writers : pc[v] \in Loop /\ pc[w] \in Loop => v = w

(* No lost wakeup: a queued request always has a writer that will look at  *)
(* the queue again, however enqueue and retirement interleave.             *)
NoLostRequest == queue # {} => thread # Nobody /\ pc[thread] \in Loop

(* A writer never waits on an empty queue: it is started with a request    *)
(* queued and retires as soon as a batch has drained the queue, so no      *)
(* thread or connection outlives the work by the timeout of the get.       *)
NeverIdles == \A w \in Writers : pc[w] = "get" => queue # {}

(* The watermark is exactly the last serial before the oldest unfinished   *)
(* request: lazy popping and rebuilding of the heap lose nothing.          *)
WatermarkExact ==
    /\ pending = {} => through = serial
    /\ pending # {} => through + 1 \in pending /\ \A n \in pending : through < n

(* Admission pressure always has a reason: the flag is never left set when *)
(* no urgent request is submitted and unfinished, so the API runner is not *)
(* throttled for nothing.                                                  *)
PressureJustified ==
    urgent => \E r \in Requests :
        /\ IsUrgent(r)
        /\ \/ gate = r \/ r \in queue
           \/ \E w \in Writers : pc[w] \in Loop \ {"get", "recheck"} /\ r \in InBatch(w)

(* The lane is sound: one writer, no request without it, none waiting      *)
(* idle, an exact watermark and no pressure without a reason.              *)
LaneSafe ==
    /\ TypeOK /\ SingleWriter /\ NoLostRequest /\ NeverIdles
    /\ WatermarkExact /\ PressureJustified

(* Closing the storage drains it: when close_database_connections goes on  *)
(* to release the connections, no submitted mutation is unfinished.        *)
CloseDrains ==
    [][\A c \in Closers : bar[c].pc = "waiting" /\ bar'[c].pc = "returned" =>
          \A r \in Requests : number[r] # 0 => future[r] # "pending" /\ outcome[r] # "none"]_vars

(* The order of effects: by transaction, then by group, then in the group. *)
Earlier(a, b) ==
    \/ a.txn < b.txn
    \/ a.txn = b.txn /\ (a.unit < b.unit \/ (a.unit = b.unit /\ a.item < b.item))
(* Mutations of one priority that are single, or of one group, take effect *)
(* in the order in which they were submitted, those of a batch that is     *)
(* kept but refused included (_collect_batch, _execute_batch).             *)
SubmissionOrder ==
    \A r, q \in Requests :
        /\ Priority[r] = Priority[q] /\ Group[r] = Group[q]
        /\ number[r] # 0 /\ number[r] < number[q] /\ outcome[q] # "none"
        => /\ outcome[r] # "none"
           /\ stamp[r] # NoStamp /\ stamp[q] # NoStamp => Earlier(stamp[r], stamp[q])

(* The lane keeps the promises of AtomicMutations: above all no caller is  *)
(* told of a success that the database does not hold, and what a refused   *)
(* request may have left behind is left by a batch refused whole.          *)
Service == INSTANCE AtomicMutations WITH
    asked <- {r \in Requests : number[r] # 0},
    effects <- {r \in Requests : stamp[r] # NoStamp},
    verdict <- outcome,
    answer <- future,
    awaited <- [c \in Callers |->
        [state |-> CASE bar[c].pc = "idle" -> "idle" [] bar[c].pc = "waiting" -> "waiting"
                     [] OTHER -> "over",
         requests |-> {r \in Requests : number[r] \in 1 .. bar[c].target}]]
ImplementsService == Service!Spec

(***************************************************************************)
(* Liveness: threads that can run do run.  The collection window needs no  *)
(* assumption of its own, since a batch is full after MaxBatch requests.   *)
(***************************************************************************)
Fairness ==
    /\ WF_vars(\E r \in Requests : Enqueue(r))
    /\ \A c \in Callers : WF_vars(BarrierReturn(c))
    /\ \A w \in Writers : WF_vars(WriterStep(w))
FairSpec == Spec /\ Fairness

Unanswered == {r \in Requests : number[r] # 0 /\ future[r] = "pending"}
(* Every submitted mutation is answered (submit_db_mutation): there is an  *)
(* end to waiting, also when more are submitted meanwhile.                 *)
AllAnswered == Unanswered # {} ~> Unanswered = {}
(* Every durability barrier returns (barrier).                             *)
BarriersReturn == \A c \in Callers : bar[c].pc = "waiting" ~> bar[c].pc = "returned"

(* Every submitted mutation is answered and every barrier returns: neither *)
(* a retiring thread nor a closing storage leaves a caller waiting.        *)
RequestsEnd == AllAnswered /\ BarriersReturn
=============================================================================
