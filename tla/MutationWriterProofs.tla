------------------------ MODULE MutationWriterProofs ------------------------
(***************************************************************************)
(* Proofs about MutationWriter for any requests, priorities, groups, row   *)
(* limits and threads: one writer, no lost request, an exact watermark, a  *)
(* drained close, effects in the order of submission, and the refinement   *)
(* of AtomicMutations.                                                     *)
(***************************************************************************)
EXTENDS MutationWriter, TLAPS, WellFoundedInduction

(* The running thread is the one _thread names; what it names is running;  *)
(* a queue with a request has one.                                         *)
ThreadInv ==
    /\ \A w \in Writers : pc[w] \in Loop => thread = w
    /\ thread # Nobody => pc[thread] \in Loop
    /\ queue # {} => thread # Nobody

(* The heap holds every pending serial, beside stale ones. *)
WatermarkInv == WatermarkExact /\ pending \subseteq heap

(***************************************************************************)
(* Where a request is tells what has been decided and told about it.       *)
(***************************************************************************)
Handed(r) == number[r] # 0 /\ outcome[r] = "none"
OneSerial == \A r, q \in Requests : number[r] = number[q] /\ number[r] # 0 => r = q
Fresh == \A r \in Requests : number[r] = 0 => outcome[r] = "none" /\ r \notin queue
Held == \A r \in Requests : gate = r => Handed(r) /\ r \notin queue
Queued == \A r \in queue : Handed(r)
Batched == \A w \in Writers : \A r \in InBatch(w) :
    /\ pc[w] \in {"collect", "execute"} => Handed(r) /\ gate # r /\ r \notin queue
    /\ pc[w] \in {"resolve", "record"} => number[r] # 0 /\ outcome[r] # "none"
    /\ pc[w] = "record" => future[r] # "pending"
Finished == \A r \in Requests : number[r] # 0 /\ number[r] \notin pending =>
    outcome[r] # "none" /\ future[r] # "pending"
Applied == \A r \in Requests :
    (outcome[r] = "ok" => stamp[r] # NoStamp) /\ (stamp[r] # NoStamp => outcome[r] # "none")
PlaceInv == OneSerial /\ Fresh /\ Held /\ Queued /\ Batched /\ Finished /\ Applied

(* The batch in hand has one priority, that of its first request. *)
InHand == Loop \ {"get", "recheck"}
UniformInv == \A w \in Writers : pc[w] \in InHand =>
    /\ batch[w] # <<>>
    /\ \A r \in InBatch(w) : Priority[r] = Priority[batch[w][1]]

(* A barrier waits for serials already given, a closing one for all.       *)
BarrierInv == \A c \in Callers :
    /\ bar[c].target <= serial
    /\ bar[c].pc = "idle" => bar[c].target = 0
    /\ c \in Closers /\ bar[c].pc = "waiting" => gate = c /\ bar[c].target = serial

IInv == TypeOK /\ ThreadInv /\ NeverIdles /\ WatermarkInv /\ PlaceInv /\ BarrierInv /\ UniformInv /\ PressureJustified

(***************************************************************************)
(* Facts about the data.                                                   *)
(***************************************************************************)
(* A set of naturals has a least element. *)
LEMMA LeastNatural ==
    ASSUME NEW S \in SUBSET Nat, S # {}
    PROVE  \E n \in S : \A m \in S : n <= m
<1> DEFINE R == OpToRel(<, Nat)
<1>1. IsWellFoundedOn(R, Nat) BY NatLessThanWellFounded
<1>2. R = {ss \in Nat \X Nat : ss[1] < ss[2]} BY DEF OpToRel
<1> HIDE DEF R
<1>3. \E x \in S : \A y \in S : ~ (<<y, x>> \in R) BY <1>1, WFMin, Zenon
<1>4. PICK n \in S : \A m \in S : ~ (<<m, n>> \in R) BY <1>3
<1>5. \A m \in S : ~ (m < n) BY <1>2, <1>4
<1> QED BY <1>4, <1>5

(* PriorityQueue.get returns a queued request, the oldest of the most      *)
(* urgent ones.                                                            *)
LEMMA FirstQueued ==
    ASSUME TypeOK, queue # {}
    PROVE  /\ First \in queue
           /\ \A q \in queue : Priority[First] < Priority[q] \/ (Priority[First] = Priority[q] /\ number[First] <= number[q])
<1> DEFINE Ps == {Priority[r] : r \in queue}
<1> DEFINE Better(r, q) == Priority[r] < Priority[q] \/ (Priority[r] = Priority[q] /\ number[r] <= number[q])
<1>1. queue \subseteq Requests /\ Priority \in [Requests -> Nat] /\ number \in [Requests -> 0 .. serial] /\ serial \in Nat
  BY WriterAssumption DEF TypeOK
<1>2. PICK p \in Ps : \A m \in Ps : p <= m
  <2>1. Ps \in SUBSET Nat /\ Ps # {} BY <1>1
  <2> QED BY <2>1, LeastNatural
<1> DEFINE Ns == {number[r] : r \in {q \in queue : Priority[q] = p}}
<1>3. PICK n \in Ns : \A m \in Ns : n <= m
  <2>0. PICK r \in queue : Priority[r] = p BY <1>2
  <2>1. Ns \in SUBSET Nat /\ number[r] \in Ns BY <1>1, <2>0
  <2> QED BY <2>1, LeastNatural
<1>4. PICK r \in queue : Priority[r] = p /\ number[r] = n BY <1>3
<1>5. \A q \in queue : Better(r, q)
  <2> TAKE q \in queue
  <2>1. Priority[q] \in Ps /\ p \in Nat /\ Priority[q] \in Nat BY <1>1, <1>2
  <2>2. p <= Priority[q] BY <1>2, <2>1
  <2>3. Priority[q] = p => number[q] \in Ns OBVIOUS
  <2>4. Priority[q] = p => n <= number[q] BY <1>3, <2>3
  <2> QED BY <1>4, <2>1, <2>2, <2>4
<1>6. \E x \in queue : \A q \in queue : Better(x, q) BY <1>5
<1> QED BY <1>6 DEF First

(* Every request of a batch has a unit in it. *)
LEMMA UnitNat ==
    ASSUME TypeOK, NEW w \in Writers, NEW i \in DOMAIN batch[w]
    PROVE  UnitOf(w, i) \in Nat
<1>1. batch[w] \in Seq(Requests) BY DEF TypeOK
<1>2. DOMAIN batch[w] = 1 .. Len(batch[w]) /\ Len(batch[w]) \in Nat BY <1>1
<1> DEFINE S == {k \in DOMAIN batch[w] : Group[batch[w][k]] = Group[batch[w][i]]}
<1>3. S \in SUBSET Nat /\ i \in S BY <1>2
<1>4. PICK k \in S : \A m \in S : k <= m BY <1>3, LeastNatural
<1>5. \E x \in DOMAIN batch[w] :
            /\ Group[batch[w][x]] = Group[batch[w][i]]
            /\ \A l \in DOMAIN batch[w] : Group[batch[w][l]] = Group[batch[w][i]] => x <= l
  BY <1>4
<1> QED BY <1>2, <1>5 DEF UnitOf

LEMMA StampTyped ==
    ASSUME TypeOK, NEW w \in Writers, NEW r \in InBatch(w)
    PROVE  StampOf(w, r) \in Stamps /\ StampOf(w, r) # NoStamp
<1>1. batch[w] \in Seq(Requests) /\ txns \in Nat BY DEF TypeOK
<1> DEFINE i == CHOOSE k \in DOMAIN batch[w] : batch[w][k] = r
<1>2. i \in DOMAIN batch[w] BY DEF InBatch
<1>3. i \in Nat BY <1>1, <1>2
<1> HIDE DEF i
<1>4. UnitOf(w, i) \in Nat BY <1>2, UnitNat
<1>5. StampOf(w, r) = [txn |-> txns + 1, unit |-> UnitOf(w, i), item |-> i] BY DEF StampOf, i
<1>6. txns + 1 \in Nat /\ txns + 1 # 0 BY <1>1
<1> QED BY <1>3, <1>4, <1>5, <1>6 DEF Stamps, NoStamp

(* The requests of a batch after one is appended to it. *)
LEMMA AppendedBatch ==
    ASSUME NEW s \in Seq(Requests), NEW r \in Requests
    PROVE  /\ Append(s, r) \in Seq(Requests)
           /\ {Append(s, r)[i] : i \in DOMAIN Append(s, r)} = {s[i] : i \in DOMAIN s} \cup {r}
<1>1. Append(s, r) \in Seq(Requests) /\ Len(Append(s, r)) = Len(s) + 1 /\ Len(s) \in Nat
      /\ DOMAIN s = 1 .. Len(s) /\ DOMAIN Append(s, r) = 1 .. Len(s) + 1 OBVIOUS
<1>2. \A i \in DOMAIN s : Append(s, r)[i] = s[i] OBVIOUS
<1>3. Append(s, r)[Len(s) + 1] = r OBVIOUS
<1>4. \A i \in DOMAIN Append(s, r) : i \in DOMAIN s \/ i = Len(s) + 1 BY <1>1
<1>5. Len(s) + 1 \in DOMAIN Append(s, r) /\ DOMAIN s \subseteq DOMAIN Append(s, r) BY <1>1
<1>6. \A x : x \in {Append(s, r)[i] : i \in DOMAIN Append(s, r)} <=> x \in {s[i] : i \in DOMAIN s} \cup {r}
  BY <1>2, <1>3, <1>4, <1>5, Zenon
<1> QED BY <1>1, <1>6

LEMMA BatchTyped ==
    ASSUME TypeOK, NEW w \in Writers
    PROVE  InBatch(w) \subseteq Requests
<1>1. batch[w] \in Seq(Requests) BY DEF TypeOK
<1> QED BY <1>1 DEF InBatch

(***************************************************************************)
(* Types.                                                                  *)
(***************************************************************************)
LEMMA HeapTyped ==
    ASSUME TypeOK, NEW left \in SUBSET pending, pending \subseteq heap
    PROVE  /\ left \subseteq HeapAfter(left) /\ HeapAfter(left) \subseteq 1 .. serial
           /\ left = {} => HeapAfter(left) = {}
           /\ \A n \in HeapAfter(left) : \E m \in left : m <= n
<1>1. pending \subseteq 1 .. serial /\ heap \subseteq 1 .. serial /\ serial \in Nat BY DEF TypeOK
<1>2. /\ left \subseteq Popped(left) /\ Popped(left) \subseteq heap
      /\ \A n \in Popped(left) : \E m \in left : m <= n
  BY <1>1 DEF Popped
<1>3. left \subseteq 1 .. serial /\ \A n \in left : n <= n BY <1>1
<1>4. HeapAfter(left) = left \/ HeapAfter(left) = Popped(left) BY DEF HeapAfter
<1>5. CASE HeapAfter(left) = left BY <1>3, <1>5
<1>6. CASE HeapAfter(left) = Popped(left) BY <1>1, <1>2, <1>6
<1> QED BY <1>4, <1>5, <1>6

(* The watermark after a batch is the one WatermarkExact asks for. *)
LEMMA ThroughExact ==
    ASSUME TypeOK, NEW left \in SUBSET pending, pending \subseteq heap
    PROVE  /\ ThroughOf(HeapAfter(left)) \in 0 .. serial
           /\ left = {} => ThroughOf(HeapAfter(left)) = serial
           /\ left # {} => /\ ThroughOf(HeapAfter(left)) + 1 \in left
                          /\ \A n \in left : ThroughOf(HeapAfter(left)) < n
<1> DEFINE h == HeapAfter(left)
<1>1. serial \in Nat BY DEF TypeOK
<1>2. /\ left \subseteq h /\ h \subseteq 1 .. serial
      /\ left = {} => h = {}
      /\ \A n \in h : \E m \in left : m <= n
  BY HeapTyped
<1> HIDE DEF h
<1>3. CASE left = {} BY <1>1, <1>2, <1>3 DEF ThroughOf, h
<1>4. CASE left # {}
  <2>0. h # {} BY <1>2, <1>4, Zenon
  <2>00. 1 .. serial \subseteq Nat BY <1>1
  <2>1. h # {} /\ h \in SUBSET Nat BY <1>2, <2>0, <2>00, Zenon
  <2> DEFINE n == CHOOSE x \in h : \A m \in h : x <= m
  <2>2. n \in h /\ \A m \in h : n <= m BY <2>1, LeastNatural
  <2>3. ThroughOf(h) = n - 1 BY <2>1 DEF ThroughOf
  <2> HIDE DEF n
  <2>4. PICK m \in left : m <= n BY <1>2, <2>2
  <2>5. n \in 1 .. serial /\ m \in 1 .. serial /\ n <= m BY <1>1, <1>2, <2>2, <2>4
  <2>6. n = m BY <1>1, <2>4, <2>5
  <2>7. (n - 1) + 1 = n /\ n - 1 \in 0 .. serial BY <1>1, <2>5
  <2>8. \A k \in left : n - 1 < k BY <1>1, <1>2, <2>2, <2>5
  <2> QED BY <1>4, <2>3, <2>4, <2>6, <2>7, <2>8 DEF h
<1> QED BY <1>3, <1>4

LEMMA Typing ==
    ASSUME TypeOK, pending \subseteq heap, PlaceInv, Next
    PROVE  TypeOK'
<1> USE DEF TypeOK
<1>1. ASSUME NEW r \in Requests, NewRequest(r) PROVE TypeOK'
  <2>1. serial + 1 \in Nat /\ 0 .. serial \subseteq 0 .. serial + 1 /\ 1 .. serial \subseteq 1 .. serial + 1
        /\ serial + 1 \in 1 .. serial + 1 /\ serial + 1 \in 0 .. serial + 1 OBVIOUS
  <2>2. number' \in [Requests -> 0 .. serial'] BY <1>1, <2>1 DEF NewRequest
  <2>3. pending' \subseteq 1 .. serial' /\ heap' \subseteq 1 .. serial' /\ through' \in 0 .. serial'
    BY <1>1, <2>1 DEF NewRequest
  <2>4. urgent' \in BOOLEAN BY <1>1 DEF NewRequest, IsUrgent
  <2> QED BY <1>1, <2>1, <2>2, <2>3, <2>4 DEF NewRequest, writerVars, databaseVars
<1>2. ASSUME NEW r \in Requests, Enqueue(r) PROVE TypeOK'
  <2>1. thread' \in Writers \cup {Nobody} /\ pc' \in [Writers -> Loop \cup {"closing", "ended"}]
    BY <1>2 DEF Enqueue, Loop
  <2> QED BY <1>2, <2>1 DEF Enqueue, watermarkVars, databaseVars
<1>3. ASSUME NEW r \in Requests, CancelFuture(r) PROVE TypeOK'
  BY <1>3 DEF CancelFuture, submitVars, watermarkVars, writerVars, databaseVars
<1>4. ASSUME NEW c \in Callers, BarrierStart(c) PROVE TypeOK'
  <2>1. gate' \in Requests \cup Closers \cup {Nobody} BY <1>4 DEF BarrierStart
  <2> QED BY <1>4, <2>1 DEF BarrierStart, watermarkVars, writerVars, databaseVars
<1>5. ASSUME NEW c \in Callers, BarrierReturn(c) PROVE TypeOK'
  BY <1>5 DEF BarrierReturn, watermarkVars, writerVars, databaseVars
<1>6. ASSUME NEW w \in Writers, Get(w) PROVE TypeOK'
  <2>1. First \in Requests BY <1>6, FirstQueued DEF Get
  <2>2. Weight[First] \in Nat BY <2>1, WriterAssumption
  <2>3. <<First>> \in Seq(Requests) BY <2>1
  <2>4. pc' \in [Writers -> Loop \cup {"closing", "ended"}] BY <1>6 DEF Get, Goto, Loop
  <2> QED BY <1>6, <2>2, <2>3, <2>4 DEF Get, submitVars, watermarkVars, databaseVars
<1>8. ASSUME NEW w \in Writers, Collect(w) PROVE TypeOK'
  <2>1. First \in Requests BY <1>8, FirstQueued DEF Collect
  <2>2. Weight[First] \in Nat BY <2>1, WriterAssumption
  <2>3. Append(batch[w], First) \in Seq(Requests) BY <2>1, AppendedBatch
  <2>4. rows[w] + Weight[First] \in Nat BY <2>2
  <2> QED BY <1>8, <2>3, <2>4 DEF Collect, submitVars, watermarkVars, databaseVars
<1>9. ASSUME NEW w \in Writers, StopCollecting(w) PROVE TypeOK'
  BY <1>9 DEF StopCollecting, Goto, Loop, submitVars, watermarkVars, databaseVars
<1>10. ASSUME NEW w \in Writers, NEW failed \in SUBSET Requests, NEW refused, Commit(w, failed, refused)
       PROVE  TypeOK'
  <2>1. outcome' \in [Requests -> {"none", "ok", "error"}] BY <1>10 DEF Commit
  <2>2. stamp' \in [Requests -> Stamps]
    <3>1. \A r \in Requests : r \in InBatch(w) => StampOf(w, r) \in Stamps BY StampTyped
    <3> QED BY <1>10, <3>1 DEF Commit
  <2>3. pc' \in [Writers -> Loop \cup {"closing", "ended"}] BY <1>10 DEF Commit, Goto, Loop
  <2> QED BY <1>10, <2>1, <2>2, <2>3 DEF Commit, submitVars, watermarkVars
<1>11. ASSUME NEW w \in Writers, TransactionFails(w) PROVE TypeOK'
  <2>1. outcome' \in [Requests -> {"none", "ok", "error"}] BY <1>11 DEF TransactionFails
  <2>2. pc' \in [Writers -> Loop \cup {"closing", "ended"}] BY <1>11 DEF TransactionFails, Goto, Loop
  <2> QED BY <1>11, <2>1, <2>2 DEF TransactionFails, submitVars, watermarkVars
<1>12. ASSUME NEW w \in Writers, Resolve(w) PROVE TypeOK'
  <2>1. \A r \in InBatch(w) : outcome[r] # "none" BY <1>12 DEF Resolve, PlaceInv, Batched
  <2>2. future' \in [Requests -> {"pending", "ok", "error", "cancelled"}] BY <1>12, <2>1 DEF Resolve
  <2>3. pc' \in [Writers -> Loop \cup {"closing", "ended"}] BY <1>12 DEF Resolve, Goto, Loop
  <2> QED BY <1>12, <2>2, <2>3 DEF Resolve, submitVars, watermarkVars, databaseVars
<1>13. ASSUME NEW w \in Writers, RecordCompleted(w) PROVE TypeOK'
  <2> DEFINE left == pending \ {number[r] : r \in InBatch(w)}
  <2>1. left \in SUBSET pending OBVIOUS
  <2>2. HeapAfter(left) \subseteq 1 .. serial /\ ThroughOf(HeapAfter(left)) \in 0 .. serial
    BY <2>1, HeapTyped, ThroughExact
  <2>3. pc' \in [Writers -> Loop \cup {"closing", "ended"}] BY <1>13 DEF RecordCompleted, Goto, Loop
  <2>4. pending' = left /\ heap' = HeapAfter(left) /\ through' = ThroughOf(HeapAfter(left))
    BY <1>13 DEF RecordCompleted
  <2> HIDE DEF left
  <2> QED BY <1>13, <2>1, <2>2, <2>3, <2>4 DEF RecordCompleted, submitVars, databaseVars
<1>14. ASSUME NEW w \in Writers, Recheck(w) PROVE TypeOK'
  <2>1. <<>> \in Seq(Requests) OBVIOUS
  <2> QED BY <1>14, <2>1 DEF Recheck, Goto, Loop, submitVars, watermarkVars, databaseVars
<1>15. ASSUME NEW w \in Writers, Retire(w) PROVE TypeOK'
  BY <1>15 DEF Retire, ThreadAfter, Goto, submitVars, watermarkVars, databaseVars
<1>16. ASSUME NEW w \in Writers, RefreshUrgent(w) PROVE TypeOK'
  BY <1>16 DEF RefreshUrgent, Goto, Loop, submitVars, watermarkVars, databaseVars
<1>17. ASSUME NEW w \in Writers, ClearUrgent(w) PROVE TypeOK'
  BY <1>17 DEF ClearUrgent, Goto, Loop, watermarkVars, databaseVars
<1> QED BY <1>1, <1>2, <1>3, <1>4, <1>5, <1>6, <1>8, <1>9, <1>10, <1>11, <1>12, <1>13,
           <1>14, <1>15, <1>16, <1>17 DEF Next, WriterStep, ExecuteBatch, NotificationFails

(***************************************************************************)
(* The writer thread.  Retirement and _enqueue meet on _guard: a thread    *)
(* gives up _thread only with an empty queue.                              *)
(***************************************************************************)
LEMMA Threads ==
    ASSUME TypeOK, ThreadInv, Next
    PROVE  ThreadInv'
<1> USE DEF TypeOK, ThreadInv
<1>0. Nobody \notin Writers /\ "closing" \notin Loop /\ "ended" \notin Loop
      /\ {"get", "collect", "execute", "resolve", "record", "refresh", "clear", "recheck"} \subseteq Loop
  BY WriterAssumption DEF Loop
<1>1. ASSUME NEW r \in Requests, NewRequest(r) \/ CancelFuture(r) PROVE ThreadInv'
  BY <1>1 DEF NewRequest, CancelFuture, writerVars
<1>2. ASSUME NEW r \in Requests, Enqueue(r) PROVE ThreadInv'
  <2>1. CASE thread # Nobody /\ pc[thread] # "ended" BY <1>2, <2>1 DEF Enqueue
  <2>2. CASE ~ (thread # Nobody /\ pc[thread] # "ended")
    <3>1. thread = Nobody /\ \A v \in Writers : pc[v] \notin Loop BY <1>0, <2>2
    <3>2. PICK w \in Writers : thread' = w /\ pc' = [pc EXCEPT ![w] = "get"] BY <1>2, <2>2 DEF Enqueue
    <3>3. \A v \in Writers : pc'[v] = IF v = w THEN "get" ELSE pc[v] BY <3>2
    <3> QED BY <1>0, <3>1, <3>2, <3>3
  <2> QED BY <2>1, <2>2
<1>3. ASSUME NEW c \in Callers, BarrierStart(c) \/ BarrierReturn(c) PROVE ThreadInv'
  BY <1>3 DEF BarrierStart, BarrierReturn, writerVars
<1>4. ASSUME NEW w \in Writers, WriterStep(w) PROVE ThreadInv'
  <2>1. ASSUME pc[w] \in Loop, NEW x \in Loop, Goto(w, x), thread' = thread, queue' \subseteq queue PROVE ThreadInv'
    <3>1. \A v \in Writers : pc'[v] = IF v = w THEN x ELSE pc[v] BY <2>1 DEF Goto
    <3> QED BY <1>0, <2>1, <3>1
  <2>2. CASE Get(w) BY <1>0, <2>1, <2>2 DEF Get
  <2>4. CASE Collect(w)
    BY <1>0, <2>4 DEF Collect
  <2>5. CASE StopCollecting(w) BY <1>0, <2>1, <2>5 DEF StopCollecting
  <2>6. CASE \E failed \in SUBSET Requests : ExecuteBatch(w, failed) \/ NotificationFails(w, failed)
    BY <1>0, <2>1, <2>6 DEF ExecuteBatch, NotificationFails, Commit
  <2>7. CASE TransactionFails(w) BY <1>0, <2>1, <2>7 DEF TransactionFails
  <2>8. CASE Resolve(w) BY <1>0, <2>1, <2>8 DEF Resolve
  <2>9. CASE RecordCompleted(w) BY <1>0, <2>1, <2>9 DEF RecordCompleted
  <2>10. CASE RefreshUrgent(w) BY <1>0, <2>1, <2>10 DEF RefreshUrgent
  <2>11. CASE ClearUrgent(w) BY <1>0, <2>1, <2>11 DEF ClearUrgent
  <2>12. CASE Recheck(w)
    <3>1. CASE ~ Drained BY <1>0, <2>1, <2>12, <3>1 DEF Recheck
    <3>2. CASE Drained
      <4>1. \A v \in Writers : pc'[v] = IF v = w THEN "closing" ELSE pc[v]
        BY <2>12, <3>2 DEF Recheck, Goto
      <4> QED BY <1>0, <2>12, <3>2, <4>1 DEF Recheck, Drained
    <3> QED BY <3>1, <3>2
  <2>13. CASE Retire(w)
    <3>1. \A v \in Writers : pc'[v] = IF v = w THEN "ended" ELSE pc[v] BY <2>13 DEF Retire, Goto
    <3>2. thread # w BY <1>0, <2>13 DEF Retire
    <3>3. thread' = thread /\ queue' = queue BY <2>13, <3>2 DEF Retire, ThreadAfter
    <3> QED BY <1>0, <3>1, <3>2, <3>3
  <2> QED BY <1>4, <2>2, <2>4, <2>5, <2>6, <2>7, <2>8, <2>9, <2>12, <2>13, <2>10,
           <2>11 DEF WriterStep
<1> QED BY <1>1, <1>2, <1>3, <1>4 DEF Next

(* Only one writer has a batch in hand, so no other batch is disturbed. *)
LEMMA OtherBatches ==
    ASSUME TypeOK, ThreadInv, NEW w \in Writers, pc[w] \in Loop, NEW v \in Writers, v # w
    PROVE  pc[v] \notin Loop
BY DEF ThreadInv

(* Only the one running thread takes requests, and it goes back to its get *)
(* only past a recheck that saw a request.                                 *)
LEMMA Idling ==
    ASSUME TypeOK, ThreadInv, NeverIdles, Next
    PROVE  NeverIdles'
<1> USE DEF TypeOK, NeverIdles
<1>1. ASSUME NEW r \in Requests, NewRequest(r) \/ CancelFuture(r) PROVE NeverIdles'
  BY <1>1 DEF NewRequest, CancelFuture, writerVars
<1>2. ASSUME NEW r \in Requests, Enqueue(r) PROVE NeverIdles' BY <1>2 DEF Enqueue
<1>3. ASSUME NEW c \in Callers, BarrierStart(c) \/ BarrierReturn(c) PROVE NeverIdles'
  BY <1>3 DEF BarrierStart, BarrierReturn, writerVars
<1>4. ASSUME NEW w \in Writers, Get(w) \/ Collect(w) PROVE NeverIdles'
  <2>1. pc[w] \in Loop BY <1>4 DEF Get, Collect, Loop
  <2>2. \A v \in Writers : v # w => pc[v] # "get" BY <2>1, OtherBatches DEF Loop
  <2>3. pc'[w] = "collect" /\ \A v \in Writers : v # w => pc'[v] = pc[v] BY <1>4 DEF Get, Collect, Goto
  <2> QED BY <2>2, <2>3
<1>5. ASSUME NEW w \in Writers, Recheck(w) PROVE NeverIdles'
  BY <1>5 DEF Recheck, Drained, Goto
<1>6. ASSUME NEW w \in Writers, NEW x, x # "get", Goto(w, x), queue' = queue PROVE NeverIdles'
  BY <1>6 DEF Goto
<1> QED BY <1>1, <1>2, <1>3, <1>4, <1>5, <1>6 DEF Next, WriterStep, StopCollecting,
       ExecuteBatch, NotificationFails, Commit,
       TransactionFails, Resolve, RecordCompleted, RefreshUrgent, ClearUrgent, Retire

(***************************************************************************)
(* The watermark.                                                          *)
(***************************************************************************)
(* Only submitting and recording touch the serials. *)
LEMMA Watermarks ==
    ASSUME TypeOK, WatermarkInv, Next
    PROVE  WatermarkInv'
<1> USE DEF WatermarkInv, WatermarkExact
<1>1. ASSUME NEW r \in Requests, NewRequest(r) PROVE WatermarkInv'
  BY <1>1 DEF NewRequest, TypeOK
<1>2. ASSUME NEW w \in Writers, RecordCompleted(w) PROVE WatermarkInv'
  <2> DEFINE left == pending \ {number[r] : r \in InBatch(w)}
  <2>1. left \in SUBSET pending OBVIOUS
  <2>2. pending' = left /\ heap' = HeapAfter(left) /\ through' = ThroughOf(HeapAfter(left)) /\ serial' = serial
    BY <1>2 DEF RecordCompleted, submitVars
  <2> HIDE DEF left
  <2>3. left \subseteq HeapAfter(left) BY <2>1, HeapTyped
  <2> QED BY <2>1, <2>2, <2>3, ThroughExact
<1>3. ASSUME UNCHANGED <<watermarkVars, serial>> PROVE WatermarkInv' BY <1>3 DEF watermarkVars
<1> QED BY <1>1, <1>2, <1>3 DEF Next, WriterStep, Enqueue, CancelFuture, BarrierStart, BarrierReturn,
       Get, Collect, StopCollecting,
       ExecuteBatch, NotificationFails, Commit, TransactionFails, Resolve, RefreshUrgent,
       ClearUrgent, Recheck, Retire, submitVars

(***************************************************************************)
(* Places of the requests.                                                 *)
(***************************************************************************)
LEMMA SubmitPlaces ==
    ASSUME TypeOK, PlaceInv, WatermarkInv, NEW r \in Requests,
           NewRequest(r) \/ Enqueue(r) \/ CancelFuture(r)
    PROVE  PlaceInv'
<1> USE DEF PlaceInv, Handed
<1>0. Nobody \notin Requests BY WriterAssumption
<1>1. CASE NewRequest(r)
  <2>1. /\ gate = Nobody /\ number[r] = 0 /\ gate' = r /\ number' = [number EXCEPT ![r] = serial + 1]
        /\ pending' = pending \cup {serial + 1} /\ queue' = queue /\ outcome' = outcome /\ stamp' = stamp
        /\ future' = future /\ pc' = pc /\ batch' = batch
    BY <1>1 DEF NewRequest, GateFree, writerVars, databaseVars
  <2>2. number \in [Requests -> 0 .. serial] /\ serial \in Nat /\ outcome \in [Requests -> {"none", "ok", "error"}]
    BY DEF TypeOK
  <2>3. \A q \in Requests : number'[q] = IF q = r THEN serial + 1 ELSE number[q] BY <2>1, <2>2
  <2>4. OneSerial' BY <2>2, <2>3 DEF OneSerial
  <2>5. Fresh' BY <2>1, <2>2, <2>3 DEF Fresh
  <2>6. Held' BY <2>1, <2>2, <2>3 DEF Fresh, Held
  <2>7. Queued' BY <2>1, <2>2, <2>3 DEF Queued, TypeOK
  <2>8. Batched'
    <3> SUFFICES ASSUME NEW w \in Writers, NEW q \in InBatch(w)
                 PROVE  /\ pc[w] \in {"collect", "execute"} => number'[q] # 0 /\ outcome[q] = "none" /\ r # q /\ q \notin queue
                        /\ pc[w] \in {"resolve", "record"} => number'[q] # 0 /\ outcome[q] # "none"
                        /\ pc[w] = "record" => future[q] # "pending"
      BY <2>1 DEF Batched, InBatch
    <3>1. q \in Requests BY BatchTyped
    <3>2. pc[w] \in {"collect", "execute", "resolve", "record"} => number[q] # 0 BY DEF Batched
    <3> QED BY <2>1, <2>2, <2>3, <3>1, <3>2 DEF Batched
  <2>9. Finished' BY <2>1, <2>2, <2>3 DEF Finished
  <2>10. Applied' BY <2>1 DEF Applied
  <2> QED BY <2>4, <2>5, <2>6, <2>7, <2>8, <2>9, <2>10
<1>2. CASE Enqueue(r)
  <2>1. /\ gate = r /\ gate' = Nobody /\ queue' = queue \cup {r} /\ number' = number /\ pending' = pending
        /\ outcome' = outcome /\ stamp' = stamp /\ future' = future /\ batch' = batch
    BY <1>2 DEF Enqueue, watermarkVars, databaseVars
  <2>2. \A w \in Writers : pc'[w] = pc[w] \/ pc'[w] = "get" BY <1>2 DEF Enqueue, TypeOK
  <2>3. Handed(r) BY <2>1 DEF Held
  <2>4. OneSerial' /\ Finished' /\ Applied' BY <2>1 DEF OneSerial, Finished, Applied
  <2>5. Fresh' BY <2>1, <2>3 DEF Fresh
  <2>6. Held' BY <1>0, <2>1 DEF Held
  <2>7. Queued' BY <2>1, <2>3 DEF Queued
  <2>8. Batched'
    <3> SUFFICES ASSUME NEW w \in Writers, NEW q \in InBatch(w)
                 PROVE  /\ pc'[w] \in {"collect", "execute"} => Handed(q) /\ Nobody # q /\ q \notin queue \cup {r}
                        /\ pc'[w] \in {"resolve", "record"} => number[q] # 0 /\ outcome[q] # "none"
                        /\ pc'[w] = "record" => future[q] # "pending"
      BY <2>1 DEF Batched, InBatch
    <3>1. q \in Requests BY BatchTyped
    <3> QED BY <1>0, <2>1, <2>2, <3>1 DEF Batched
  <2> QED BY <2>4, <2>5, <2>6, <2>7, <2>8
<1>3. CASE CancelFuture(r)
  <2>1. /\ gate' = gate /\ queue' = queue /\ number' = number /\ pending' = pending
        /\ outcome' = outcome /\ stamp' = stamp /\ batch' = batch /\ pc' = pc
        /\ future' = [future EXCEPT ![r] = "cancelled"]
    BY <1>3 DEF CancelFuture, submitVars, watermarkVars, writerVars, databaseVars
  <2>2. \A q \in Requests : future'[q] = "pending" => future[q] = "pending" BY <2>1 DEF TypeOK
  <2>3. OneSerial' /\ Fresh' /\ Held' /\ Queued' /\ Applied'
    BY <2>1 DEF OneSerial, Fresh, Held, Queued, Applied
  <2>4. Finished' BY <2>1, <2>2 DEF Finished
  <2>5. Batched'
    <3> SUFFICES ASSUME NEW w \in Writers, NEW q \in InBatch(w), pc[w] = "record"
                 PROVE  future'[q] # "pending"
      BY <2>1 DEF Batched, InBatch
    <3>1. q \in Requests BY BatchTyped
    <3> QED BY <2>2, <3>1 DEF Batched
  <2> QED BY <2>3, <2>4, <2>5
<1> QED BY <1>1, <1>2, <1>3

LEMMA BarrierPlaces ==
    ASSUME TypeOK, PlaceInv, NEW c \in Callers, BarrierStart(c) \/ BarrierReturn(c)
    PROVE  PlaceInv'
<1>1. /\ queue' = queue /\ number' = number /\ pending' = pending /\ outcome' = outcome /\ stamp' = stamp
      /\ batch' = batch /\ pc' = pc /\ future' = future
  BY DEF BarrierStart, BarrierReturn, watermarkVars, writerVars, databaseVars
<1>2. \A r \in Requests : gate' = r => gate = r
  BY WriterAssumption DEF BarrierStart, BarrierReturn
<1>3. OneSerial' /\ Fresh' /\ Queued' /\ Applied' /\ Finished'
  BY <1>1 DEF PlaceInv, OneSerial, Fresh, Queued, Handed, Applied, Finished
<1>4. Held' BY <1>1, <1>2 DEF PlaceInv, Held, Handed
<1>5. Batched'
  <2> SUFFICES ASSUME NEW w \in Writers, NEW q \in InBatch(w), pc[w] \in {"collect", "execute"}
               PROVE  gate' # q
    BY <1>1 DEF PlaceInv, Batched, InBatch, Handed
  <2>1. q \in Requests BY BatchTyped
  <2> QED BY <1>2, <2>1 DEF PlaceInv, Batched
<1> QED BY <1>3, <1>4, <1>5 DEF PlaceInv

LEMMA TakePlaces ==
    ASSUME TypeOK, ThreadInv, PlaceInv, NEW w \in Writers,
           Get(w) \/ Collect(w) \/ StopCollecting(w)
    PROVE  PlaceInv'
<1> USE DEF PlaceInv, Handed
<1>0. {"get", "collect", "execute", "resolve", "record", "refresh", "clear", "recheck"} = Loop BY DEF Loop
<1>1. /\ gate' = gate /\ number' = number /\ pending' = pending /\ outcome' = outcome /\ stamp' = stamp
      /\ future' = future /\ queue' \subseteq queue
      /\ \A v \in Writers : v # w => pc'[v] = pc[v] /\ batch'[v] = batch[v]
  BY DEF Get, Collect, StopCollecting, Goto, submitVars, watermarkVars, databaseVars, TypeOK
<1>2. pc[w] \in Loop BY <1>0 DEF Get, Collect, StopCollecting
<1>3. OneSerial' /\ Finished' /\ Applied' BY <1>1 DEF OneSerial, Finished, Applied
<1>4. Fresh' /\ Held' /\ Queued' BY <1>1 DEF Fresh, Held, Queued
<1>5. ASSUME NEW q \in InBatch(w)' PROVE
        /\ pc'[w] \in {"collect", "execute", "recheck"}
        /\ pc'[w] \in {"collect", "execute"} => Handed(q) /\ gate # q /\ q \notin queue'
  <2>1. CASE Get(w)
    <3>1. First \in queue /\ First \in Requests BY <2>1, FirstQueued DEF Get, TypeOK
    <3>2. batch'[w] = <<First>> /\ queue' = queue \ {First} /\ pc'[w] = "collect"
      BY <2>1 DEF Get, Goto, TypeOK
    <3>3. q = First BY <3>2 DEF InBatch
    <3>4. gate # First BY <3>1 DEF Held
    <3> QED BY <3>1, <3>2, <3>3, <3>4 DEF Queued
  <2>3. CASE Collect(w)
    <3>1. First \in queue /\ First \in Requests BY <2>3, FirstQueued DEF Collect, TypeOK
    <3>2. batch'[w] = Append(batch[w], First) /\ queue' = queue \ {First} /\ pc'[w] = "collect" /\ pc[w] = "collect"
      BY <2>3 DEF Collect, TypeOK
    <3>3. batch[w] \in Seq(Requests) BY DEF TypeOK
    <3>4. InBatch(w)' = InBatch(w) \cup {First} BY <3>1, <3>2, <3>3, AppendedBatch DEF InBatch
    <3>5. gate # First BY <3>1 DEF Held
    <3>6. CASE q = First BY <3>1, <3>2, <3>5, <3>6 DEF Queued
    <3>7. CASE q \in InBatch(w) BY <3>2, <3>7 DEF Batched
    <3> QED BY <1>5, <3>4, <3>6, <3>7
  <2>4. CASE StopCollecting(w)
    <3>1. pc'[w] = "execute" /\ pc[w] = "collect" /\ batch' = batch /\ queue' = queue
      BY <2>4 DEF StopCollecting, Goto, TypeOK
    <3>2. q \in InBatch(w) BY <1>5, <3>1 DEF InBatch
    <3> QED BY <3>1, <3>2 DEF Batched
  <2> QED BY <2>1, <2>3, <2>4
<1>6. Batched'
  <2> SUFFICES ASSUME NEW v \in Writers, NEW q \in InBatch(v)'
               PROVE  /\ pc'[v] \in {"collect", "execute"} => Handed(q) /\ gate # q /\ q \notin queue'
                      /\ pc'[v] \in {"resolve", "record"} => number[q] # 0 /\ outcome[q] # "none"
                      /\ pc'[v] = "record" => future[q] # "pending"
    BY <1>1 DEF Batched
  <2>1. CASE v = w BY <1>5, <2>1
  <2>2. CASE v # w
    <3>1. pc'[v] \notin Loop BY <1>1, <1>2, <2>2, OtherBatches
    <3> QED BY <1>0, <3>1
  <2> QED BY <2>1, <2>2
<1> QED BY <1>3, <1>4, <1>6

(* A transaction decides its batch and nothing else. *)
LEMMA DecidePlaces ==
    ASSUME TypeOK, ThreadInv, PlaceInv, NEW w \in Writers,
           \/ TransactionFails(w)
           \/ \E failed \in SUBSET Requests : ExecuteBatch(w, failed) \/ NotificationFails(w, failed)
    PROVE  PlaceInv'
<1> USE DEF PlaceInv, Handed
<1>0. {"get", "collect", "execute", "resolve", "record", "refresh", "clear", "recheck"} = Loop BY DEF Loop
<1>1. /\ gate' = gate /\ number' = number /\ pending' = pending /\ future' = future /\ queue' = queue
      /\ batch' = batch /\ pc[w] = "execute" /\ pc'[w] = "resolve"
      /\ \A v \in Writers : v # w => pc'[v] = pc[v]
  BY DEF TransactionFails, ExecuteBatch, NotificationFails, Commit, Goto, submitVars, watermarkVars, TypeOK
<1>2. \A r \in Requests : r \notin InBatch(w) => outcome'[r] = outcome[r] /\ stamp'[r] = stamp[r]
  BY DEF TransactionFails, ExecuteBatch, NotificationFails, Commit
<1>3. \A r \in Requests : r \in InBatch(w) => outcome'[r] # "none"
  BY DEF TransactionFails, ExecuteBatch, NotificationFails, Commit
<1>4. \A r \in Requests : r \in InBatch(w) => number[r] # 0 /\ outcome[r] = "none" /\ gate # r /\ r \notin queue
  BY <1>1 DEF Batched
<1>5. OneSerial' BY <1>1 DEF OneSerial
<1>6. Fresh' BY <1>1, <1>2, <1>4 DEF Fresh
<1>7. Held' BY <1>1, <1>2, <1>4 DEF Held
<1>8. Queued' BY <1>1, <1>2, <1>4 DEF Queued, TypeOK
<1>9. Finished' BY <1>1, <1>2, <1>3 DEF Finished
<1>10. Applied'
  <2>1. CASE TransactionFails(w) BY <1>4, <2>1 DEF TransactionFails, Applied
  <2>2. CASE \E failed \in SUBSET Requests : ExecuteBatch(w, failed) \/ NotificationFails(w, failed)
    <3>1. PICK failed \in SUBSET Requests : ExecuteBatch(w, failed) \/ NotificationFails(w, failed) BY <2>2
    <3>2. \A r \in InBatch(w) : StampOf(w, r) # NoStamp BY StampTyped
    <3> QED BY <1>4, <3>1, <3>2 DEF ExecuteBatch, NotificationFails, Commit, Applied
  <2> QED BY <2>1, <2>2
<1>11. Batched'
  <2> SUFFICES ASSUME NEW v \in Writers, NEW q \in InBatch(v)
               PROVE  /\ pc'[v] \in {"collect", "execute"} => number[q] # 0 /\ outcome'[q] = "none" /\ gate # q /\ q \notin queue
                      /\ pc'[v] \in {"resolve", "record"} => number[q] # 0 /\ outcome'[q] # "none"
                      /\ pc'[v] = "record" => future[q] # "pending"
    BY <1>1 DEF Batched, InBatch
  <2>0. q \in Requests BY BatchTyped
  <2>1. CASE v = w BY <1>1, <1>3, <1>4, <2>0, <2>1
  <2>2. CASE v # w
    <3>1. pc'[v] \notin Loop BY <1>0, <1>1, <2>2, OtherBatches
    <3> QED BY <1>0, <3>1
  <2> QED BY <2>1, <2>2
<1> QED BY <1>5, <1>6, <1>7, <1>8, <1>9, <1>10, <1>11

(* The futures are resolved before the serials are recorded. *)
LEMMA FinishPlaces ==
    ASSUME TypeOK, ThreadInv, PlaceInv, NEW w \in Writers,
           \/ Resolve(w) \/ RecordCompleted(w) \/ RefreshUrgent(w) \/ ClearUrgent(w)
           \/ Recheck(w) \/ Retire(w)
    PROVE  PlaceInv'
<1> USE DEF PlaceInv, Handed
<1>0. {"get", "collect", "execute", "resolve", "record", "refresh", "clear", "recheck"} = Loop BY DEF Loop
<1>1. /\ gate' = gate /\ number' = number /\ queue' = queue /\ outcome' = outcome /\ stamp' = stamp
      /\ \A v \in Writers : v # w => pc'[v] = pc[v] /\ batch'[v] = batch[v]
      /\ \A r \in Requests : future'[r] = "pending" => future[r] = "pending"
  BY DEF Resolve, RecordCompleted, RefreshUrgent, ClearUrgent, Recheck, Retire, Goto, submitVars, watermarkVars, databaseVars, TypeOK
<1>2. OneSerial' /\ Fresh' /\ Held' /\ Queued' /\ Applied'
  BY <1>1 DEF OneSerial, Fresh, Held, Queued, Applied
<1>3. Finished'
  <2>1. CASE RecordCompleted(w)
    <3>1. pending' = pending \ {number[r] : r \in InBatch(w)} /\ future' = future /\ pc[w] = "record"
      BY <2>1 DEF RecordCompleted
    <3>2. SUFFICES ASSUME NEW r \in Requests, number[r] # 0, number[r] \notin pending'
                   PROVE  outcome[r] # "none" /\ future[r] # "pending"
      BY <1>1, <3>1 DEF Finished
    <3>3. CASE number[r] \notin pending BY <3>2, <3>3 DEF Finished
    <3>4. CASE number[r] \in pending
      <4>1. PICK q \in InBatch(w) : number[r] = number[q] BY <3>1, <3>2, <3>4
      <4>2. q \in Requests BY BatchTyped
      <4>3. q = r BY <3>2, <4>1, <4>2 DEF OneSerial
      <4> QED BY <3>1, <4>1, <4>3 DEF Batched
    <3> QED BY <3>3, <3>4
  <2>2. CASE Resolve(w) \/ RefreshUrgent(w) \/ ClearUrgent(w) \/ Recheck(w) \/ Retire(w)
    BY <1>1, <2>2 DEF Resolve, RefreshUrgent, ClearUrgent, Recheck, Retire, watermarkVars, Finished
  <2> QED BY <2>1, <2>2
<1>4. Batched'
  <2>1. ASSUME NEW v \in Writers, NEW q \in InBatch(v)', v # w
        PROVE  /\ pc'[v] \in {"collect", "execute"} => Handed(q) /\ gate # q /\ q \notin queue
               /\ pc'[v] \in {"resolve", "record"} => number[q] # 0 /\ outcome[q] # "none"
               /\ pc'[v] = "record" => future'[q] # "pending"
    <3>1. q \in InBatch(v) BY <1>1, <2>1 DEF InBatch
    <3>2. q \in Requests BY <3>1, BatchTyped
    <3> QED BY <1>1, <2>1, <3>1, <3>2 DEF Batched
  <2>2. ASSUME NEW q \in InBatch(w)'
        PROVE  /\ pc'[w] \notin {"collect", "execute", "resolve"}
               /\ pc'[w] = "record" => number[q] # 0 /\ outcome[q] # "none" /\ future'[q] # "pending"
    <3>1. CASE Resolve(w)
      <4>1. pc[w] = "resolve" /\ pc'[w] = "record" /\ batch' = batch BY <3>1 DEF Resolve, Goto, TypeOK
      <4>2. q \in InBatch(w) BY <2>2, <4>1 DEF InBatch
      <4>3. q \in Requests /\ number[q] # 0 /\ outcome[q] # "none" BY <4>1, <4>2, BatchTyped DEF Batched
      <4>4. outcome[q] \in {"ok", "error"} BY <4>3 DEF TypeOK
      <4>5. future'[q] = IF future[q] = "pending" THEN outcome[q] ELSE future[q] BY <3>1, <4>2, <4>3 DEF Resolve
      <4> QED BY <4>1, <4>3, <4>4, <4>5
    <3>2. CASE RecordCompleted(w) \/ RefreshUrgent(w) \/ ClearUrgent(w) \/ Recheck(w) \/ Retire(w)
      BY <3>2 DEF RecordCompleted, RefreshUrgent, ClearUrgent, Recheck, Retire, Goto, TypeOK
    <3> QED BY <3>1, <3>2
  <2> QED BY <1>1, <2>1, <2>2 DEF Batched
<1> QED BY <1>2, <1>3, <1>4

LEMMA Places ==
    ASSUME TypeOK, ThreadInv, WatermarkInv, PlaceInv, Next
    PROVE  PlaceInv'
BY SubmitPlaces, BarrierPlaces, TakePlaces, DecidePlaces, FinishPlaces DEF Next, WriterStep

LEMMA Barriers ==
    ASSUME TypeOK, BarrierInv, Next
    PROVE  BarrierInv'
<1> USE DEF TypeOK, BarrierInv
<1>1. ASSUME NEW r \in Requests, NewRequest(r) PROVE BarrierInv'
  BY <1>1, WriterAssumption DEF NewRequest, GateFree
<1>2. ASSUME NEW r \in Requests, Enqueue(r) PROVE BarrierInv'
  BY <1>2, WriterAssumption DEF Enqueue
<1>3. ASSUME NEW c \in Callers, BarrierStart(c) PROVE BarrierInv'
  <2>1. bar' = [bar EXCEPT ![c] = [pc |-> "waiting", target |-> serial]] /\ serial' = serial
    BY <1>3 DEF BarrierStart
  <2>2. \A d \in Callers : bar'[d] = IF d = c THEN [pc |-> "waiting", target |-> serial] ELSE bar[d] BY <2>1
  <2>3. \A d \in Closers : d # c /\ bar[d].pc = "waiting" => gate' = gate
    BY <1>3, WriterAssumption DEF BarrierStart, GateFree
  <2>4. c \in Closers => gate' = c BY <1>3 DEF BarrierStart
  <2> QED BY <2>1, <2>2, <2>3, <2>4
<1>4. ASSUME NEW c \in Callers, BarrierReturn(c) PROVE BarrierInv'
  <2>1. \A d \in Callers : bar'[d].target = bar[d].target /\ bar'[d].pc = IF d = c THEN "returned" ELSE bar[d].pc
    BY <1>4 DEF BarrierReturn
  <2>2. serial' = serial BY <1>4 DEF BarrierReturn
  <2>3. \A d \in Closers : d # c /\ bar[d].pc = "waiting" => gate' = gate
    BY <1>4, WriterAssumption DEF BarrierReturn
  <2> QED BY <2>1, <2>2, <2>3
<1>5. ASSUME UNCHANGED <<gate, serial, bar>> PROVE BarrierInv' BY <1>5
<1> QED BY <1>1, <1>2, <1>3, <1>4, <1>5 DEF Next, WriterStep, CancelFuture, Get, Collect,
       StopCollecting, ExecuteBatch, NotificationFails, Commit, TransactionFails, Resolve,
       RecordCompleted, RefreshUrgent, ClearUrgent, Recheck, Retire,
       submitVars

(***************************************************************************)
(* Admission pressure.                                                     *)
(***************************************************************************)
LEMMA Uniform ==
    ASSUME TypeOK, UniformInv, Next
    PROVE  UniformInv'
<1>0. InHand = {"collect", "execute", "resolve", "record", "refresh", "clear"} BY DEF InHand, Loop
<1>1. ASSUME NEW w \in Writers, Get(w) PROVE UniformInv'
  <2>1. batch' = [batch EXCEPT ![w] = <<First>>] /\ pc' = [pc EXCEPT ![w] = "collect"] BY <1>1 DEF Get, Goto
  <2>2. batch'[w] = <<First>> /\ \A v \in Writers : v # w => batch'[v] = batch[v] /\ pc'[v] = pc[v]
    BY <2>1 DEF TypeOK
  <2>3. batch'[w] # <<>> /\ \A x \in InBatch(w)' : x = First /\ batch'[w][1] = First BY <2>2 DEF InBatch
  <2> QED BY <2>2, <2>3 DEF UniformInv, InBatch
<1>2. ASSUME NEW w \in Writers, Collect(w) PROVE UniformInv'
  <2>1. batch' = [batch EXCEPT ![w] = Append(batch[w], First)] /\ pc' = pc /\ pc[w] \in InHand
        /\ Priority[First] = Priority[batch[w][1]]
    BY <1>0, <1>2 DEF Collect
  <2>2. batch'[w] = Append(batch[w], First) /\ \A v \in Writers : v # w => batch'[v] = batch[v]
    BY <2>1 DEF TypeOK
  <2>3. batch[w] \in Seq(Requests) /\ First \in Requests BY <1>2, FirstQueued DEF Collect, TypeOK
  <2>4. InBatch(w)' = InBatch(w) \cup {First} BY <2>2, <2>3, AppendedBatch DEF InBatch
  <2>5. batch[w] # <<>> BY <2>1 DEF UniformInv
  <2>6. batch'[w] # <<>> /\ batch'[w][1] = batch[w][1] BY <2>2, <2>3, <2>5
  <2>7. \A r \in InBatch(w)' : Priority[r] = Priority[batch'[w][1]] BY <2>1, <2>4, <2>6 DEF UniformInv
  <2> QED BY <2>1, <2>2, <2>6, <2>7 DEF UniformInv, InBatch
<1>3. ASSUME batch' = batch, \A v \in Writers : pc'[v] \in InHand => pc[v] \in InHand PROVE UniformInv'
  BY <1>3 DEF UniformInv, InBatch
<1>4. ASSUME NEW w \in Writers, Recheck(w) PROVE UniformInv'
  <2>1. pc'[w] \notin InHand /\ \A v \in Writers : v # w => batch'[v] = batch[v] /\ pc'[v] = pc[v]
    BY <1>0, <1>4 DEF Recheck, Goto, TypeOK
  <2> QED BY <2>1 DEF UniformInv, InBatch
<1>5. ASSUME NEW w \in Writers,
             \/ StopCollecting(w)
             \/ \E failed \in SUBSET Requests : ExecuteBatch(w, failed) \/ NotificationFails(w, failed)
             \/ TransactionFails(w) \/ Resolve(w) \/ RecordCompleted(w) \/ RefreshUrgent(w) \/ ClearUrgent(w)
             \/ Retire(w)
      PROVE  UniformInv'
  <2>1. batch' = batch /\ \A v \in Writers : pc'[v] \in InHand => pc[v] \in InHand
    BY <1>0, <1>5 DEF StopCollecting, ExecuteBatch, NotificationFails, Commit,
       TransactionFails, Resolve, RecordCompleted,
       RefreshUrgent, ClearUrgent, Retire, Goto, TypeOK
  <2> QED BY <1>3, <2>1
<1>6. ASSUME NEW r \in Requests, NewRequest(r) \/ Enqueue(r) \/ CancelFuture(r) PROVE UniformInv'
  <2>1. batch' = batch /\ \A v \in Writers : pc'[v] \in InHand => pc[v] \in InHand
    BY <1>0, <1>6 DEF NewRequest, Enqueue, CancelFuture, writerVars, TypeOK
  <2> QED BY <1>3, <2>1
<1>7. ASSUME NEW c \in Callers, BarrierStart(c) \/ BarrierReturn(c) PROVE UniformInv'
  <2>1. batch' = batch /\ pc' = pc BY <1>7 DEF BarrierStart, BarrierReturn, writerVars
  <2> QED BY <1>3, <2>1
<1> QED BY <1>1, <1>2, <1>4, <1>5, <1>6, <1>7 DEF Next, WriterStep

(* The flag is cleared only when the queue holds no urgent request, and a  *)
(* writer whose batch is not urgent has no urgent request in hand.         *)
Waiting(r) == \/ gate = r \/ r \in queue
              \/ \E w \in Writers : pc[w] \in InHand /\ r \in InBatch(w)

LEMMA Pressure ==
    ASSUME TypeOK, ThreadInv, PlaceInv, BarrierInv, UniformInv, PressureJustified, Next
    PROVE  PressureJustified'
<1>0. InHand = {"collect", "execute", "resolve", "record", "refresh", "clear"} BY DEF InHand, Loop
<1>1. SUFFICES ASSUME urgent' PROVE \E r \in Requests : IsUrgent(r) /\ Waiting(r)'
  BY DEF PressureJustified, Waiting, IsUrgent, InHand
<1>2. ASSUME NEW r \in Requests, NewRequest(r) PROVE \E q \in Requests : IsUrgent(q) /\ Waiting(q)'
  <2>1. CASE IsUrgent(r) BY <1>2, <2>1 DEF NewRequest, Waiting
  <2>2. CASE ~ IsUrgent(r)
    <3>1. urgent /\ gate = Nobody /\ queue' = queue /\ pc' = pc /\ batch' = batch
      BY <1>1, <1>2, <2>2 DEF NewRequest, GateFree, writerVars
    <3>2. PICK q \in Requests : IsUrgent(q) /\ Waiting(q) BY <3>1 DEF PressureJustified, Waiting, InHand
    <3>3. gate # q BY <3>1, WriterAssumption
    <3> QED BY <3>1, <3>2, <3>3 DEF Waiting, InBatch
  <2> QED BY <2>1, <2>2
<1>3. ASSUME ~ \E r \in Requests : NewRequest(r) PROVE \E q \in Requests : IsUrgent(q) /\ Waiting(q)'
  <2>1. urgent /\ \A w \in Writers : ~ ClearUrgent(w)
    BY <1>1, <1>3 DEF Next, WriterStep, Enqueue, CancelFuture, BarrierStart, BarrierReturn, Get, Collect,
       StopCollecting, ExecuteBatch, NotificationFails, Commit, TransactionFails,
       Resolve, RecordCompleted, RefreshUrgent, ClearUrgent, Recheck,
       Retire, submitVars
  <2>2. PICK q \in Requests : IsUrgent(q) /\ Waiting(q) BY <2>1 DEF PressureJustified, Waiting, InHand
  <2>3. ASSUME NEW r \in Requests, Enqueue(r) \/ CancelFuture(r) PROVE Waiting(q)'
    <3>1. batch' = batch /\ queue \subseteq queue' /\ (gate = q => gate' = q \/ q \in queue')
          /\ \A v \in Writers : pc[v] \in InHand => pc'[v] \in InHand
      BY <1>0, <2>3 DEF Enqueue, CancelFuture, submitVars, writerVars, TypeOK
    <3> QED BY <2>2, <3>1 DEF Waiting, InBatch
  <2>4. ASSUME NEW c \in Callers, BarrierStart(c) \/ BarrierReturn(c) PROVE Waiting(q)'
    <3>1. batch' = batch /\ pc' = pc /\ queue' = queue BY <2>4 DEF BarrierStart, BarrierReturn, writerVars
    <3>2. gate = q => gate' = q
      BY <2>4, WriterAssumption DEF BarrierStart, BarrierReturn, GateFree, BarrierInv
    <3> QED BY <2>2, <3>1, <3>2 DEF Waiting, InBatch
  <2>5. ASSUME NEW w \in Writers, Get(w) \/ Collect(w) PROVE Waiting(q)'
    <3>1. queue' = queue \ {First} /\ First \in Requests /\ gate' = gate /\ pc'[w] = "collect"
          /\ \A v \in Writers : v # w => batch'[v] = batch[v] /\ pc'[v] = pc[v]
      BY <2>5, FirstQueued DEF Get, Collect, Goto, TypeOK, submitVars
    <3>2. First \in InBatch(w)' /\ (pc[w] \in InHand => InBatch(w) \subseteq InBatch(w)')
      <4>1. CASE Get(w)
        <5>1. batch'[w] = <<First>> /\ pc[w] \notin InHand BY <1>0, <4>1 DEF Get, TypeOK
        <5> QED BY <5>1 DEF InBatch
      <4>2. CASE Collect(w)
        <5>1. batch'[w] = Append(batch[w], First) /\ batch[w] \in Seq(Requests) BY <4>2 DEF Collect, TypeOK
        <5> QED BY SMTT(30), <3>1, <5>1, AppendedBatch DEF InBatch
      <4> QED BY <2>5, <4>1, <4>2
    <3>3. CASE gate = q BY <3>1, <3>3 DEF Waiting
    <3>4. CASE q \in queue BY <1>0, <3>1, <3>2, <3>4 DEF Waiting
    <3>5. CASE \E v \in Writers : pc[v] \in InHand /\ q \in InBatch(v)
      <4>1. PICK v \in Writers : pc[v] \in InHand /\ q \in InBatch(v) BY <3>5
      <4>2. q \in InBatch(v)' /\ pc'[v] \in InHand BY <1>0, <3>1, <3>2, <4>1 DEF InBatch
      <4> QED BY <4>2 DEF Waiting
    <3> QED BY <2>2, <3>3, <3>4, <3>5 DEF Waiting
  <2>6. ASSUME NEW w \in Writers, RecordCompleted(w) PROVE Waiting(q)'
    <3>1. batch' = batch /\ queue' = queue /\ gate' = gate /\ \A v \in Writers : v # w => pc'[v] = pc[v]
      BY <2>6 DEF RecordCompleted, submitVars, Goto, TypeOK
    <3>2. q \in InBatch(w) => pc'[w] = "refresh"
      <4>1. pc[w] \in InHand BY <1>0, <2>6 DEF RecordCompleted
      <4>2. q \in InBatch(w) => IsUrgent(batch[w][1]) BY <2>2, <4>1 DEF UniformInv, IsUrgent
      <4> QED BY <2>6, <4>2 DEF RecordCompleted, Goto, TypeOK
    <3> QED BY <1>0, <2>2, <3>1, <3>2 DEF Waiting, InBatch
  <2>7. ASSUME NEW w \in Writers, RefreshUrgent(w) PROVE \E x \in Requests : IsUrgent(x) /\ Waiting(x)'
    <3>1. batch' = batch /\ queue' = queue /\ gate' = gate /\ \A v \in Writers : v # w => pc'[v] = pc[v]
      BY <2>7 DEF RefreshUrgent, submitVars, Goto, TypeOK
    <3>2. CASE UrgentQueued = {}
      <4>1. pc'[w] = "clear" BY <2>7, <3>2 DEF RefreshUrgent, Goto, TypeOK
      <4> QED BY <1>0, <2>2, <3>1, <4>1 DEF Waiting, InBatch
    <3>3. CASE UrgentQueued # {}
      <4>1. PICK x \in queue : IsUrgent(x) BY <3>3 DEF UrgentQueued
      <4>2. x \in Requests BY DEF TypeOK
      <4> QED BY <3>1, <4>1, <4>2 DEF Waiting
    <3> QED BY <3>2, <3>3
  <2>8. ASSUME NEW w \in Writers,
               \/ StopCollecting(w)
               \/ \E failed \in SUBSET Requests : ExecuteBatch(w, failed) \/ NotificationFails(w, failed)
               \/ TransactionFails(w) \/ Resolve(w) \/ Recheck(w) \/ Retire(w)
        PROVE  Waiting(q)'
    <3>1. queue' = queue /\ gate' = gate
          /\ \A v \in Writers : pc[v] \in InHand => pc'[v] \in InHand /\ batch'[v] = batch[v]
      BY <1>0, <2>8 DEF StopCollecting, ExecuteBatch, NotificationFails, Commit,
         TransactionFails, Resolve, Recheck, Retire, Goto,
         TypeOK, submitVars
    <3> QED BY <2>2, <3>1 DEF Waiting, InBatch
  <2> QED BY <1>3, <2>1, <2>2, <2>3, <2>4, <2>5, <2>6, <2>7, <2>8 DEF Next, WriterStep
<1> QED BY <1>2, <1>3

(***************************************************************************)
(* Theorems.                                                               *)
(***************************************************************************)
(* The inductive invariant of the lane (mutation_writer.py, connection.py). *)
THEOREM Invariance == Spec => []IInv
<1>1. Init => IInv
  <2> SUFFICES ASSUME Init PROVE IInv OBVIOUS
  <2> USE DEF Init
  <2>1. <<>> \in Seq(Requests) /\ NoStamp \in Stamps BY DEF NoStamp, Stamps
  <2>2. \A w \in Writers : InBatch(w) = {} BY DEF InBatch
  <2>3. urgent \in BOOLEAN BY Zenon
  <2>4. bar \in [Callers -> [pc : {"idle", "waiting", "returned"}, target : Nat]] OBVIOUS
  <2>5. TypeOK BY <2>1, <2>3, <2>4 DEF TypeOK
  <2>6. ThreadInv /\ NeverIdles BY DEF ThreadInv, NeverIdles, Loop
  <2>7. WatermarkInv /\ BarrierInv BY WriterAssumption DEF WatermarkInv, WatermarkExact, BarrierInv
  <2>8. UniformInv /\ PressureJustified BY DEF UniformInv, PressureJustified, InHand, Loop
  <2>9. PlaceInv
    BY <2>2, WriterAssumption DEF PlaceInv, OneSerial, Fresh, Held, Queued, Batched, Finished, Applied
  <2> QED BY <2>5, <2>6, <2>7, <2>9, <2>8 DEF IInv
<1>2. IInv /\ [Next]_vars => IInv'
  <2>1. ASSUME IInv, Next PROVE IInv'
    BY <2>1, Typing, Threads, Idling, Watermarks, Places, Barriers, Uniform, Pressure DEF IInv, WatermarkInv
  <2>2. ASSUME IInv, UNCHANGED vars PROVE IInv'
    BY <2>2 DEF IInv, TypeOK, ThreadInv, NeverIdles, WatermarkInv, WatermarkExact, PlaceInv, OneSerial, Fresh, Held,
       Queued, Batched, InBatch, Finished, Applied, Handed, BarrierInv, UniformInv, PressureJustified, vars, submitVars, watermarkVars,
       writerVars, databaseVars
  <2> QED BY <2>1, <2>2
<1> QED BY <1>1, <1>2, PTL DEF Spec

(* Types, for any number of requests, callers and writer threads. *)
THEOREM TypeCorrect == Spec => []TypeOK
<1>1. IInv => TypeOK BY DEF IInv
<1> QED BY <1>1, Invariance, PTL

(* Two writer threads never run the loop of _run at once, however          *)
(* retirement and restart of the daemon interleave.                        *)
THEOREM OneWriter == Spec => []SingleWriter
<1>1. IInv => SingleWriter BY DEF IInv, ThreadInv, SingleWriter
<1> QED BY <1>1, Invariance, PTL

(* A queued request always has a running writer (_enqueue against _run).   *)
THEOREM NoneLost == Spec => []NoLostRequest
<1>1. IInv => NoLostRequest BY DEF IInv, ThreadInv, NoLostRequest
<1> QED BY <1>1, Invariance, PTL

(* The idle timeout of the get in _run cannot fire: a writer retires with  *)
(* the batch that drains the queue.                                        *)
THEOREM NeverIdle == Spec => []NeverIdles
<1>1. IInv => NeverIdles BY DEF IInv
<1> QED BY <1>1, Invariance, PTL

(* _completed_through is exact, for every pattern of completions and every *)
(* rebuild of the lazy heap (_record_completed).                           *)
THEOREM WatermarkCorrect == Spec => []WatermarkExact
<1>1. IInv => WatermarkExact BY DEF IInv, WatermarkInv
<1> QED BY <1>1, Invariance, PTL

(* The admission pressure of the API runner always has an urgent request   *)
(* behind it (_urgent_pending, _refresh_urgent_signal).                    *)
THEOREM PressureSound == Spec => []PressureJustified
<1>1. IInv => PressureJustified BY DEF IInv
<1> QED BY <1>1, Invariance, PTL

(* The safety of the lane as one statement (mutation_writer.py,            *)
(* connection.py): what run mutation_lane checks on three requests, for    *)
(* every value of the constants.                                           *)
THEOREM LaneSafety == Spec => []LaneSafe
<1>1. IInv => LaneSafe
  BY DEF IInv, LaneSafe, ThreadInv, SingleWriter, NoLostRequest, WatermarkInv
<1> QED BY <1>1, Invariance, PTL

(* What a barrier waited for is decided and told when it returns.          *)
LEMMA BarrierDone ==
    ASSUME IInv, NEW c \in Callers, BarrierReturn(c), NEW r \in Requests,
           number[r] # 0, number[r] <= bar[c].target
    PROVE  outcome[r] # "none" /\ future[r] # "pending"
<1>1. through >= bar[c].target BY DEF BarrierReturn
<1>2. number[r] \in Nat /\ bar[c].target \in Nat /\ through \in Nat /\ pending \subseteq Nat
  BY DEF IInv, TypeOK
<1>3. \A n \in pending : through < n BY DEF IInv, WatermarkInv, WatermarkExact
<1>4. number[r] \notin pending BY <1>1, <1>2, <1>3
<1> QED BY <1>4 DEF IInv, PlaceInv, Finished

(* close_database_connections goes on to release the connections only when *)
(* every mutation ever submitted is decided and told.                      *)
THEOREM CloseIsDrained == Spec => CloseDrains
<1> DEFINE Drain == \A c \in Closers : bar[c].pc = "waiting" /\ bar'[c].pc = "returned" =>
          \A r \in Requests : number[r] # 0 => future[r] # "pending" /\ outcome[r] # "none"
<1>1. IInv /\ [Next]_vars => [Drain]_vars
  <2> SUFFICES ASSUME IInv, Next, NEW c \in Closers, bar[c].pc = "waiting", bar'[c].pc = "returned",
                      NEW r \in Requests, number[r] # 0
               PROVE  future[r] # "pending" /\ outcome[r] # "none"
    OBVIOUS
  <2>1. c \in Callers BY WriterAssumption
  <2>2. BarrierReturn(c)
    <3>1. bar' # bar OBVIOUS
    <3>2. \E d \in Callers : BarrierStart(d) \/ BarrierReturn(d)
      BY <3>1 DEF Next, WriterStep, NewRequest, Enqueue, CancelFuture, Get, Collect, StopCollecting,
         ExecuteBatch, NotificationFails, Commit, TransactionFails, Resolve,
         RecordCompleted, RefreshUrgent, ClearUrgent, Recheck, Retire
    <3>3. PICK d \in Callers : BarrierStart(d) \/ BarrierReturn(d) BY <3>2
    <3>4. d = c BY <2>1, <3>3 DEF BarrierStart, BarrierReturn, IInv, TypeOK
    <3>5. ~ BarrierStart(c) BY DEF BarrierStart
    <3> QED BY <3>3, <3>4, <3>5
  <2>3. bar[c].target = serial /\ number[r] <= serial BY <2>1 DEF IInv, BarrierInv, TypeOK
  <2> QED BY <2>1, <2>2, <2>3, BarrierDone
<1> QED BY <1>1, Invariance, PTL DEF Spec, CloseDrains

(***************************************************************************)
(* The order of effects.  A request that is not decided is where the       *)
(* writer finds it before any younger one of its priority: the one at the  *)
(* gate is the youngest of all, a batch is sorted by serial and older than *)
(* what is still queued, and what has been decided is older than what has  *)
(* not.                                                                    *)
(***************************************************************************)
Gathering == {"collect", "execute"}
Located == \A r \in Requests : Handed(r) =>
    gate = r \/ r \in queue \/ \E w \in Writers : pc[w] \in Gathering /\ r \in InBatch(w)
Newest == \A r \in Requests : gate = r => number[r] = serial
Sorted == \A w \in Writers : pc[w] \in Gathering =>
    /\ \A i, j \in DOMAIN batch[w] : i < j => number[batch[w][i]] < number[batch[w][j]]
    /\ \A r \in InBatch(w), q \in queue : Priority[r] = Priority[q] => number[r] < number[q]
Decided == \A r, q \in Requests :
    Priority[r] = Priority[q] /\ number[r] # 0 /\ number[r] < number[q] /\ outcome[q] # "none"
        => outcome[r] # "none"
Past == \A r \in Requests : stamp[r] # NoStamp => stamp[r].txn <= txns
OrderInv == Located /\ Newest /\ Sorted /\ Decided /\ Past /\ SubmissionOrder

LEMMA BatchNumbers ==
    ASSUME IInv, NEW r \in Requests
    PROVE  number[r] \in Nat /\ serial \in Nat /\ number[r] <= serial
BY DEF IInv, TypeOK

(* Steps that neither number, queue, gather nor decide a request.          *)
LEMMA OrderFramed ==
    ASSUME OrderInv, UNCHANGED <<number, serial, gate, queue, batch, databaseVars>>,
           \A w \in Writers : pc'[w] \in Gathering <=> pc[w] \in Gathering
    PROVE  OrderInv'
<1>1. \A w \in Writers : InBatch(w)' = InBatch(w) BY DEF InBatch
<1>2. UNCHANGED <<outcome, stamp, txns>> BY DEF databaseVars
<1>3. Located' BY <1>1, <1>2 DEF OrderInv, Located, Handed
<1>4. Newest' BY DEF OrderInv, Newest
<1>5. Sorted' BY <1>1 DEF OrderInv, Sorted
<1>6. Decided' /\ Past' BY <1>2 DEF OrderInv, Decided, Past
<1>7. SubmissionOrder' BY <1>2 DEF OrderInv, SubmissionOrder, Earlier
<1> QED BY <1>3, <1>4, <1>5, <1>6, <1>7 DEF OrderInv

(* A new serial is above every other one.                                  *)
LEMMA OrderNumbered == ASSUME IInv, OrderInv, NEW r \in Requests, NewRequest(r) PROVE OrderInv'
<1>1. /\ gate = Nobody /\ number[r] = 0 /\ gate' = r /\ serial' = serial + 1
      /\ UNCHANGED <<queue, batch, pc, outcome, stamp, txns>>
    BY DEF NewRequest, GateFree, writerVars, databaseVars
<1>2. number'[r] = serial + 1 /\ \A q \in Requests \ {r} : number'[q] = number[q]
    BY DEF NewRequest, IInv, TypeOK
<1>3. \A q \in Requests : number[q] \in Nat /\ number[q] <= serial /\ serial \in Nat BY BatchNumbers
<1>4. outcome[r] = "none" /\ r \notin queue BY <1>1 DEF IInv, PlaceInv, Fresh
<1>5. \A w \in Writers : InBatch(w)' = InBatch(w) BY <1>1 DEF InBatch
<1>6. \A q \in Requests : gate # q BY <1>1, WriterAssumption
<1>7. Located'
    <2> SUFFICES ASSUME NEW q \in Requests, Handed(q)' 
                 PROVE  gate' = q \/ q \in queue \/ \E w \in Writers : pc[w] \in Gathering /\ q \in InBatch(w)
        BY <1>1, <1>5 DEF Located
    <2>1. CASE q = r BY <1>1, <2>1
    <2>2. CASE q # r
        <3>1. Handed(q) BY <1>1, <1>2, <2>2 DEF Handed
        <3> QED BY <1>6, <3>1 DEF OrderInv, Located
    <2> QED BY <2>1, <2>2
<1>8. Newest' BY <1>1, <1>2 DEF Newest
<1>9. \A w \in Writers : pc[w] \in Gathering => InBatch(w) \subseteq Requests \ {r}
    <2> SUFFICES ASSUME NEW w \in Writers, pc[w] \in Gathering PROVE InBatch(w) \subseteq Requests \ {r} OBVIOUS
    <2>1. InBatch(w) \subseteq Requests BY BatchTyped DEF IInv
    <2>2. \A q \in InBatch(w) : number[q] # 0 BY DEF IInv, PlaceInv, Batched, Handed, Gathering
    <2> QED BY <1>1, <2>1, <2>2
<1>10. Sorted'
    <2> SUFFICES ASSUME NEW w \in Writers, pc[w] \in Gathering
                 PROVE  /\ \A i, j \in DOMAIN batch[w] : i < j => number'[batch[w][i]] < number'[batch[w][j]]
                        /\ \A p \in InBatch(w), q \in queue : Priority[p] = Priority[q] => number'[p] < number'[q]
        BY <1>1, <1>5 DEF Sorted
    <2>1. \A i \in DOMAIN batch[w] : batch[w][i] \in InBatch(w) BY DEF InBatch
    <2>2. \A p \in InBatch(w) : number'[p] = number[p] BY <1>2, <1>9
    <2>3. \A q \in queue : number'[q] = number[q] BY <1>2, <1>4 DEF IInv, TypeOK
    <2> QED BY <2>1, <2>2, <2>3 DEF OrderInv, Sorted
<1>11. ASSUME NEW p \in Requests, NEW q \in Requests, Priority[p] = Priority[q], number'[p] # 0,
              number'[p] < number'[q], outcome[q] # "none"
       PROVE  number[p] # 0 /\ number[p] < number[q]
    BY <1>2, <1>3, <1>4, <1>11
<1>12. Decided' /\ Past' BY <1>1, <1>11 DEF OrderInv, Decided, Past
<1>13. SubmissionOrder' BY <1>1, <1>11 DEF OrderInv, SubmissionOrder, Earlier
<1> QED BY <1>7, <1>8, <1>10, <1>12, <1>13 DEF OrderInv

LEMMA OrderEnqueued == ASSUME IInv, OrderInv, NEW r \in Requests, Enqueue(r) PROVE OrderInv'
<1>1. /\ gate = r /\ gate' = Nobody /\ queue' = queue \cup {r}
      /\ UNCHANGED <<serial, number, batch, outcome, stamp, txns>>
    BY DEF Enqueue, databaseVars
<1>2. \A w \in Writers : pc'[w] \in Gathering <=> pc[w] \in Gathering
    BY DEF Enqueue, Gathering, IInv, TypeOK
<1>3. \A w \in Writers : InBatch(w)' = InBatch(w) BY <1>1 DEF InBatch
<1>4. Located' BY <1>1, <1>2, <1>3 DEF OrderInv, Located, Handed
<1>5. Newest' BY <1>1, WriterAssumption DEF Newest
<1>6. ASSUME NEW w \in Writers, pc[w] \in Gathering, NEW p \in InBatch(w) PROVE number[p] < number[r]
    <2>1. p \in Requests BY BatchTyped DEF IInv
    <2>2. Handed(p) /\ gate # p BY <1>6 DEF IInv, PlaceInv, Batched, Gathering
    <2>3. number[p] # number[r] BY <1>1, <2>1, <2>2 DEF IInv, PlaceInv, OneSerial, Handed
    <2>4. number[r] = serial BY <1>1 DEF OrderInv, Newest
    <2> QED BY <2>1, <2>3, <2>4, BatchNumbers
<1>7. Sorted' BY <1>1, <1>2, <1>3, <1>6 DEF OrderInv, Sorted
<1>8. Decided' /\ Past' BY <1>1 DEF OrderInv, Decided, Past
<1>9. SubmissionOrder' BY <1>1 DEF OrderInv, SubmissionOrder, Earlier
<1> QED BY <1>4, <1>5, <1>7, <1>8, <1>9 DEF OrderInv

(* The request taken from the queue is older than the rest of it.          *)
LEMMA FirstOldest ==
    ASSUME IInv, queue # {}
    PROVE  /\ First \in queue /\ First \in Requests
           /\ \A q \in queue \ {First} : Priority[First] = Priority[q] => number[First] < number[q]
<1>1. First \in queue /\ First \in Requests BY FirstQueued DEF IInv, TypeOK
<1>2. \A q \in queue : q \in Requests /\ Handed(q) BY DEF IInv, TypeOK, PlaceInv, Queued
<1> SUFFICES ASSUME NEW q \in queue \ {First}, Priority[First] = Priority[q]
             PROVE  number[First] < number[q]
    BY <1>1
<1>3. number[First] # number[q] BY <1>1, <1>2 DEF IInv, PlaceInv, OneSerial, Handed
<1>4. Priority[First] \in Nat /\ Priority[q] \in Nat BY <1>1, <1>2, WriterAssumption
<1>5. number[First] <= number[q] BY <1>4, FirstQueued DEF IInv
<1> QED BY <1>1, <1>2, <1>3, <1>5, BatchNumbers

LEMMA OrderTaken == ASSUME IInv, OrderInv, NEW w \in Writers, Get(w) PROVE OrderInv'
<1>1. PICK f : f = First OBVIOUS
<1>2. /\ pc[w] = "get" /\ queue # {} /\ queue' = queue \ {f} /\ batch' = [batch EXCEPT ![w] = <<f>>]
      /\ pc' = [pc EXCEPT ![w] = "collect"] /\ UNCHANGED <<serial, number, gate, outcome, stamp, txns>>
    BY <1>1 DEF Get, Goto, submitVars, databaseVars
<1>3. /\ f \in queue /\ f \in Requests
      /\ \A q \in queue \ {f} : Priority[f] = Priority[q] => number[f] < number[q]
    BY <1>1, <1>2, FirstOldest
<1>4. /\ pc'[w] = "collect" /\ batch'[w] = <<f>>
      /\ \A v \in Writers \ {w} : pc'[v] = pc[v] /\ batch'[v] = batch[v]
    BY <1>2 DEF IInv, TypeOK
<1>5. \A v \in Writers : pc[v] \notin Gathering
    BY <1>2, WriterAssumption DEF IInv, ThreadInv, Gathering, Loop
<1>6. InBatch(w)' = {f} /\ DOMAIN batch'[w] = {1} /\ batch'[w][1] = f BY <1>4 DEF InBatch
<1>7. Located' BY <1>2, <1>4, <1>5, <1>6 DEF OrderInv, Located, Handed, Gathering
<1>8. Newest' BY <1>2 DEF OrderInv, Newest
<1>9. Sorted' BY <1>2, <1>3, <1>4, <1>5, <1>6 DEF Sorted
<1>10. Decided' /\ Past' BY <1>2 DEF OrderInv, Decided, Past
<1>11. SubmissionOrder' BY <1>2 DEF OrderInv, SubmissionOrder, Earlier
<1> QED BY <1>7, <1>8, <1>9, <1>10, <1>11 DEF OrderInv

LEMMA OrderCollected == ASSUME IInv, OrderInv, NEW w \in Writers, Collect(w) PROVE OrderInv'
<1>1. PICK f : f = First OBVIOUS
<1>2. /\ pc[w] = "collect" /\ queue # {} /\ queue' = queue \ {f}
      /\ batch' = [batch EXCEPT ![w] = Append(batch[w], f)]
      /\ Priority[f] = Priority[batch[w][1]]
      /\ UNCHANGED <<serial, number, gate, pc, outcome, stamp, txns>>
    BY <1>1 DEF Collect, submitVars, databaseVars
<1>3. /\ f \in queue /\ f \in Requests
      /\ \A q \in queue \ {f} : Priority[f] = Priority[q] => number[f] < number[q]
    BY <1>1, <1>2, FirstOldest
<1>4. PICK s : s = batch[w] OBVIOUS
<1>5. s \in Seq(Requests) /\ batch'[w] = Append(s, f) /\ \A v \in Writers \ {w} : batch'[v] = batch[v]
    BY <1>2, <1>4 DEF IInv, TypeOK
<1>6. InBatch(w)' = InBatch(w) \cup {f} BY <1>3, <1>4, <1>5, AppendedBatch DEF InBatch
<1>7. \A v \in Writers \ {w} : pc[v] \notin Gathering
    BY <1>2 DEF IInv, ThreadInv, Gathering, Loop
<1>8. \A p \in InBatch(w) : Priority[p] = Priority[f] /\ number[p] < number[f]
    <2>1. \A p \in InBatch(w) : Priority[p] = Priority[f]
        BY <1>2 DEF IInv, UniformInv, InHand, Loop
    <2> QED BY <1>2, <1>3, <2>1 DEF OrderInv, Sorted, Gathering
<1>9. Located' BY <1>2, <1>6, <1>7 DEF OrderInv, Located, Handed, Gathering
<1>10. Newest' BY <1>2 DEF OrderInv, Newest
<1>11. \A i, j \in DOMAIN Append(s, f) : i < j => number[Append(s, f)[i]] < number[Append(s, f)[j]]
    <2> SUFFICES ASSUME NEW i \in DOMAIN Append(s, f), NEW j \in DOMAIN Append(s, f), i < j
                 PROVE  number[Append(s, f)[i]] < number[Append(s, f)[j]]
        OBVIOUS
    <2>1. /\ Len(s) \in Nat /\ DOMAIN s = 1 .. Len(s) /\ DOMAIN Append(s, f) = 1 .. Len(s) + 1
          /\ i \in DOMAIN s /\ Append(s, f)[i] = s[i]
        BY <1>3, <1>5
    <2>2. s[i] \in InBatch(w) BY <1>4, <2>1 DEF InBatch
    <2>3. CASE j = Len(s) + 1
        <3>1. Append(s, f)[j] = f BY <1>3, <1>5, <2>3
        <3> QED BY <1>8, <2>1, <2>2, <3>1
    <2>4. CASE j # Len(s) + 1
        <3>1. j \in DOMAIN s /\ Append(s, f)[j] = s[j] BY <1>3, <1>5, <2>1, <2>4
        <3> QED BY <1>2, <1>4, <2>1, <3>1 DEF OrderInv, Sorted, Gathering
    <2> QED BY <2>3, <2>4
<1>12. \A p \in InBatch(w) \cup {f}, q \in queue \ {f} : Priority[p] = Priority[q] => number[p] < number[q]
    BY <1>2, <1>3 DEF OrderInv, Sorted, Gathering
<1>13. Sorted' BY SMTT(30), <1>2, <1>5, <1>6, <1>7, <1>11, <1>12 DEF Sorted
<1>14. Decided' /\ Past' BY <1>2 DEF OrderInv, Decided, Past
<1>15. SubmissionOrder' BY <1>2 DEF OrderInv, SubmissionOrder, Earlier
<1> QED BY <1>9, <1>10, <1>13, <1>14, <1>15 DEF OrderInv

(* Of two requests of a batch, of one group or single, the older one takes *)
(* effect first.                                                           *)
LEMMA StampsOrdered ==
    ASSUME IInv, Sorted, NEW w \in Writers, pc[w] = "execute",
           NEW r \in InBatch(w), NEW q \in InBatch(w), Group[r] = Group[q], number[r] < number[q]
    PROVE  Earlier(StampOf(w, r), StampOf(w, q))
<1>1. batch[w] \in Seq(Requests) /\ txns \in Nat BY DEF IInv, TypeOK
<1>2. DOMAIN batch[w] \subseteq Nat BY <1>1
<1>3. PICK i \in DOMAIN batch[w] :
          batch[w][i] = r /\ StampOf(w, r) = [txn |-> txns + 1, unit |-> UnitOf(w, i), item |-> i]
    BY DEF InBatch, StampOf
<1>4. PICK j \in DOMAIN batch[w] :
          batch[w][j] = q /\ StampOf(w, q) = [txn |-> txns + 1, unit |-> UnitOf(w, j), item |-> j]
    BY DEF InBatch, StampOf
<1>5. r \in Requests /\ q \in Requests BY BatchTyped DEF IInv
<1>6. i < j
    <2>1. i # j /\ number[r] \in Nat /\ number[q] \in Nat BY <1>3, <1>4, <1>5, BatchNumbers
    <2>2. ~ (j < i) BY <1>3, <1>4, <2>1 DEF Sorted, Gathering
    <2> QED BY <1>2, <2>1, <2>2
<1>7. UnitOf(w, i) \in Nat /\ UnitOf(w, j) \in Nat BY UnitNat DEF IInv
<1> DEFINE Foremost(g) == CHOOSE k \in DOMAIN batch[w] :
               Group[batch[w][k]] = g /\ \A l \in DOMAIN batch[w] : Group[batch[w][l]] = g => k <= l
<1>8. UnitOf(w, i) = UnitOf(w, j) \/ (UnitOf(w, i) = i /\ UnitOf(w, j) = j)
    <2>1. /\ UnitOf(w, i) = IF Group[batch[w][i]] = NoGroup THEN i ELSE Foremost(Group[batch[w][i]])
          /\ UnitOf(w, j) = IF Group[batch[w][j]] = NoGroup THEN j ELSE Foremost(Group[batch[w][j]])
        BY Zenon DEF UnitOf
    <2> HIDE DEF Foremost
    <2>2. Group[batch[w][i]] = Group[batch[w][j]] BY <1>3, <1>4
    <2>3. Foremost(Group[batch[w][i]]) = Foremost(Group[batch[w][j]]) BY <2>2, Zenon
    <2> QED BY <2>1, <2>2, <2>3, Zenon
<1> QED BY <1>3, <1>4, <1>6, <1>7, <1>8 DEF Earlier

(* A transaction decides its batch, and with it everything older of the    *)
(* same priority.                                                          *)
LEMMA OrderDecided ==
    ASSUME IInv, OrderInv, NEW w \in Writers, pc[w] = "execute", pc' = [pc EXCEPT ![w] = "resolve"],
           UNCHANGED <<number, serial, gate, queue, batch>>, txns' \in {txns, txns + 1},
           \A r \in Requests \ InBatch(w) : outcome'[r] = outcome[r] /\ stamp'[r] = stamp[r],
           \A r \in InBatch(w) : outcome'[r] # "none",
           \A r \in InBatch(w) : stamp'[r] # NoStamp => stamp'[r] = StampOf(w, r) /\ txns' = txns + 1
    PROVE  OrderInv'
<1>1. InBatch(w) \subseteq Requests BY BatchTyped DEF IInv
<1>2. \A r \in InBatch(w) : Handed(r) /\ outcome[r] = "none" BY DEF IInv, PlaceInv, Batched, Handed
<1>3. pc'[w] = "resolve" /\ \A v \in Writers \ {w} : pc'[v] = pc[v] BY DEF IInv, TypeOK
<1>4. \A v \in Writers : pc'[v] \notin Gathering
    <2>1. \A v \in Writers \ {w} : pc[v] \notin Gathering BY DEF IInv, ThreadInv, Gathering, Loop
    <2> QED BY <1>3, <2>1 DEF Gathering
<1>5. \A v \in Writers : pc[v] \in Gathering => v = w BY <1>3, <1>4
<1>6. Located'
    <2> SUFFICES ASSUME NEW r \in Requests, Handed(r)' PROVE gate = r \/ r \in queue BY DEF Located
    <2>1. r \notin InBatch(w) BY DEF Handed
    <2>2. Handed(r) BY <2>1 DEF Handed
    <2> QED BY <1>5, <2>1, <2>2 DEF OrderInv, Located
<1>7. Newest' BY DEF OrderInv, Newest
<1>8. Sorted' BY <1>4 DEF Sorted
<1>9. ASSUME NEW r \in Requests, NEW q \in InBatch(w), Priority[r] = Priority[q], number[r] # 0,
             number[r] < number[q]
      PROVE  outcome[r] # "none" \/ r \in InBatch(w)
    <2> SUFFICES ASSUME outcome[r] = "none", r \notin InBatch(w) PROVE FALSE OBVIOUS
    <2>0. number[r] \in Nat /\ number[q] \in Nat /\ number[q] <= serial /\ serial \in Nat BY <1>1, BatchNumbers
    <2>1. gate = r \/ r \in queue BY <1>5, <1>9 DEF OrderInv, Located, Handed
    <2>2. gate # r BY <1>9, <2>0 DEF OrderInv, Newest
    <2>3. r \notin queue BY <1>9, <2>0 DEF OrderInv, Sorted, Gathering
    <2> QED BY <2>1, <2>2, <2>3
<1>10. ASSUME NEW r \in InBatch(w), NEW q \in Requests, Priority[r] = Priority[q],
              number[r] < number[q], outcome'[q] # "none"
       PROVE  q \in InBatch(w)
    <2>1. number[r] # 0 BY <1>2 DEF Handed
    <2>2. outcome[q] = "none" BY <1>1, <1>2, <1>10, <2>1 DEF OrderInv, Decided
    <2> QED BY <1>10, <2>2
<1>11. Decided'
    <2> SUFFICES ASSUME NEW r \in Requests, NEW q \in Requests, Priority[r] = Priority[q], number[r] # 0,
                        number[r] < number[q], outcome'[q] # "none", r \notin InBatch(w)
                 PROVE  outcome'[r] # "none"
        BY DEF Decided
    <2>1. CASE q \in InBatch(w) BY <1>9, <2>1
    <2>2. CASE q \notin InBatch(w) BY <2>2 DEF OrderInv, Decided
    <2> QED BY <2>1, <2>2
<1>12. txns \in Nat /\ \A r \in Requests : stamp[r] \in Stamps BY DEF IInv, TypeOK
<1>13. \A r \in InBatch(w) : StampOf(w, r).txn = txns + 1 BY DEF StampOf
<1>14. \A r \in Requests : stamp[r].txn \in Nat BY <1>12 DEF Stamps
<1>15. Past'
    <2> SUFFICES ASSUME NEW r \in Requests, stamp'[r] # NoStamp PROVE stamp'[r].txn <= txns' BY DEF Past
    <2>1. CASE r \in InBatch(w) BY <1>12, <1>13, <2>1
    <2>2. CASE r \notin InBatch(w)
        <3>1. stamp[r].txn <= txns BY <2>2 DEF OrderInv, Past
        <3> QED BY <1>12, <1>14, <2>2, <3>1
    <2> QED BY <2>1, <2>2
<1>16. SubmissionOrder'
    <2> SUFFICES ASSUME NEW r \in Requests, NEW q \in Requests, Priority[r] = Priority[q],
                        Group[r] = Group[q], number[r] # 0, number[r] < number[q],
                        stamp'[r] # NoStamp, stamp'[q] # NoStamp
                 PROVE  Earlier(stamp'[r], stamp'[q])
        BY <1>11 DEF SubmissionOrder, Decided, Earlier
    <2>0. outcome'[q] # "none"
        BY DEF IInv, PlaceInv, Applied
    <2>1. CASE r \in InBatch(w)
        <3>1. q \in InBatch(w) BY <1>10, <2>0, <2>1
        <3> QED BY <2>1, <3>1, StampsOrdered DEF OrderInv
    <2>2. CASE r \notin InBatch(w) /\ q \in InBatch(w)
        <3>1. stamp'[r] = stamp[r] /\ stamp[r].txn <= txns BY <2>2 DEF OrderInv, Past
        <3>2. stamp'[q].txn = txns + 1 BY <1>13, <2>2
        <3> QED BY <1>12, <1>14, <3>1, <3>2 DEF Earlier
    <2>3. CASE r \notin InBatch(w) /\ q \notin InBatch(w)
        BY <2>0, <2>3 DEF OrderInv, SubmissionOrder
    <2> QED BY <2>1, <2>2, <2>3
<1> QED BY <1>6, <1>7, <1>8, <1>11, <1>15, <1>16 DEF OrderInv

LEMMA OrderStep == IInv /\ OrderInv /\ [Next]_vars => OrderInv'
<1> SUFFICES ASSUME IInv, OrderInv, [Next]_vars PROVE OrderInv' OBVIOUS
<1>1. CASE UNCHANGED vars BY <1>1, OrderFramed DEF vars, submitVars, writerVars
<1>2. ASSUME NEW r \in Requests, NewRequest(r) \/ Enqueue(r) PROVE OrderInv'
    BY <1>2, OrderNumbered, OrderEnqueued
<1>3. ASSUME NEW r \in Requests, CancelFuture(r) PROVE OrderInv'
    BY <1>3, OrderFramed DEF CancelFuture, submitVars, writerVars
<1>4. ASSUME NEW c \in Callers, BarrierStart(c) \/ BarrierReturn(c) PROVE OrderInv'
    <2>1. /\ UNCHANGED <<number, serial, queue, batch, pc, outcome, stamp, txns>>
          /\ \A r \in Requests : gate' = r <=> gate = r
        <3>1. UNCHANGED <<number, serial, queue, batch, pc, outcome, stamp, txns>>
            BY <1>4 DEF BarrierStart, BarrierReturn, writerVars, databaseVars
        <3>2. c \notin Requests /\ Nobody \notin Requests BY WriterAssumption
        <3>3. CASE BarrierStart(c) BY <3>1, <3>2, <3>3 DEF BarrierStart, GateFree
        <3>4. CASE BarrierReturn(c)
            <4>1. c \in Closers => gate = c BY <3>4 DEF BarrierReturn, IInv, BarrierInv
            <4> QED BY <3>1, <3>2, <3>4, <4>1 DEF BarrierReturn
        <3> QED BY <1>4, <3>3, <3>4
    <2>2. \A w \in Writers : InBatch(w)' = InBatch(w) BY <2>1 DEF InBatch
    <2>3. Located' BY <2>1, <2>2 DEF OrderInv, Located, Handed
    <2>4. Newest' BY <2>1 DEF OrderInv, Newest
    <2>5. Sorted' BY <2>1, <2>2 DEF OrderInv, Sorted
    <2>6. Decided' /\ Past' BY <2>1 DEF OrderInv, Decided, Past
    <2>7. SubmissionOrder' BY <2>1 DEF OrderInv, SubmissionOrder, Earlier
    <2> QED BY <2>3, <2>4, <2>5, <2>6, <2>7 DEF OrderInv
<1>5. ASSUME NEW w \in Writers, Get(w) \/ Collect(w) PROVE OrderInv'
    BY <1>5, OrderTaken, OrderCollected
<1>6. ASSUME NEW w \in Writers, StopCollecting(w) \/ Resolve(w) \/ RecordCompleted(w)
                                \/ RefreshUrgent(w) \/ ClearUrgent(w) \/ Retire(w)
      PROVE  OrderInv'
    <2>1. UNCHANGED <<number, serial, gate, queue, batch, databaseVars>>
        BY <1>6 DEF StopCollecting, Resolve, RecordCompleted, RefreshUrgent, ClearUrgent, Retire, submitVars
    <2>2. \A v \in Writers : pc'[v] \in Gathering <=> pc[v] \in Gathering
        BY <1>6 DEF StopCollecting, Resolve, RecordCompleted, RefreshUrgent, ClearUrgent, Retire, Goto,
                    Gathering, IInv, TypeOK
    <2> QED BY <2>1, <2>2, OrderFramed
<1>7. ASSUME NEW w \in Writers, Recheck(w) PROVE OrderInv'
    <2>1. /\ pc[w] = "recheck" /\ UNCHANGED <<number, serial, gate, queue, outcome, stamp, txns>>
          /\ pc'[w] \notin Gathering
          /\ \A v \in Writers \ {w} : pc'[v] = pc[v] /\ batch'[v] = batch[v]
        BY <1>7 DEF Recheck, Goto, Gathering, submitVars, databaseVars, IInv, TypeOK
    <2>2. \A v \in Writers : v # w => InBatch(v)' = InBatch(v) BY <2>1 DEF InBatch
    <2>3. pc[w] \notin Gathering BY <2>1 DEF Gathering
    <2>4. Located' BY <2>1, <2>2, <2>3 DEF OrderInv, Located, Handed
    <2>5. Newest' BY <2>1 DEF OrderInv, Newest
    <2>6. Sorted' BY <2>1, <2>2, <2>3 DEF OrderInv, Sorted
    <2>7. Decided' /\ Past' BY <2>1 DEF OrderInv, Decided, Past
    <2>8. SubmissionOrder' BY <2>1 DEF OrderInv, SubmissionOrder, Earlier
    <2> QED BY <2>4, <2>5, <2>6, <2>7, <2>8 DEF OrderInv
<1>8. ASSUME NEW w \in Writers, NEW failed \in SUBSET Requests,
             ExecuteBatch(w, failed) \/ NotificationFails(w, failed)
      PROVE  OrderInv'
    <2>1. /\ pc[w] = "execute" /\ pc' = [pc EXCEPT ![w] = "resolve"] /\ txns' = txns + 1
          /\ UNCHANGED <<number, serial, gate, queue, batch>>
        BY <1>8 DEF ExecuteBatch, NotificationFails, Commit, Goto, submitVars
    <2>2. InBatch(w) \subseteq Requests BY BatchTyped DEF IInv
    <2>3. \A r \in InBatch(w) : stamp[r] = NoStamp
        BY <2>1, <2>2 DEF IInv, PlaceInv, Batched, Handed, Applied
    <2>4. /\ \A r \in Requests \ InBatch(w) : outcome'[r] = outcome[r] /\ stamp'[r] = stamp[r]
          /\ \A r \in InBatch(w) : outcome'[r] # "none"
          /\ \A r \in InBatch(w) : stamp'[r] # NoStamp => stamp'[r] = StampOf(w, r)
        BY <1>8, <2>2, <2>3 DEF ExecuteBatch, NotificationFails, Commit
    <2> QED BY <2>1, <2>3, <2>4, OrderDecided
<1>9. ASSUME NEW w \in Writers, TransactionFails(w) PROVE OrderInv'
    <2>1. /\ pc[w] = "execute" /\ pc' = [pc EXCEPT ![w] = "resolve"]
          /\ UNCHANGED <<number, serial, gate, queue, batch, stamp, txns>>
        BY <1>9 DEF TransactionFails, Goto, submitVars
    <2>2. InBatch(w) \subseteq Requests BY BatchTyped DEF IInv
    <2>3. \A r \in InBatch(w) : stamp[r] = NoStamp
        BY <2>1, <2>2 DEF IInv, PlaceInv, Batched, Handed, Applied
    <2>4. /\ \A r \in Requests \ InBatch(w) : outcome'[r] = outcome[r]
          /\ \A r \in InBatch(w) : outcome'[r] = "error"
        BY <1>9, <2>2 DEF TransactionFails
    <2> QED BY <2>1, <2>3, <2>4, OrderDecided
<1> QED BY <1>1, <1>2, <1>3, <1>4, <1>5, <1>6, <1>7, <1>8, <1>9 DEF Next, WriterStep

(* Mutations of one priority that are single, or of one group, take effect *)
(* in the order in which they were submitted (_collect_batch,              *)
(* _execute_batch), whatever fails and however threads come and go.        *)
THEOREM OrderSafety == Spec => []SubmissionOrder
<1>1. Init => OrderInv
    BY WriterAssumption DEF Init, OrderInv, Located, Newest, Sorted, Decided, Past, SubmissionOrder, Handed,
                            Gathering
<1>2. IInv /\ OrderInv /\ [Next]_vars => OrderInv' BY OrderStep
<1>3. OrderInv => SubmissionOrder BY DEF OrderInv
<1> QED BY <1>1, <1>2, <1>3, Invariance, PTL DEF Spec

(***************************************************************************)
(* The lane implements AtomicMutations.  The requests of a barrier are     *)
(* those with a serial up to its target.                                   *)
(***************************************************************************)
Asked == {r \in Requests : number[r] # 0}
Effects == {r \in Requests : stamp[r] # NoStamp}
AwaitedOf(c) ==
    [state |-> CASE bar[c].pc = "idle" -> "idle" [] bar[c].pc = "waiting" -> "waiting"
                 [] OTHER -> "over",
     requests |-> {r \in Requests : number[r] \in 1 .. bar[c].target}]
Awaited == [c \in Callers |-> AwaitedOf(c)]

(* A new serial is above the target of every barrier that has started.     *)
LEMMA AskStep ==
    ASSUME IInv, NEW r \in Requests, NewRequest(r)
    PROVE  Service!Ask(r)
<1>1. /\ number[r] = 0 /\ number' = [number EXCEPT ![r] = serial + 1] /\ serial \in Nat
      /\ number \in [Requests -> 0 .. serial] /\ stamp' = stamp /\ outcome' = outcome
      /\ future' = future /\ bar' = bar
      /\ \A c \in Callers : bar[c].target \in Nat /\ bar[c].target <= serial
  BY DEF NewRequest, databaseVars, IInv, TypeOK, BarrierInv
<1>2. \A q \in Requests : number'[q] = IF q = r THEN serial + 1 ELSE number[q] BY <1>1
<1>3. Asked' = Asked \cup {r} /\ r \notin Asked BY <1>1, <1>2 DEF Asked
<1>4. \A c \in Callers, q \in Requests : number'[q] \in 1 .. bar[c].target <=> number[q] \in 1 .. bar[c].target
  BY <1>1, <1>2
<1>5. \A c \in Callers : AwaitedOf(c)' = AwaitedOf(c) BY <1>1, <1>4 DEF AwaitedOf
<1>6. Awaited' = Awaited BY <1>5 DEF Awaited
<1>7. Effects' = Effects BY <1>1 DEF Effects
<1> QED BY <1>1, <1>3, <1>6, <1>7 DEF Service!Ask, Asked, Effects, Awaited, AwaitedOf

(* A transaction decides requests that were asked for and not yet decided, *)
(* and keeps those that did not fail.                                      *)
LEMMA CommitStep ==
    ASSUME IInv, NEW w \in Writers, NEW failed \in SUBSET Requests, NEW refused,
           Commit(w, failed, refused)
    PROVE  /\ InBatch(w) \subseteq Asked /\ \A r \in InBatch(w) : outcome[r] = "none"
           /\ Effects' = Effects \cup (InBatch(w) \ failed)
           /\ Asked' = Asked /\ Awaited' = Awaited /\ future' = future
<1>1. InBatch(w) \subseteq Requests BY BatchTyped DEF IInv
<1>2. \A r \in InBatch(w) : number[r] # 0 /\ outcome[r] = "none"
  BY DEF Commit, IInv, PlaceInv, Batched, Handed
<1>3. \A r \in InBatch(w) : StampOf(w, r) # NoStamp BY StampTyped DEF IInv
<1>4. number' = number /\ future' = future /\ bar' = bar BY DEF Commit, submitVars
<1>5. Effects' = Effects \cup (InBatch(w) \ failed)
  <2>1. \A r \in Requests : stamp'[r] = IF r \in InBatch(w) \ failed THEN StampOf(w, r) ELSE stamp[r]
    BY DEF Commit
  <2> QED BY <1>1, <1>3, <2>1 DEF Effects
<1>6. InBatch(w) \subseteq Asked BY <1>1, <1>2 DEF Asked
<1>7. Asked' = Asked BY <1>4 DEF Asked
<1>8. Awaited' = Awaited BY <1>4 DEF Awaited, AwaitedOf
<1> QED BY <1>2, <1>4, <1>5, <1>6, <1>7, <1>8

LEMMA DecideStep ==
    ASSUME IInv, NEW w \in Writers, NEW failed \in SUBSET Requests, ExecuteBatch(w, failed)
    PROVE  Service!Decide(InBatch(w), failed)
<1>1. Commit(w, failed, failed) BY DEF ExecuteBatch
<1>2. outcome' = [r \in Requests |-> IF r \notin InBatch(w) THEN outcome[r]
                                    ELSE IF r \in failed THEN "error" ELSE "ok"]
  BY <1>1 DEF Commit
<1> QED BY <1>1, <1>2, CommitStep DEF Service!Decide, Asked, Effects, Awaited, AwaitedOf

(* A batch that is kept, except for what failed in it, and is refused      *)
(* whole is in doubt.                                                      *)
LEMMA DoubtStep ==
    ASSUME IInv, NEW w \in Writers, NEW failed \in SUBSET Requests, NotificationFails(w, failed),
           NEW kept \in SUBSET Requests, kept = InBatch(w) \ failed
    PROVE  Service!Doubt(InBatch(w), kept)
<1>1. Commit(w, failed, InBatch(w)) BY DEF NotificationFails
<1>2. outcome' = [r \in Requests |-> IF r \in InBatch(w) THEN "error" ELSE outcome[r]]
  <2>1. outcome' = [r \in Requests |-> IF r \notin InBatch(w) THEN outcome[r]
                                      ELSE IF r \in InBatch(w) THEN "error" ELSE "ok"]
    BY <1>1 DEF Commit
  <2> QED BY <2>1
<1> QED BY <1>1, <1>2, CommitStep DEF Service!Doubt, Asked, Effects, Awaited, AwaitedOf

(* A transaction that fails decides its batch and leaves no effect.        *)
LEMMA RefuseStep ==
    ASSUME IInv, NEW w \in Writers, TransactionFails(w),
           NEW failed \in SUBSET Requests, failed = InBatch(w)
    PROVE  Service!Decide(InBatch(w), failed)
<1>1. InBatch(w) \subseteq Requests BY BatchTyped DEF IInv
<1>2. \A r \in InBatch(w) : number[r] # 0 /\ outcome[r] = "none"
  BY DEF TransactionFails, IInv, PlaceInv, Batched, Handed
<1>3. number' = number /\ future' = future /\ bar' = bar /\ stamp' = stamp BY DEF TransactionFails, submitVars
<1>4. Effects' = Effects \cup (InBatch(w) \ failed) BY <1>3 DEF Effects
<1>5. InBatch(w) \subseteq Asked BY <1>1, <1>2 DEF Asked
<1>6. Asked' = Asked BY <1>3 DEF Asked
<1>7. Awaited' = Awaited BY <1>3 DEF Awaited, AwaitedOf
<1>8. outcome' = [r \in Requests |-> IF r \notin InBatch(w) THEN outcome[r]
                                    ELSE IF r \in failed THEN "error" ELSE "ok"]
  BY DEF TransactionFails
<1> QED BY <1>2, <1>3, <1>4, <1>5, <1>6, <1>7, <1>8 DEF Service!Decide, Asked, Effects, Awaited, AwaitedOf

LEMMA AwaitStep ==
    ASSUME IInv, NEW c \in Callers, BarrierStart(c)
    PROVE  Service!Await(c)
<1>1. /\ bar[c].pc = "idle" /\ bar' = [bar EXCEPT ![c] = [pc |-> "waiting", target |-> serial]]
      /\ number' = number /\ stamp' = stamp /\ outcome' = outcome /\ future' = future
      /\ bar \in [Callers -> [pc : {"idle", "waiting", "returned"}, target : Nat]]
      /\ serial \in Nat /\ number \in [Requests -> 0 .. serial]
  BY DEF BarrierStart, databaseVars, IInv, TypeOK
<1>2. \A d \in Callers : bar'[d] = IF d = c THEN [pc |-> "waiting", target |-> serial] ELSE bar[d] BY <1>1
<1>3. {r \in Requests : number[r] \in 1 .. serial} = Asked BY <1>1 DEF Asked
<1>4. AwaitedOf(c)' = [state |-> "waiting", requests |-> Asked] BY <1>1, <1>2, <1>3 DEF AwaitedOf
<1>5. \A d \in Callers : d # c => AwaitedOf(d)' = AwaitedOf(d) BY <1>1, <1>2 DEF AwaitedOf
<1>6. Awaited' = [Awaited EXCEPT ![c] = [state |-> "waiting", requests |-> Asked]] BY <1>4, <1>5 DEF Awaited
<1>7. Awaited[c].state = "idle" BY <1>1 DEF Awaited, AwaitedOf
<1>8. Asked' = Asked /\ Effects' = Effects BY <1>1 DEF Asked, Effects
<1> QED BY <1>1, <1>6, <1>7, <1>8 DEF Service!Await, Asked, Effects, Awaited, AwaitedOf

LEMMA ReturnStep ==
    ASSUME IInv, NEW c \in Callers, BarrierReturn(c)
    PROVE  Service!Return(c)
<1>1. /\ bar[c].pc = "waiting" /\ bar' = [bar EXCEPT ![c].pc = "returned"]
      /\ number' = number /\ stamp' = stamp /\ outcome' = outcome /\ future' = future
      /\ bar \in [Callers -> [pc : {"idle", "waiting", "returned"}, target : Nat]]
      /\ number \in [Requests -> 0 .. serial] /\ serial \in Nat
  BY DEF BarrierReturn, databaseVars, IInv, TypeOK
<1>2. \A d \in Callers : bar'[d].target = bar[d].target /\ bar'[d].pc = IF d = c THEN "returned" ELSE bar[d].pc
  BY <1>1
<1>3. \A r \in Requests : number[r] \in 1 .. bar[c].target => outcome[r] # "none" /\ future[r] # "pending"
  BY <1>1, BarrierDone
<1>4. AwaitedOf(c) = [state |-> "waiting", requests |-> {r \in Requests : number[r] \in 1 .. bar[c].target}]
  BY <1>1 DEF AwaitedOf
<1>5. AwaitedOf(c)' = [state |-> "over", requests |-> {r \in Requests : number[r] \in 1 .. bar[c].target}]
  BY <1>1, <1>2 DEF AwaitedOf
<1>6. \A d \in Callers : d # c => AwaitedOf(d)' = AwaitedOf(d) BY <1>1, <1>2 DEF AwaitedOf
<1>7. Awaited' = [Awaited EXCEPT ![c].state = "over"]
  <2>1. AwaitedOf(c)' = [AwaitedOf(c) EXCEPT !.state = "over"] BY <1>4, <1>5
  <2>2. \A d \in Callers : AwaitedOf(d)' = IF d = c THEN [AwaitedOf(c) EXCEPT !.state = "over"] ELSE AwaitedOf(d)
    BY <1>6, <2>1
  <2>3. [Awaited EXCEPT ![c].state = "over"]
        = [d \in Callers |-> IF d = c THEN [AwaitedOf(c) EXCEPT !.state = "over"] ELSE AwaitedOf(d)]
    BY DEF Awaited
  <2> QED BY <2>2, <2>3 DEF Awaited
<1>8. Awaited[c].state = "waiting" /\ \A r \in Awaited[c].requests : outcome[r] # "none" /\ future[r] # "pending"
  BY <1>3, <1>4 DEF Awaited
<1>9. Asked' = Asked /\ Effects' = Effects BY <1>1 DEF Asked, Effects
<1> QED BY <1>1, <1>7, <1>8, <1>9 DEF Service!Return, Asked, Effects, Awaited, AwaitedOf

(* Every other step of the queue, of the batch and of the threads is       *)
(* invisible to the callers.                                               *)
LEMMA HiddenStep ==
    ASSUME UNCHANGED <<number, databaseVars, future, bar>>
    PROVE  UNCHANGED Service!vars
<1>1. number' = number /\ stamp' = stamp /\ outcome' = outcome /\ future' = future /\ bar' = bar
  BY DEF databaseVars
<1>2. Asked' = Asked /\ Effects' = Effects BY <1>1 DEF Asked, Effects
<1>3. Awaited' = Awaited BY <1>1 DEF Awaited, AwaitedOf
<1> QED BY <1>1, <1>2, <1>3 DEF Service!vars, Asked, Effects, Awaited, AwaitedOf

LEMMA AnswerStep ==
    ASSUME IInv
    PROVE  /\ \A r \in Requests : CancelFuture(r) => Service!Withdraw(r)
           /\ \A w \in Writers : Resolve(w) => Service!Tell(InBatch(w))
<1>1. ASSUME NEW r \in Requests, CancelFuture(r) PROVE Service!Withdraw(r)
  <2>1. number' = number /\ stamp' = stamp /\ outcome' = outcome /\ bar' = bar
        /\ number[r] # 0 /\ future[r] = "pending" /\ future' = [future EXCEPT ![r] = "cancelled"]
    BY <1>1 DEF CancelFuture, submitVars, databaseVars
  <2>2. Asked' = Asked /\ Effects' = Effects /\ r \in Asked BY <2>1 DEF Asked, Effects
  <2>3. Awaited' = Awaited BY <2>1 DEF Awaited, AwaitedOf
  <2> QED BY <2>1, <2>2, <2>3 DEF Service!Withdraw, Asked, Effects, Awaited, AwaitedOf
<1>2. ASSUME NEW w \in Writers, Resolve(w) PROVE Service!Tell(InBatch(w))
  <2>1. number' = number /\ stamp' = stamp /\ outcome' = outcome /\ bar' = bar
        /\ future' = [r \in Requests |-> IF r \in InBatch(w) /\ future[r] = "pending"
                                         THEN outcome[r] ELSE future[r]]
    BY <1>2 DEF Resolve, submitVars, databaseVars
  <2>2. Asked' = Asked /\ Effects' = Effects BY <2>1 DEF Asked, Effects
  <2>3. Awaited' = Awaited BY <2>1 DEF Awaited, AwaitedOf
  <2>4. \A r \in InBatch(w) : outcome[r] # "none" BY <1>2 DEF Resolve, IInv, PlaceInv, Batched
  <2> QED BY <2>1, <2>2, <2>3, <2>4 DEF Service!Tell, Asked, Effects, Awaited, AwaitedOf
<1> QED BY <1>1, <1>2

(* The mutation lane of storage/sqlite/mutation_writer.py implements the   *)
(* atomic service of AtomicMutations, also when the notification after a   *)
(* COMMIT fails and _run takes a kept batch for failed.                    *)
THEOREM Refinement == Spec => ImplementsService
<1>1. Init => Service!Init
  <2> SUFFICES ASSUME Init PROVE Service!Init OBVIOUS
  <2>1. Asked = {} /\ Effects = {} BY DEF Init, Asked, Effects
  <2>2. \A c \in Callers : AwaitedOf(c) = [state |-> "idle", requests |-> {}]
    <3> TAKE c \in Callers
    <3>1. bar[c].pc = "idle" /\ bar[c].target = 0 /\ \A r \in Requests : number[r] = 0 BY DEF Init
    <3>2. {r \in Requests : number[r] \in 1 .. bar[c].target} = {} BY <3>1
    <3> QED BY <3>1, <3>2 DEF AwaitedOf
  <2>3. Awaited = [c \in Callers |-> [state |-> "idle", requests |-> {}]] BY <2>2 DEF Awaited
  <2>4. outcome = [r \in Requests |-> "none"] /\ future = [r \in Requests |-> "pending"] BY DEF Init
  <2> QED BY <2>1, <2>3, <2>4 DEF Service!Init, Asked, Effects, Awaited, AwaitedOf
<1>2. IInv /\ [Next]_vars => [Service!Next]_(Service!vars)
  <2> SUFFICES ASSUME IInv, [Next]_vars PROVE Service!Next \/ UNCHANGED Service!vars
    OBVIOUS
  <2>0. ASSUME NEW B \in SUBSET Requests, NEW F \in SUBSET B, Service!Decide(B, F) PROVE Service!Next
    BY <2>0 DEF Service!Next
  <2>11. ASSUME NEW B \in SUBSET Requests, NEW K \in SUBSET B, Service!Doubt(B, K) PROVE Service!Next
    BY <2>11 DEF Service!Next
  <2>1. ASSUME NEW r \in Requests, NewRequest(r) PROVE Service!Next
    BY <2>1, AskStep DEF Service!Next
  <2>2. ASSUME NEW r \in Requests, CancelFuture(r) PROVE Service!Next
    BY <2>2, AnswerStep DEF Service!Next
  <2>3. ASSUME NEW c \in Callers, BarrierStart(c) \/ BarrierReturn(c) PROVE Service!Next
    BY <2>3, AwaitStep, ReturnStep DEF Service!Next
  <2>4. ASSUME NEW w \in Writers, NEW failed \in SUBSET Requests, ExecuteBatch(w, failed) PROVE Service!Next
    <3>1. InBatch(w) \in SUBSET Requests BY BatchTyped DEF IInv
    <3>2. failed \in SUBSET InBatch(w) BY <2>4 DEF ExecuteBatch, Commit
    <3>3. Service!Decide(InBatch(w), failed) BY <2>4, DecideStep
    <3> QED BY <2>0, <3>1, <3>2, <3>3
  <2>10. ASSUME NEW w \in Writers, NEW failed \in SUBSET Requests, NotificationFails(w, failed) PROVE Service!Next
    <3>1. InBatch(w) \in SUBSET Requests BY BatchTyped DEF IInv
    <3>2. PICK kept \in SUBSET Requests : kept = InBatch(w) \ failed BY <3>1
    <3>3. kept \in SUBSET InBatch(w) BY <3>2
    <3>4. Service!Doubt(InBatch(w), kept) BY <2>10, <3>2, DoubtStep
    <3> QED BY <2>11, <3>1, <3>3, <3>4
  <2>5. ASSUME NEW w \in Writers, TransactionFails(w) PROVE Service!Next
    <3>1. InBatch(w) \in SUBSET Requests BY BatchTyped DEF IInv
    <3>2. PICK failed \in SUBSET Requests : failed = InBatch(w) BY <3>1
    <3>3. Service!Decide(InBatch(w), failed) BY <2>5, <3>2, RefuseStep
    <3> QED BY <2>0, <3>1, <3>2, <3>3
  <2>6. ASSUME NEW w \in Writers, Resolve(w) PROVE Service!Next
    <3>1. InBatch(w) \in SUBSET Requests BY BatchTyped DEF IInv
    <3> QED BY <2>6, <3>1, AnswerStep DEF Service!Next
  <2>7. ASSUME NEW r \in Requests, Enqueue(r) PROVE UNCHANGED Service!vars
    BY <2>7, HiddenStep DEF Enqueue
  <2>8. ASSUME NEW w \in Writers, \/ Get(w) \/ Collect(w) \/ StopCollecting(w)
                                  \/ RecordCompleted(w) \/ RefreshUrgent(w) \/ ClearUrgent(w)
                                  \/ Recheck(w) \/ Retire(w)
        PROVE UNCHANGED Service!vars
    BY <2>8, HiddenStep DEF Get, Collect, StopCollecting, RecordCompleted, RefreshUrgent,
       ClearUrgent, Recheck, Retire, submitVars
  <2>9. CASE UNCHANGED vars BY <2>9, HiddenStep DEF vars, submitVars
  <2> QED BY <2>1, <2>2, <2>3, <2>4, <2>5, <2>6, <2>7, <2>8, <2>9, <2>10 DEF Next, WriterStep
<1> QED BY <1>1, <1>2, Invariance, PTL DEF Spec, ImplementsService, Service!Spec
=============================================================================
