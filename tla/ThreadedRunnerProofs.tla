------------------------ MODULE ThreadedRunnerProofs ------------------------
(***************************************************************************)
(* The threaded runner delivers, for every source, every number of threads *)
(* and every sequence of limits: proofs about ThreadedRunner, which models *)
(* ThreadedRunner._run_adaptive.                                           *)
(***************************************************************************)
EXTENDS ThreadedRunner, TLAPS

(***************************************************************************)
(* The inductive invariant.                                                *)
(***************************************************************************)
Loads(t) == pc[t] \in {"load", "deliver"}

(* The worker table holds the threads that have not left worker_loop, and  *)
(* a manager that is through has found it empty.                           *)
TableExact ==
    /\ alive = {t \in Threads : pc[t] # "gone"}
    /\ mgr \in {"returned", "failed"} => alive = {}
    /\ mgr = "returned" => exhausted /\ ~ failed
    /\ stop => failed

(* source_loading admits one loader at a time, and none after the end.     *)
OneLoader ==
    /\ \A t \in Threads : Loads(t) => loading /\ buffer = <<>> /\ ~ exhausted
    /\ \A t, u \in Threads : Loads(t) /\ Loads(u) => t = u

(* What was pulled and not yet taken is in order, in the buffer or in the  *)
(* hand of the one worker that pulled it.                                  *)
Ahead(s) == Len(s) = cursor - taken /\ \A i \in 1 .. Len(s) : s[i] = Jobs[taken + i]
Stream ==
    /\ \A t \in Threads : pc[t] = "load" => taken = cursor
    /\ \A t \in Threads : pc[t] = "deliver" => Ahead(hand[t])
    /\ (\A t \in Threads : pc[t] # "deliver") => Ahead(buffer)

(* Every job taken is at one worker or in the results, under its index,    *)
(* unless an error has stopped the run.                                    *)
At(i) == [index |-> i, job |-> Jobs[i]]
Placed ==
    /\ \A r \in results : r.index <= taken /\ r.job = Jobs[r.index]
    /\ \A t \in Threads : Holds(t) =>
          /\ item[t].index \in 1 .. taken /\ item[t].job = Jobs[item[t].index]
          /\ \A r \in results : r.index # item[t].index
    /\ \A t, u \in Threads : Holds(t) /\ Holds(u) /\ item[t].index = item[u].index => t = u
Accounted ==
    ~ failed => \A i \in 1 .. taken : At(i) \in results \/ \E t \in Threads : Holds(t) /\ item[t] = At(i)

(* A source that gives nothing has given everything, unless the run was    *)
(* stopped or the source abandoned.                                        *)
Dry == failed \/ closed = "abandoned" \/ taken = Len(Jobs)
EndReached ==
    /\ ~ Live => queued = Len(Jobs) /\ closed = "open"
    /\ closed = "quiet" => taken = Len(Jobs)
    /\ \A t \in Threads : pc[t] = "deliver" /\ hand[t] = <<>> => Dry
    /\ exhausted => Dry

RInv == TypeOK /\ TableExact /\ OneLoader /\ Stream /\ Placed /\ Accounted /\ EndReached

LEMMA SetLimitStep == ASSUME RInv, SetLimit PROVE RInv'
<1> USE DEF RInv, TypeOK, SetLimit, limitVars, sourceVars, workerVars
<1>1. TypeOK'
    <2>1. changes + 1 \in 0 .. MaxChanges BY RunnerAssumption
    <2> QED BY <2>1
<1>2. TableExact' BY DEF TableExact
<1>3. OneLoader' BY DEF OneLoader, Loads
<1>4. Stream' BY DEF Stream, Ahead
<1>5. Placed' BY DEF Placed, Holds
<1>6. Accounted' BY DEF Accounted, At, Holds
<1>7. EndReached' BY DEF EndReached, Dry, Live
<1> QED BY <1>1, <1>2, <1>3, <1>4, <1>5, <1>6, <1>7 DEF RInv

LEMMA FeedStep == ASSUME RInv, Feed PROVE RInv'
<1> USE DEF RInv, TypeOK, Feed, limitVars, sourceVars, workerVars
<1>1. TypeOK' OBVIOUS
<1>2. TableExact' BY DEF TableExact
<1>3. OneLoader' BY DEF OneLoader, Loads
<1>4. Stream' BY DEF Stream, Ahead
<1>5. Placed' BY DEF Placed, Holds
<1>6. Accounted' BY DEF Accounted, At, Holds
<1>7. EndReached' BY DEF EndReached, Dry, Live
<1> QED BY <1>1, <1>2, <1>3, <1>4, <1>5, <1>6, <1>7 DEF RInv

LEMMA QuietSourceStep == ASSUME RInv, QuietSource PROVE RInv'
<1> USE DEF RInv, TypeOK, QuietSource, SourceCloses, Quiescent, limitVars, sourceVars, workerVars
<1>1. TypeOK' OBVIOUS
<1>2. TableExact' BY DEF TableExact
<1>3. OneLoader' BY DEF OneLoader, Loads
<1>4. Stream' BY DEF Stream, Ahead
<1>5. Placed' BY DEF Placed, Holds
<1>6. Accounted' BY DEF Accounted, At, Holds
<1>7. EndReached' BY DEF EndReached, Dry, Live
<1> QED BY <1>1, <1>2, <1>3, <1>4, <1>5, <1>6, <1>7 DEF RInv

LEMMA AbandonSourceStep == ASSUME RInv, AbandonSource PROVE RInv'
<1> USE DEF RInv, TypeOK, AbandonSource, SourceCloses, limitVars, sourceVars, workerVars
<1>1. TypeOK' OBVIOUS
<1>2. TableExact' BY DEF TableExact
<1>3. OneLoader' BY DEF OneLoader, Loads
<1>4. Stream' BY DEF Stream, Ahead
<1>5. Placed' BY DEF Placed, Holds
<1>6. Accounted' BY DEF Accounted, At, Holds
<1>7. EndReached' BY DEF EndReached, Dry, Live
<1> QED BY <1>1, <1>2, <1>3, <1>4, <1>5, <1>6, <1>7 DEF RInv

LEMMA ManageStep == ASSUME RInv, Manage PROVE RInv'
<1> USE DEF RInv, TypeOK, Manage, Unused, limitVars, sourceVars, workerVars
<1>1. TypeOK' OBVIOUS
<1>2. TableExact' BY DEF TableExact
<1>3. OneLoader' BY DEF OneLoader, Loads
<1>4. Stream' BY DEF Stream, Ahead
<1>5. Placed' BY DEF Placed, Holds
<1>6. Accounted' BY DEF Accounted, At, Holds
<1>7. EndReached' BY DEF EndReached, Dry, Live
<1> QED BY <1>1, <1>2, <1>3, <1>4, <1>5, <1>6, <1>7 DEF RInv

LEMMA FinishStep == ASSUME RInv, Finish PROVE RInv'
<1> USE DEF RInv, TypeOK, Finish, Over, limitVars, sourceVars, workerVars
<1>1. TypeOK' OBVIOUS
<1>2. TableExact' BY DEF TableExact
<1>3. OneLoader' BY DEF OneLoader, Loads
<1>4. Stream' BY DEF Stream, Ahead
<1>5. Placed' BY DEF Placed, Holds
<1>6. Accounted' BY DEF Accounted, At, Holds
<1>7. EndReached' BY DEF EndReached, Dry, Live
<1> QED BY <1>1, <1>2, <1>3, <1>4, <1>5, <1>6, <1>7 DEF RInv

LEMMA LimitRaisesStep == ASSUME RInv, LimitRaises PROVE RInv'
<1> USE DEF RInv, TypeOK, LimitRaises, limitVars, sourceVars, workerVars
<1>1. TypeOK' OBVIOUS
<1>2. TableExact' BY DEF TableExact
<1>3. OneLoader' BY DEF OneLoader, Loads
<1>4. Stream' BY DEF Stream, Ahead
<1>5. Placed' BY DEF Placed, Holds
<1>6. Accounted' BY DEF Accounted, At, Holds
<1>7. EndReached' BY DEF EndReached, Dry, Live
<1> QED BY <1>1, <1>2, <1>3, <1>4, <1>5, <1>6, <1>7 DEF RInv

LEMMA CheckStep == ASSUME RInv, NEW t \in Threads, Check(t) PROVE RInv'
<1> USE DEF RInv, TypeOK, Check, Goto, limitVars, sourceVars, workerVars
<1>1. TypeOK' OBVIOUS
<1>2. TableExact' BY DEF TableExact
<1>3. OneLoader' BY DEF OneLoader, Loads
<1>4. Stream' BY DEF Stream, Ahead
<1>5. Placed' BY DEF Placed, Holds
<1>6. Accounted' BY DEF Accounted, At, Holds
<1>7. EndReached' BY DEF EndReached, Dry, Live
<1> QED BY <1>1, <1>2, <1>3, <1>4, <1>5, <1>6, <1>7 DEF RInv

LEMMA TakeItemStep == ASSUME RInv, NEW t \in Threads, TakeItem(t) PROVE RInv'
<1> USE DEF RInv, TypeOK, TakeItem, PopLeft, Goto, limitVars, sourceVars, workerVars
<1> DEFINE new == [index |-> taken + 1, job |-> Head(buffer)]
<1>1. \A u \in Threads : pc[u] # "deliver" /\ pc[u] # "load"
    BY DEF OneLoader, Loads
<1>2. Ahead(buffer) BY <1>1 DEF Stream
<1>3. /\ Len(buffer) \in Nat \ {0} /\ Len(buffer) = cursor - taken /\ Head(buffer) = Jobs[taken + 1]
      /\ Len(buffer') = Len(buffer) - 1 /\ \A i \in 1 .. Len(buffer') : buffer'[i] = buffer[i + 1]
      /\ buffer' \in Seq({Jobs[i] : i \in Positions})
    <2>1. Len(buffer) \in Nat \ {0} /\ Head(buffer) = buffer[1] OBVIOUS
    <2>2. Len(buffer') = Len(buffer) - 1 /\ \A i \in 1 .. Len(buffer') : buffer'[i] = buffer[i + 1]
        OBVIOUS
    <2>3. buffer' \in Seq({Jobs[i] : i \in Positions}) OBVIOUS
    <2>4. Len(buffer) = cursor - taken BY <1>2 DEF Ahead
    <2>5. buffer[1] = Jobs[taken + 1] BY <2>1, <1>2 DEF Ahead
    <2> QED BY <2>1, <2>2, <2>3, <2>4, <2>5
<1>4. Len(Jobs) \in Nat BY RunnerAssumption
<1>5. taken + 1 \in Positions /\ taken' = taken + 1 /\ taken + 1 <= cursor
    BY <1>3, <1>4 DEF Positions
<1>6. new \in Pairs BY <1>3, <1>5 DEF Pairs
<1>7. item'[t] = new /\ \A u \in Threads \ {t} : item'[u] = item[u] /\ pc'[u] = pc[u]
    OBVIOUS
<1>8. pc'[t] = "run" OBVIOUS
<1> HIDE DEF new
<1>9. new = At(taken + 1) /\ new.index = taken + 1 /\ new.job = Jobs[taken + 1]
    BY <1>3 DEF new, At
<1>a. TypeOK' BY <1>3, <1>5, <1>6 DEF new
<1>b. TableExact' BY DEF TableExact
<1>c. OneLoader' BY DEF OneLoader, Loads
<1>d. Stream'
    <2>1. Ahead(buffer)' BY <1>2, <1>3, <1>5 DEF Ahead
    <2> QED BY <1>1, <2>1 DEF Stream
<1>e. Placed'
    <2>1. \A r \in results : r.index <= taken /\ r.index # taken + 1 /\ r.job = Jobs[r.index]
        BY DEF Placed, Pairs, Positions
    <2>2. \A u \in Threads : Holds(u) =>
              /\ item[u].index \in 1 .. taken /\ item[u].index # taken + 1
              /\ item[u].job = Jobs[item[u].index] /\ \A r \in results : r.index # item[u].index
        BY DEF Placed
    <2>3. \A u \in Threads \ {t} : Holds(u)' <=> Holds(u) BY <1>7 DEF Holds
    <2>4. \A r \in results' : r.index <= taken' /\ r.job = Jobs[r.index]
        BY <2>1, <1>5 DEF Pairs, Positions
    <2>5. ASSUME NEW u \in Threads, Holds(u)'
          PROVE  /\ item'[u].index \in 1 .. taken' /\ item'[u].job = Jobs[item'[u].index]
                 /\ \A r \in results' : r.index # item'[u].index
        BY <2>1, <2>2, <2>3, <2>5, <1>5, <1>7, <1>9
    <2>6. ASSUME NEW u \in Threads, NEW v \in Threads, Holds(u)', Holds(v)',
                 item'[u].index = item'[v].index
          PROVE  u = v
        BY <2>2, <2>3, <2>6, <1>7, <1>9 DEF Placed
    <2> QED BY <2>4, <2>5, <2>6 DEF Placed
<1>f. Accounted'
    <2>1. SUFFICES ASSUME ~ failed, NEW i \in 1 .. taken'
                   PROVE  At(i) \in results \/ \E u \in Threads : Holds(u)' /\ item'[u] = At(i)
        BY DEF Accounted, At
    <2>2. CASE i = taken + 1 BY <2>2, <1>7, <1>8, <1>9 DEF Holds
    <2>3. CASE i # taken + 1
        <3>1. i \in 1 .. taken BY <2>3, <1>5
        <3>2. At(i) \in results \/ \E u \in Threads : Holds(u) /\ item[u] = At(i)
            BY <2>1, <3>1 DEF Accounted
        <3>3. \A u \in Threads : Holds(u) => u # t BY DEF Holds
        <3> QED BY <3>2, <3>3, <1>7 DEF Holds
    <2> QED BY <2>2, <2>3
<1>g. EndReached'
    <2>2. taken < Len(Jobs) BY <1>4, <1>5
    <2>3. closed # "quiet" BY <2>2, <1>4 DEF EndReached
    <2>4. Dry => Dry' BY <2>2, <1>4 DEF Dry
    <2> QED BY <1>1, <1>7, <1>8, <2>3, <2>4 DEF EndReached, Live
<1> QED BY <1>a, <1>b, <1>c, <1>d, <1>e, <1>f, <1>g DEF RInv

LEMMA TakeNothingStep == ASSUME RInv, NEW t \in Threads, TakeNothing(t) PROVE RInv'
<1> USE DEF RInv, TypeOK, TakeNothing, Goto, limitVars, sourceVars, workerVars
<1>1. TypeOK' OBVIOUS
<1>2. TableExact' BY DEF TableExact
<1>3. OneLoader' BY DEF OneLoader, Loads
<1>4. Stream' BY DEF Stream, Ahead
<1>5. Placed' BY DEF Placed, Holds
<1>6. Accounted' BY DEF Accounted, At, Holds
<1>7. EndReached' BY DEF EndReached, Dry, Live
<1> QED BY <1>1, <1>2, <1>3, <1>4, <1>5, <1>6, <1>7 DEF RInv

LEMMA StartLoadingStep == ASSUME RInv, NEW t \in Threads, StartLoading(t) PROVE RInv'
<1> USE DEF RInv, TypeOK, StartLoading, MayLoad, Goto, limitVars, sourceVars, workerVars
<1>1. TypeOK' OBVIOUS
<1>2. TableExact' BY DEF TableExact
<1>3. OneLoader' BY DEF OneLoader, Loads
<1>4. Stream'
    <2>1. \A u \in Threads : ~ Loads(u) BY DEF OneLoader
    <2>2. Ahead(buffer) BY <2>1 DEF Stream, Loads
    <2>3. taken = cursor BY <2>2 DEF Ahead
    <2> QED BY <2>1, <2>2, <2>3 DEF Stream, Ahead, Loads
<1>5. Placed' BY DEF Placed, Holds
<1>6. Accounted' BY DEF Accounted, At, Holds
<1>7. EndReached' BY DEF EndReached, Dry, Live
<1> QED BY <1>1, <1>2, <1>3, <1>4, <1>5, <1>6, <1>7 DEF RInv

(* Least of two numbers, and what a pull may bring.                        *)
LEMMA LeastOfTwo == ASSUME NEW a \in Int, NEW b \in Int
                    PROVE  Least({a, b}) \in {a, b} /\ Least({a, b}) <= a /\ Least({a, b}) <= b
<1>1. \E n \in {a, b} : \A m \in {a, b} : n <= m OBVIOUS
<1> QED BY <1>1 DEF Least

LEMMA BatchOfSource ==
    ASSUME NEW S, NEW q \in Seq(S), NEW m \in Nat, NEW n \in Nat, m + n <= Len(q)
    PROVE  /\ Len(SubSeq(q, m + 1, m + n)) = n
           /\ \A i \in 1 .. n : SubSeq(q, m + 1, m + n)[i] = q[m + i]
OBVIOUS

LEMMA PulledInRange ==
    ASSUME RInv, NEW n \in Pulled
    PROVE  /\ n \in 0 .. (queued - cursor)
           /\ n = 0 => (~ Live /\ cursor = queued) \/ (Live /\ (stop \/ closed # "open"))
<1> DEFINE size == IF Known THEN 1 ELSE PullSize
<1> DEFINE full == Least({size, queued - cursor})
<1>1. size \in Nat \ {0} BY RunnerAssumption
<1>2. queued \in Nat /\ cursor \in Nat /\ cursor <= queued BY RunnerAssumption DEF RInv, TypeOK
<1> HIDE DEF size
<1>3. full \in {size, queued - cursor} /\ full <= queued - cursor BY <1>1, <1>2, LeastOfTwo
<1>4. full \in 0 .. (queued - cursor) /\ (full = 0 => cursor = queued) BY <1>1, <1>2, <1>3
<1> HIDE DEF full
<1>5. n \in (CASE ~ Live -> {full}
                [] Live /\ (stop \/ closed # "open") -> 0 .. full
                [] OTHER -> {full} \ {0})
    BY DEF Pulled, full, size
<1>6. CASE ~ Live BY <1>4, <1>5, <1>6
<1>7. CASE Live /\ (stop \/ closed # "open") BY <1>2, <1>4, <1>5, <1>7
<1>8. CASE Live /\ ~ (stop \/ closed # "open") BY <1>4, <1>5, <1>8
<1> QED BY <1>6, <1>7, <1>8

LEMMA LoadStep == ASSUME RInv, NEW t \in Threads, Load(t) PROVE RInv'
<1> USE DEF RInv, TypeOK, Load, Goto, limitVars, sourceVars, workerVars
<1>0. PICK n \in Pulled : /\ cursor' = cursor + n
                          /\ hand' = [hand EXCEPT ![t] = SubSeq(Jobs, cursor + 1, cursor + n)]
    OBVIOUS
<1>1. n \in 0 .. (queued - cursor)
      /\ (n = 0 => (~ Live /\ cursor = queued) \/ (Live /\ (stop \/ closed # "open")))
    BY PulledInRange
<1>2. Len(Jobs) \in Nat /\ Jobs \in Seq({Jobs[i] : i \in Positions})
    <2>1. Jobs \in Seq({Jobs[i] : i \in DOMAIN Jobs}) BY RunnerAssumption
    <2>2. DOMAIN Jobs = Positions /\ Len(Jobs) \in Nat BY <2>1 DEF Positions
    <2> QED BY <2>1, <2>2
<1>3. cursor + n <= Len(Jobs) /\ cursor' \in 0 .. queued BY <1>0, <1>1, <1>2
<1>4. /\ hand'[t] \in Seq({Jobs[i] : i \in Positions}) /\ Len(hand'[t]) = n
      /\ \A i \in 1 .. n : hand'[t][i] = Jobs[cursor + i]
    <2> DEFINE batch == SubSeq(Jobs, cursor + 1, cursor + n)
    <2>1. hand'[t] = batch BY <1>0
    <2>2. Len(batch) = n /\ \A i \in 1 .. n : batch[i] = Jobs[cursor + i]
        <3>1. cursor \in Nat /\ n \in Nat /\ cursor + n <= Len(Jobs) BY <1>1, <1>3
        <3>2. PICK S : Jobs \in Seq(S) BY <1>2
        <3> QED BY <3>1, <3>2, BatchOfSource
    <2>3. batch \in Seq({Jobs[i] : i \in Positions}) BY <1>1, <1>2, <1>3
    <2> QED BY <2>1, <2>2, <2>3
<1>5. \A u \in Threads \ {t} : hand'[u] = hand[u] /\ pc'[u] = pc[u] /\ ~ Loads(u)
    BY <1>0 DEF OneLoader, Loads
<1>6. taken = cursor /\ pc'[t] = "deliver" BY DEF Stream
<1>a. TypeOK'
    <2>1. cursor' \in 0 .. queued /\ taken \in 0 .. cursor' BY <1>0, <1>1, <1>3
    <2>2. hand' \in [Threads -> Seq({Jobs[i] : i \in Positions})] BY <1>0, <1>4
    <2> QED BY <2>1, <2>2
<1>b. TableExact' BY DEF TableExact
<1>c. OneLoader' BY DEF OneLoader, Loads
<1>d. Stream'
    <2>1. Ahead(hand[t])' BY <1>0, <1>1, <1>4, <1>6 DEF Ahead
    <2> QED BY <2>1, <1>5, <1>6 DEF Stream, Loads
<1>e. Placed' BY DEF Placed, Holds
<1>f. Accounted' BY DEF Accounted, At, Holds
<1>g. EndReached'
    <2>1. hand'[t] = <<>> => n = 0 BY <1>4
    <2>2. n = 0 => Dry BY <1>1, <1>2, <1>6 DEF Dry, EndReached, TableExact
    <2> QED BY <2>1, <2>2, <1>5, <1>6 DEF EndReached, Dry, Live, Loads
<1> QED BY <1>a, <1>b, <1>c, <1>d, <1>e, <1>f, <1>g DEF RInv

LEMMA DeliverStep == ASSUME RInv, NEW t \in Threads, Deliver(t) PROVE RInv'
<1> USE DEF RInv, TypeOK, Deliver, ReleaseLoaders, Goto, limitVars, sourceVars, workerVars
<1>1. buffer = <<>> /\ \A u \in Threads \ {t} : ~ Loads(u) BY DEF OneLoader, Loads
<1>2. hand[t] \in Seq({Jobs[i] : i \in Positions}) OBVIOUS
<1>3. buffer' = hand[t] BY <1>1, <1>2
<1>4. Ahead(hand[t]) BY DEF Stream
<1>5. hand' = [hand EXCEPT ![t] = <<>>] /\ <<>> \in Seq({Jobs[i] : i \in Positions}) OBVIOUS
<1>6. pc' \in [Threads -> {"check", "take", "load", "deliver", "failing", "run", "record",
                           "exit", "gone"}]
    OBVIOUS
<1>7. \A u \in Threads \ {t} : pc'[u] = pc[u] OBVIOUS
<1>8. pc'[t] \in {"take", "exit"} OBVIOUS
<1>a. TypeOK' BY <1>2, <1>3, <1>5, <1>6
<1>b. TableExact' BY DEF TableExact
<1>c. OneLoader' BY DEF OneLoader, Loads
<1>d. Stream'
    <2>1. Ahead(buffer)' BY <1>3, <1>4 DEF Ahead
    <2> QED BY <1>1, <1>7, <1>8, <2>1 DEF Stream, Loads
<1>e. Placed' BY DEF Placed, Holds
<1>f. Accounted' BY DEF Accounted, At, Holds
<1>g. EndReached' BY DEF EndReached, Dry, Live
<1> QED BY <1>a, <1>b, <1>c, <1>d, <1>e, <1>f, <1>g DEF RInv

LEMMA LoadRaisesStep == ASSUME RInv, NEW t \in Threads, LoadRaises(t) PROVE RInv'
<1> USE DEF RInv, TypeOK, LoadRaises, ReleaseLoaders, Goto, limitVars, sourceVars, workerVars
<1>1. TypeOK' OBVIOUS
<1>2. TableExact' BY DEF TableExact
<1>3. OneLoader' BY DEF OneLoader, Loads
<1>4. Stream' BY DEF Stream, Ahead
<1>5. Placed' BY DEF Placed, Holds
<1>6. Accounted' BY DEF Accounted, At, Holds
<1>7. EndReached' BY DEF EndReached, Dry, Live
<1> QED BY <1>1, <1>2, <1>3, <1>4, <1>5, <1>6, <1>7 DEF RInv

LEMMA ReportLoadErrorStep == ASSUME RInv, NEW t \in Threads, ReportLoadError(t) PROVE RInv'
<1> USE DEF RInv, TypeOK, ReportLoadError, Goto, limitVars, sourceVars, workerVars
<1>1. TypeOK' OBVIOUS
<1>2. TableExact' BY DEF TableExact
<1>3. OneLoader' BY DEF OneLoader, Loads
<1>4. Stream' BY DEF Stream, Ahead
<1>5. Placed' BY DEF Placed, Holds
<1>6. Accounted' BY DEF Accounted, At, Holds
<1>7. EndReached' BY DEF EndReached, Dry, Live
<1> QED BY <1>1, <1>2, <1>3, <1>4, <1>5, <1>6, <1>7 DEF RInv

LEMMA RunOneStep == ASSUME RInv, NEW t \in Threads, RunOne(t) PROVE RInv'
<1> USE DEF RInv, TypeOK, RunOne, Goto, limitVars, sourceVars, workerVars
<1>1. TypeOK' OBVIOUS
<1>2. TableExact' BY DEF TableExact
<1>3. OneLoader' BY DEF OneLoader, Loads
<1>4. Stream' BY DEF Stream, Ahead
<1>5. Placed' BY DEF Placed, Holds
<1>6. Accounted' BY DEF Accounted, At, Holds
<1>7. EndReached' BY DEF EndReached, Dry, Live
<1> QED BY <1>1, <1>2, <1>3, <1>4, <1>5, <1>6, <1>7 DEF RInv

LEMMA RecordStep == ASSUME RInv, NEW t \in Threads, Record(t) PROVE RInv'
<1> USE DEF RInv, TypeOK, Record, Goto, limitVars, sourceVars, workerVars
<1>1. TypeOK'
    <2>1. item[t] \in Pairs
        <3>1. item[t].index # 0 BY DEF Placed, Holds
        <3> QED BY <3>1 DEF Nothing
    <2> QED BY <2>1
<1>2. TableExact' BY DEF TableExact
<1>3. OneLoader' BY DEF OneLoader, Loads
<1>4. Stream' BY DEF Stream, Ahead
<1>5. Placed' BY DEF Placed, Holds
<1>6. Accounted' BY DEF Accounted, At, Holds
<1>7. EndReached' BY DEF EndReached, Dry, Live
<1> QED BY <1>1, <1>2, <1>3, <1>4, <1>5, <1>6, <1>7 DEF RInv

LEMMA RunRaisesStep == ASSUME RInv, NEW t \in Threads, RunRaises(t) PROVE RInv'
<1> USE DEF RInv, TypeOK, RunRaises, Goto, limitVars, sourceVars, workerVars
<1>1. TypeOK' OBVIOUS
<1>2. TableExact' BY DEF TableExact
<1>3. OneLoader' BY DEF OneLoader, Loads
<1>4. Stream' BY DEF Stream, Ahead
<1>5. Placed' BY DEF Placed, Holds
<1>6. Accounted' BY DEF Accounted, At, Holds
<1>7. EndReached' BY DEF EndReached, Dry, Live
<1> QED BY <1>1, <1>2, <1>3, <1>4, <1>5, <1>6, <1>7 DEF RInv

LEMMA ExitStep == ASSUME RInv, NEW t \in Threads, Exit(t) PROVE RInv'
<1> USE DEF RInv, TypeOK, Exit, Goto, limitVars, sourceVars, workerVars
<1>1. TypeOK' OBVIOUS
<1>2. TableExact' BY DEF TableExact
<1>3. OneLoader' BY DEF OneLoader, Loads
<1>4. Stream' BY DEF Stream, Ahead
<1>5. Placed' BY DEF Placed, Holds
<1>6. Accounted' BY DEF Accounted, At, Holds
<1>7. EndReached' BY DEF EndReached, Dry, Live
<1> QED BY <1>1, <1>2, <1>3, <1>4, <1>5, <1>6, <1>7 DEF RInv

(***************************************************************************)
(* The theorems.                                                           *)
(***************************************************************************)
LEMMA RunnerInit == Init => RInv
<1> SUFFICES ASSUME Init PROVE RInv OBVIOUS
<1>1. Jobs \in Seq({Jobs[i] : i \in DOMAIN Jobs}) BY RunnerAssumption
<1>2. Len(Jobs) \in Nat BY <1>1
<1>3. alive \subseteq Threads BY DEF Init
<1>4. queued \in 0 .. Len(Jobs) /\ MaxChanges \in Nat BY <1>2, RunnerAssumption DEF Init
<1>5. TypeOK
    <2>1. hand \in [Threads -> Seq({Jobs[i] : i \in Positions})]
          /\ buffer \in Seq({Jobs[i] : i \in Positions}) BY DEF Init
    <2>2. item \in [Threads -> Pairs \cup {Nothing}] /\ results \subseteq Pairs BY DEF Init
    <2>3. limit \in Limits /\ desired \in Limits /\ changes \in 0 .. MaxChanges BY <1>4 DEF Init
    <2>4. cursor \in 0 .. queued /\ taken \in 0 .. cursor BY <1>4 DEF Init
    <2>5. pc \in [Threads -> {"check", "take", "load", "deliver", "failing", "run", "record",
                              "exit", "gone"}]
        BY DEF Init
    <2>6. kind \in Kinds /\ closed = "open" /\ loading = FALSE /\ exhausted = FALSE
          /\ stop = FALSE /\ failed = FALSE /\ mgr = "managing"
        BY DEF Init
    <2> QED BY <1>3, <1>4, <2>1, <2>2, <2>3, <2>4, <2>5, <2>6 DEF TypeOK
<1>6. TableExact BY <1>3 DEF Init, TableExact
<1>7. OneLoader BY DEF Init, OneLoader, Loads
<1>8. Stream BY DEF Init, Stream, Ahead
<1>9. Placed BY DEF Init, Placed, Holds
<1>10. Accounted BY DEF Init, Accounted
<1>11. EndReached BY DEF Init, EndReached
<1> QED BY <1>5, <1>6, <1>7, <1>8, <1>9, <1>10, <1>11 DEF RInv

LEMMA RunnerStep == RInv /\ [Next]_vars => RInv'
<1> SUFFICES ASSUME RInv, [Next]_vars PROVE RInv' OBVIOUS
<1>1. CASE UNCHANGED vars
    BY <1>1 DEF vars, limitVars, sourceVars, workerVars, RInv, TypeOK, TableExact, OneLoader,
                Loads, Stream, Ahead, Placed, Holds, Accounted, At, EndReached, Dry, Live
<1>2. CASE \E t \in Threads : WorkerStep(t)
    <2>1. PICK t \in Threads : WorkerStep(t) BY <1>2
    <2>2. CASE Check(t) \/ TakeItem(t) \/ TakeNothing(t) \/ StartLoading(t)
        BY <2>2, CheckStep, TakeItemStep, TakeNothingStep, StartLoadingStep
    <2>3. CASE Load(t) \/ Deliver(t) \/ LoadRaises(t) \/ ReportLoadError(t)
        BY <2>3, LoadStep, DeliverStep, LoadRaisesStep, ReportLoadErrorStep
    <2>4. CASE RunOne(t) \/ Record(t) \/ RunRaises(t) \/ Exit(t)
        BY <2>4, RunOneStep, RecordStep, RunRaisesStep, ExitStep
    <2> QED BY <2>1, <2>2, <2>3, <2>4 DEF WorkerStep
<1>3. CASE SetLimit \/ Feed \/ QuietSource \/ AbandonSource \/ Manage \/ Finish \/ LimitRaises
    BY <1>3, SetLimitStep, FeedStep, QuietSourceStep, AbandonSourceStep, ManageStep, FinishStep,
       LimitRaisesStep
<1> QED BY <1>1, <1>2, <1>3 DEF Next

(* The invariant of the runner holds in every state it reaches.            *)
THEOREM RunnerInvariance == Spec => []RInv
<1> QED BY RunnerInit, RunnerStep, PTL DEF Spec

(* Every job of the source once, at its place, no worker left behind: what *)
(* run_jobs and run_source promise, whatever limits are set and whatever   *)
(* thread loads, runs, retires or fails.                                   *)
THEOREM RunnerSafety == Spec => []Delivers
<1>1. RInv => Delivers
    <2> SUFFICES ASSUME RInv PROVE Delivers OBVIOUS
    <2>1. InOrder BY DEF RInv, Placed, InOrder
    <2>2. ReturnedAll
        <3>1. SUFFICES ASSUME mgr = "returned", closed # "abandoned", NEW i \in Positions
                       PROVE  [index |-> i, job |-> Jobs[i]] \in results
            BY DEF ReturnedAll
        <3>2. \A t \in Threads : ~ Holds(t) BY <3>1 DEF RInv, TableExact, Holds
        <3>3. ~ failed /\ taken = Len(Jobs) BY <3>1 DEF RInv, TableExact, EndReached, Dry
        <3> QED BY <3>2, <3>3 DEF RInv, Accounted, At, Positions
    <2>3. Joined BY DEF RInv, TableExact, Joined
    <2> QED BY <2>1, <2>2, <2>3 DEF RInv, Delivers
<1> QED BY <1>1, RunnerInvariance, PTL
=============================================================================
