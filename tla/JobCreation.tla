----------------------------- MODULE JobCreation -----------------------------
(***************************************************************************)
(* How jobs come to exist on one receiver node: single jobs with an        *)
(* allocated id, published in groups; jobs with an explicit id; batches    *)
(* that reserve their ids first; and the default jobs a router declares.   *)
(* A job is a row of the database and a directory with its input.  The     *)
(* directory is made before the row is committed, so every path has to     *)
(* clean up after a refusal, an error or a lost answer without touching    *)
(* the directory of somebody else, and a fresh preparation may delete jobs *)
(* and rewind the id sequence in between.                                  *)
(*                                                                         *)
(* An operator named Bug... is not part of the specification: it is the    *)
(* definition after it with a plausible mistake, for mutation runs.        *)
(***************************************************************************)
EXTENDS Naturals, Sequences, FiniteSets, FiniteSetsExt

CONSTANTS Creators,     \* threads that create jobs
          Keys, NoKey,  \* idempotency keys
          Nobody,       \* no holder, no directory, no row
          Scenarios,    \* what each creator asks for
          MaxId,        \* bound on the job ids
          MaxTroubles   \* bound on faults, process deaths and restarts of producers

Ids == 1..MaxId
Group == "group"

ASSUME BoundsAreNat == MaxId \in Nat \ {0} /\ MaxTroubles \in Nat

(* A single job has one key or none, a batch refuses a key it has twice    *)
(* (job_creation.py:348), default jobs have none.                          *)
ASSUME AsksAreValid ==
    /\ NoKey \notin Keys /\ Creators \cap {Nobody, Group} = {} /\ Nobody # Group
    /\ Scenarios \subseteq [Creators -> [kind : {"auto", "explicit", "batch", "default", "idle"},
                                        keys : Seq(Keys \cup {NoKey}), address : 0..MaxId]]
    /\ \A a \in Scenarios : \A c \in Creators :
          /\ a[c].kind \in {"auto", "explicit"} => Len(a[c].keys) = 1
          /\ a[c].kind = "explicit" => a[c].address \in Ids
          /\ \A m, n \in DOMAIN a[c].keys : a[c].keys[m] = a[c].keys[n] => m = n \/ a[c].keys[m] = NoKey

VARIABLES
    ask,        \* [Creators -> [kind, keys, address]]: fixed by the scenario
    pc,         \* [Creators -> step]
    todo,       \* [Creators -> Seq]: the keys that need a new job
    ids,        \* [Creators -> Seq]: the ids for them
    made,       \* [Creators -> SUBSET Ids]: directories it has made and may clean up
    got,        \* [Creators -> SUBSET Ids]: the jobs it will return
    outcome,    \* [Creators -> "none", "ok" or "error"]
    exact,      \* [Creators -> BOOLEAN]: the producing execution is still the active one
    by, keyed,  \* [Ids -> creator], [Ids -> key]: the rows of jobs and idempotency
    seq,        \* job_sequences.next_job_id; 0: no row
    dirs,       \* [Ids -> creator]: the job directories
    writer,     \* who is inside a write transaction: a creator, or a group of them
    nodelock,   \* holder of the jobs lock of the node
    prep,       \* the fresh preparation of another session
    troubles,   \* faults so far
    left,       \* a process death, or a clean-up that reported its failure, left directories
    overtaken   \* a preparation rewound the sequence over ids in use

made_vars == <<todo, ids, made, got>>
db == <<by, keyed, seq>>
budget == <<troubles, left, overtaken>>
vars == <<ask, pc, made_vars, outcome, exact, db, dirs, writer, nodelock, prep, budget>>

Locking == {"explicit", "default"}
First == [auto |-> "start", explicit |-> "start", batch |-> "start", default |-> "lock", idle |-> "done"]

Init ==
    /\ ask \in Scenarios
    /\ pc = [c \in Creators |-> First[ask[c].kind]]
    /\ todo = [c \in Creators |-> ask[c].keys]
    /\ ids = [c \in Creators |-> <<>>]
    /\ made = [c \in Creators |-> {}]
    /\ got = made
    /\ outcome = [c \in Creators |-> "none"]
    /\ exact = [c \in Creators |-> TRUE]
    /\ by = [i \in Ids |-> Nobody]
    /\ keyed = [i \in Ids |-> NoKey]
    /\ dirs = by
    /\ seq = 0
    /\ writer = Nobody /\ nodelock = Nobody
    /\ prep = "idle"
    /\ troubles = 0 /\ left = FALSE /\ overtaken = FALSE

-----------------------------------------------------------------------------
Live == {i \in Ids : by[i] # Nobody}
Tail1 == 1 + Max(Live \cup {0})
NextId == IF seq # 0 THEN seq ELSE Tail1
Guarded == prep \in {"guarded", "applied"}

(* The job an idempotency key stands for.                                  *)
Resolves(k) == {i \in Live : k # NoKey /\ keyed[i] = k}
InOrder(S) == CHOOSE q \in [1..Cardinality(S) -> S] :
                 \A m, n \in 1..Cardinality(S) : m < n => q[m] < q[n]
Missing(ks) == LET at == InOrder({n \in DOMAIN ks : Resolves(ks[n]) = {}})
               IN  [m \in DOMAIN at |-> ks[at[m]]]
Found(ks) == UNION {Resolves(ks[n]) : n \in DOMAIN ks}

Fault == troubles < MaxTroubles /\ troubles' = troubles + 1 /\ UNCHANGED <<left, overtaken>>
NoFault == UNCHANGED budget

(* A creator ends, once it has given the jobs lock back.                   *)
LastStep(c) == IF ask[c].kind \in Locking THEN "unlock" ELSE "done"
Ends(c, how) == /\ pc' = [pc EXCEPT ![c] = LastStep(c)]
                /\ outcome' = [outcome EXCEPT ![c] = how]
Goto(c, step) == pc' = [pc EXCEPT ![c] = step] /\ UNCHANGED outcome
CleansUp(c, how) == /\ pc' = [pc EXCEPT ![c] = "discard"]
                    /\ outcome' = [outcome EXCEPT ![c] = how]

(* The rows of new jobs and of their keys.                                 *)
Register(new) ==
    /\ by' = [i \in Ids |-> IF i \in DOMAIN new THEN new[i].by ELSE by[i]]
    /\ keyed' = [i \in Ids |-> IF i \in DOMAIN new THEN new[i].key ELSE keyed[i]]

NewRows(c) == [i \in {ids[c][n] : n \in DOMAIN ids[c]} |->
                  [by |-> c, key |-> todo[c][CHOOSE n \in DOMAIN ids[c] : ids[c][n] = i]]]

-----------------------------------------------------------------------------
(* add_job and add_jobs: the producer is checked and the keys are looked   *)
(* up before anything is made.                                             *)

ProducerExact(c) == exact[c]

Refuse(c) ==
    /\ pc[c] = "start" /\ ~ProducerExact(c)
    /\ pc' = [pc EXCEPT ![c] = "done"]
    /\ outcome' = [outcome EXCEPT ![c] = "error"]
    /\ UNCHANGED <<ask, made_vars, exact, db, dirs, writer, nodelock, prep, budget>>

LookUp(c, next) ==
    LET missing == Missing(ask[c].keys) IN
    /\ pc[c] = "start" /\ ProducerExact(c)
    /\ got' = [got EXCEPT ![c] = Found(ask[c].keys)]
    /\ todo' = [todo EXCEPT ![c] = missing]
    /\ IF missing = <<>>
       THEN pc' = [pc EXCEPT ![c] = "done"] /\ outcome' = [outcome EXCEPT ![c] = "ok"]
       ELSE Goto(c, next)
    /\ UNCHANGED <<ask, ids, made, exact, db, dirs, writer, nodelock, prep, budget>>

AddJob(c) == ask[c].kind \in {"auto", "explicit"}
             /\ LookUp(c, IF ask[c].kind = "auto" THEN "publish" ELSE "lock")
AddJobs(c) == ask[c].kind = "batch" /\ LookUp(c, "reserve")

LockNode(c) ==
    /\ pc[c] = "lock" /\ nodelock = Nobody /\ writer = Nobody
    /\ nodelock' = c
    /\ Goto(c, IF ask[c].kind = "explicit" THEN "recheck" ELSE "list")
    /\ UNCHANGED <<ask, made_vars, exact, db, dirs, writer, prep, budget>>

(* The lock is not given up in time.                                       *)
LockTimesOut(c) ==
    /\ pc[c] = "lock" /\ nodelock # Nobody
    /\ Fault
    /\ pc' = [pc EXCEPT ![c] = "done"]
    /\ outcome' = [outcome EXCEPT ![c] = "error"]
    /\ UNCHANGED <<ask, made_vars, exact, db, dirs, writer, nodelock, prep>>

Unlock(c) ==
    /\ pc[c] = "unlock" /\ writer = Nobody
    /\ nodelock' = Nobody
    /\ Goto(c, "done")
    /\ UNCHANGED <<ask, made_vars, exact, db, dirs, writer, prep, budget>>

-----------------------------------------------------------------------------
(* Grouped publication of single jobs: one transaction for all that wait.  *)

Joined == {c \in Creators : pc[c] = "joined"}
Pending == UNION {made[c] : c \in Joined}
GroupNext == NextId + Cardinality(Pending)

(* A key resolves to a row, or to a job of the same group.                 *)
GroupResolves(k) == Resolves(k) \cup UNION {made[d] : d \in {e \in Joined : k # NoKey /\ todo[e] = <<k>>}}

(* The address of the next job is taken: every member of the group fails,  *)
(* and the directories of the group are removed.                           *)
GroupFails(c) ==
    /\ pc' = [d \in Creators |-> IF d \in Joined \cup {c} THEN "done" ELSE pc[d]]
    /\ outcome' = [d \in Creators |-> IF d \in Joined \cup {c} THEN "error" ELSE outcome[d]]
    /\ dirs' = [i \in Ids |-> IF i \in Pending THEN Nobody ELSE dirs[i]]
    /\ made' = [d \in Creators |-> IF d \in Joined THEN {} ELSE made[d]]
    /\ writer' = Nobody
    /\ UNCHANGED <<ids, got>>

Join(c) ==
    LET k == todo[c][1]
        i == GroupNext IN
    /\ pc[c] = "publish" /\ ask[c].kind = "auto" /\ writer \in {Nobody, Group}
    /\ i <= MaxId
    /\ CASE ~ProducerExact(c) -> Ends(c, "error") /\ UNCHANGED <<ids, made, got, dirs, writer>>
         [] ProducerExact(c) /\ GroupResolves(k) # {} ->
                /\ got' = [got EXCEPT ![c] = GroupResolves(k)]
                /\ Goto(c, "joined") /\ writer' = Group
                /\ UNCHANGED <<ids, made, dirs>>
         [] ProducerExact(c) /\ GroupResolves(k) = {} /\ Guarded ->
                Ends(c, "error") /\ UNCHANGED <<ids, made, got, dirs, writer>>
         [] OTHER -> IF dirs[i] # Nobody THEN GroupFails(c)
                     ELSE /\ dirs' = [dirs EXCEPT ![i] = c]
                          /\ made' = [made EXCEPT ![c] = {i}]
                          /\ ids' = [ids EXCEPT ![c] = <<i>>]
                          /\ got' = [got EXCEPT ![c] = {i}]
                          /\ Goto(c, "joined") /\ writer' = Group
    /\ UNCHANGED <<ask, todo, exact, db, nodelock, prep, budget>>

(* The group is committed; a member whose answer is lost, or whose         *)
(* notification fails, cleans up.                                          *)
CommitGroup ==
    /\ writer = Group
    /\ Register([i \in Pending |-> LET c == dirs[i] IN [by |-> c, key |-> todo[c][1]]])
    /\ seq' = IF Pending = {} THEN seq ELSE GroupNext
    /\ \E lost \in SUBSET {c \in Joined : made[c] # {}} :
        /\ IF lost = {} THEN NoFault ELSE Fault
        /\ pc' = [c \in Creators |-> IF c \in lost THEN "discard" ELSE IF c \in Joined THEN "done" ELSE pc[c]]
        /\ outcome' = [c \in Creators |-> IF c \in lost THEN "error" ELSE IF c \in Joined THEN "ok" ELSE outcome[c]]
    /\ writer' = Nobody
    /\ UNCHANGED <<ask, made_vars, exact, dirs, nodelock, prep>>

(* The statements fail, and the group removes its directories; or COMMIT   *)
(* fails, and each member removes its own.                                 *)
AbortGroup ==
    /\ writer = Group
    /\ Fault
    /\ dirs' = [i \in Ids |-> IF i \in Pending THEN Nobody ELSE dirs[i]]
    /\ made' = [c \in Creators |-> IF c \in Joined THEN {} ELSE made[c]]
    /\ pc' = [c \in Creators |-> IF c \in Joined THEN "done" ELSE pc[c]]
    /\ outcome' = [c \in Creators |-> IF c \in Joined THEN "error" ELSE outcome[c]]
    /\ writer' = Nobody
    /\ UNCHANGED <<ask, todo, ids, got, exact, db, nodelock, prep>>

GroupCommitFails ==
    /\ writer = Group
    /\ Fault
    /\ pc' = [c \in Creators |-> IF c \in Joined THEN "discard" ELSE pc[c]]
    /\ outcome' = [c \in Creators |-> IF c \in Joined THEN "error" ELSE outcome[c]]
    /\ writer' = Nobody
    /\ UNCHANGED <<ask, made_vars, exact, db, dirs, nodelock, prep>>

-----------------------------------------------------------------------------
(* A job with an explicit id, under the jobs lock.                         *)

Recheck(c) ==
    /\ pc[c] = "recheck"
    /\ LET found == Found(todo[c]) IN
       CASE found # {} -> got' = [got EXCEPT ![c] = found] /\ Ends(c, "ok")
         [] found = {} /\ ask[c].address \in Live -> Ends(c, "error") /\ UNCHANGED got
         [] OTHER -> Goto(c, "publish") /\ UNCHANGED got
    /\ UNCHANGED <<ask, todo, ids, made, exact, db, dirs, writer, nodelock, prep, budget>>

PublishExplicit(c) ==
    LET i == ask[c].address
        found == Found(todo[c]) IN
    /\ pc[c] = "publish" /\ ask[c].kind = "explicit" /\ writer = Nobody
    /\ CASE ProducerExact(c) /\ found # {} ->
                got' = [got EXCEPT ![c] = found] /\ Ends(c, "ok") /\ UNCHANGED <<ids, made, dirs, writer>>
         [] ProducerExact(c) /\ found = {} /\ i \notin Live /\ ~Guarded /\ dirs[i] = Nobody ->
                /\ dirs' = [dirs EXCEPT ![i] = c]
                /\ made' = [made EXCEPT ![c] = {i}]
                /\ ids' = [ids EXCEPT ![c] = <<i>>]
                /\ got' = [got EXCEPT ![c] = {i}]
                /\ writer' = c /\ Goto(c, "inserting")
         [] OTHER -> Ends(c, "error") /\ UNCHANGED <<ids, made, got, dirs, writer>>
    /\ UNCHANGED <<ask, todo, exact, db, nodelock, prep, budget>>

Ahead(i) == IF seq = 0 THEN i + 1 ELSE Max({seq, i + 1})

CommitExplicit(c) ==
    /\ pc[c] = "inserting"
    /\ Register(NewRows(c))
    /\ seq' = Ahead(ask[c].address)
    /\ writer' = Nobody
    /\ \/ Ends(c, "ok") /\ NoFault
       \/ CleansUp(c, "error") /\ Fault
    /\ UNCHANGED <<ask, made_vars, exact, dirs, nodelock, prep>>

(* An error inside the transaction removes the directory at once; a failed *)
(* COMMIT leaves it to the caller.                                         *)
AbortExplicit(c) ==
    /\ pc[c] = "inserting"
    /\ Fault
    /\ writer' = Nobody
    /\ \/ /\ Ends(c, "error")
          /\ dirs' = [dirs EXCEPT ![ask[c].address] = Nobody]
          /\ made' = [made EXCEPT ![c] = {}]
       \/ CleansUp(c, "error") /\ UNCHANGED <<dirs, made>>
    /\ UNCHANGED <<ask, todo, ids, got, exact, db, nodelock, prep>>

-----------------------------------------------------------------------------
(* A batch reserves its ids in a transaction of its own; default jobs have *)
(* the ids of their declaration.                                           *)

Reserve(c) ==
    LET n == Len(todo[c]) IN
    /\ pc[c] = "reserve" /\ writer = Nobody
    /\ NextId + n - 1 <= MaxId
    /\ IF Guarded THEN Ends(c, "error") /\ UNCHANGED <<ids, seq>>
       ELSE /\ ids' = [ids EXCEPT ![c] = [m \in 1..n |-> NextId + m - 1]]
            /\ seq' = NextId + n
            /\ Goto(c, "preparing")
    /\ UNCHANGED <<ask, todo, made, got, exact, by, keyed, dirs, writer, nodelock, prep, budget>>

DefaultMissing(c) == (1..ask[c].address) \ Live

ListDefault(c) ==
    /\ pc[c] = "list"
    /\ LET missing == InOrder(DefaultMissing(c))
       IN  /\ ids' = [ids EXCEPT ![c] = missing]
           /\ todo' = [todo EXCEPT ![c] = [n \in DOMAIN missing |-> NoKey]]
           /\ IF missing = <<>> THEN Ends(c, "ok") ELSE Goto(c, "preparing")
    /\ UNCHANGED <<ask, made, got, exact, db, dirs, writer, nodelock, prep, budget>>

(* The directories are made outside every transaction, one by one.         *)
MakeDirectory(c) ==
    LET i == ids[c][Cardinality(made[c]) + 1] IN
    /\ pc[c] = "preparing"
    /\ IF dirs[i] # Nobody THEN CleansUp(c, "error") /\ UNCHANGED <<dirs, made>>
       ELSE /\ dirs' = [dirs EXCEPT ![i] = c]
            /\ made' = [made EXCEPT ![c] = @ \cup {i}]
            /\ Goto(c, IF Cardinality(made[c]) + 1 = Len(ids[c]) THEN "commit" ELSE "preparing")
    /\ UNCHANGED <<ask, todo, ids, got, exact, db, writer, nodelock, prep, budget>>

(* Keys that were taken meanwhile keep their job; the rest is registered.  *)
BugNoResolution(c) == DOMAIN ids[c]
BatchNew(c) == {n \in DOMAIN ids[c] : Resolves(todo[c][n]) = {}}
BatchMayCommit(c) ==
    /\ ProducerExact(c)
    /\ BatchNew(c) # {} => ~Guarded /\ \A n \in BatchNew(c) : ids[c][n] \notin Live

CommitBatch(c) ==
    LET new == BatchNew(c)
        rows == [i \in {ids[c][n] : n \in new} |-> NewRows(c)[i]]
        lose == made[c] \ DOMAIN rows IN
    /\ pc[c] = "commit" /\ ask[c].kind = "batch" /\ writer = Nobody
    /\ IF ~BatchMayCommit(c) THEN CleansUp(c, "error") /\ NoFault /\ UNCHANGED <<by, keyed, made, got>>
       ELSE /\ Register(rows)
            /\ got' = [got EXCEPT ![c] = @ \cup DOMAIN rows \cup Found(todo[c])]
            /\ \/ /\ made' = [made EXCEPT ![c] = lose]
                  /\ IF lose = {} THEN Ends(c, "ok") ELSE CleansUp(c, "ok")
                  /\ NoFault
               \/ CleansUp(c, "error") /\ Fault /\ UNCHANGED made
    /\ UNCHANGED <<ask, todo, ids, exact, seq, dirs, writer, nodelock, prep>>

CommitDefault(c) ==
    LET want == {ids[c][n] : n \in DOMAIN ids[c]} IN
    /\ pc[c] = "commit" /\ ask[c].kind = "default" /\ writer = Nobody
    /\ IF Guarded \/ want \cap Live # {}
       THEN CleansUp(c, "error") /\ NoFault /\ UNCHANGED <<by, keyed, seq, got>>
       ELSE /\ Register(NewRows(c))
            /\ seq' = Ahead(Max(want))
            /\ got' = [got EXCEPT ![c] = want]
            /\ \/ Ends(c, "ok") /\ NoFault
               \/ CleansUp(c, "error") /\ Fault
    /\ UNCHANGED <<ask, todo, ids, made, exact, dirs, writer, nodelock, prep>>

(* The transaction of a batch fails and nothing is registered.             *)

CommitFails(c) ==
    /\ pc[c] = "commit" /\ writer = Nobody
    /\ Fault
    /\ CleansUp(c, "error")
    /\ UNCHANGED <<ask, made_vars, exact, db, dirs, writer, nodelock, prep>>

-----------------------------------------------------------------------------
(* Under the jobs lock and the database writer, the directories that have  *)
(* no row are removed.                                                     *)
BugDiscardsAll(c) == made[c]
Unregistered(c) == {i \in made[c] : i \notin Live}

BugNotReentrant(c) ==
    /\ pc[c] = "discard" /\ nodelock = Nobody /\ writer = Nobody
    /\ dirs' = [i \in Ids |-> IF i \in Unregistered(c) THEN Nobody ELSE dirs[i]]
    /\ made' = [made EXCEPT ![c] = {}]
    /\ Goto(c, LastStep(c))
    /\ UNCHANGED <<ask, todo, ids, got, exact, db, writer, nodelock, prep, budget>>

Discard(c) ==
    /\ pc[c] = "discard" /\ nodelock \in {Nobody, c} /\ writer = Nobody
    /\ dirs' = [i \in Ids |-> IF i \in Unregistered(c) THEN Nobody ELSE dirs[i]]
    /\ made' = [made EXCEPT ![c] = {}]
    /\ Goto(c, LastStep(c))
    /\ UNCHANGED <<ask, todo, ids, got, exact, db, writer, nodelock, prep, budget>>

(* A clean-up that fails, or that does not get the lock in time, is noted  *)
(* in the error and keeps the directories.                                 *)
DiscardFails(c) ==
    /\ pc[c] = "discard"
    /\ troubles < MaxTroubles /\ troubles' = troubles + 1
    /\ left' = TRUE
    /\ made' = [made EXCEPT ![c] = {}]
    /\ pc' = [pc EXCEPT ![c] = LastStep(c)]
    /\ outcome' = [outcome EXCEPT ![c] = "error"]
    /\ UNCHANGED <<ask, todo, ids, got, exact, db, dirs, writer, nodelock, prep, overtaken>>

-----------------------------------------------------------------------------
(* A fresh preparation of another session deletes jobs of the node, their  *)
(* keys and their files, and rewinds the sequence behind the last job.     *)

HoldGuard ==
    /\ prep = "idle" /\ writer = Nobody
    /\ prep' = "guarded"
    /\ UNCHANGED <<ask, pc, made_vars, outcome, exact, db, dirs, writer, nodelock, budget>>

(* Creators that still answer for ids of their own.                        *)
Unsettled == {c \in Creators : pc[c] \in {"preparing", "commit", "discard"}}

DeleteJobs ==
    /\ prep = "guarded" /\ nodelock = Nobody /\ writer = Nobody
    /\ prep' = "applied"
    /\ \E gone \in SUBSET Live :
        /\ by' = [i \in Ids |-> IF i \in gone THEN Nobody ELSE by[i]]
        /\ keyed' = [i \in Ids |-> IF i \in gone THEN NoKey ELSE keyed[i]]
        /\ dirs' = [i \in Ids |-> IF i \in gone THEN Nobody ELSE dirs[i]]
        /\ seq' = IF gone = {} THEN seq ELSE 1 + Max((Live \ gone) \cup {0})
        /\ overtaken' = (overtaken \/ (gone # {} /\ Unsettled # {}))
    /\ UNCHANGED <<ask, pc, made_vars, outcome, exact, writer, nodelock, troubles, left>>

ReleaseGuard ==
    /\ prep = "applied" /\ writer = Nobody
    /\ prep' = "done"
    /\ UNCHANGED <<ask, pc, made_vars, outcome, exact, db, dirs, writer, nodelock, budget>>

(* The producer of a creator is restarted: its execution is not the active *)
(* one any more.                                                           *)
RestartProducer(c) ==
    /\ exact[c] /\ ask[c].kind # "default" /\ pc[c] # "done" /\ writer = Nobody
    /\ Fault
    /\ exact' = [exact EXCEPT ![c] = FALSE]
    /\ UNCHANGED <<ask, pc, made_vars, outcome, db, dirs, writer, nodelock, prep>>

(* The process dies with the creators that have begun: an open transaction *)
(* is rolled back, its directories stay.                                   *)
Crash ==
    /\ \E c \in Creators : pc[c] \notin {"start", "done"}
    /\ troubles < MaxTroubles /\ troubles' = troubles + 1
    /\ left' = TRUE
    /\ LET dead == {c \in Creators : pc[c] # "start" /\ ~(pc[c] = "lock" /\ ask[c].kind = "default")}
       IN  /\ pc' = [c \in Creators |-> IF c \in dead THEN "done" ELSE pc[c]]
           /\ outcome' = [c \in Creators |-> IF c \in dead /\ pc[c] # "done" THEN "error" ELSE outcome[c]]
           /\ nodelock' = IF nodelock \in dead THEN Nobody ELSE nodelock
    /\ writer' = Nobody
    /\ UNCHANGED <<ask, made_vars, exact, db, dirs, prep, overtaken>>

-----------------------------------------------------------------------------
Step(c) ==
    \/ Refuse(c) \/ AddJob(c) \/ AddJobs(c) \/ LockNode(c) \/ Unlock(c)
    \/ Join(c)
    \/ Recheck(c) \/ PublishExplicit(c) \/ CommitExplicit(c)
    \/ Reserve(c) \/ ListDefault(c) \/ MakeDirectory(c) \/ CommitBatch(c) \/ CommitDefault(c)
    \/ Discard(c)

Next ==
    \/ \E c \in Creators : Step(c) \/ AbortExplicit(c) \/ CommitFails(c) \/ RestartProducer(c)
                          \/ LockTimesOut(c) \/ DiscardFails(c)
    \/ CommitGroup \/ AbortGroup \/ GroupCommitFails
    \/ HoldGuard \/ DeleteJobs \/ ReleaseGuard
    \/ Crash

Spec == Init /\ [][Next]_vars

(* Threads run and the database writer serves its queue; nothing is said   *)
(* of faults, nor of the other session.                                    *)
Fairness ==
    /\ \A c \in Creators : WF_vars(Step(c))
    /\ WF_vars(CommitGroup)

FairSpec == Spec /\ Fairness

-----------------------------------------------------------------------------
(* Properties.                                                             *)

(* Every registered job has the directory its own creator made, whatever   *)
(* the clean-up of a failed or doubtful publication removed (excepted is a *)
(* preparation that rewinds the sequence over ids in use).                 *)
RowsHaveInputs == ~overtaken => \A i \in Live : dirs[i] = by[i]

(* One idempotency key stands for one job, however the publications that   *)
(* carry it interleave.                                                    *)
OneJobPerKey == \A i, j \in Live : keyed[i] # NoKey /\ keyed[i] = keyed[j] => i = j

(* Creators that ended leave no directory without a job, unless their      *)
(* process died or they reported that their clean-up failed.               *)
NoLitter == ~left => \A i \in Ids : dirs[i] # Nobody /\ pc[dirs[i]] = "done" => i \in Live

(* When nobody is creating, the next allocated address is free: a creation *)
(* with an allocated id finds its place.  Excepted are directories left    *)
(* behind by a process death or a failed clean-up, and a preparation that  *)
(* rewinds the sequence over ids in use.                                   *)
AddressFree ==
    (\A c \in Creators : pc[c] \in {"start", "lock", "publish", "reserve", "done"})
        => left \/ overtaken \/ NextId > MaxId \/ dirs[NextId] = Nobody

(* Directories and rows agree: each job has its input, no creator leaves a *)
(* directory behind and the next address is free.                          *)
DirectoriesMatchRows == RowsHaveInputs /\ NoLitter /\ AddressFree

(* Every creator ends: the jobs lock, the database writer and the clean-up *)
(* do not wait for each other.                                             *)
CreatorsEnd == \A c \in Creators : <>(pc[c] = "done")
=============================================================================
