----------------------- MODULE RestartOperationProofs -----------------------
(***************************************************************************)
(* A manual restart loses no output and brings none back, for every set of *)
(* jobs, operations and recoveries and every pattern of crashes and file   *)
(* faults; and where nobody touches a job under a prepared receipt it is   *)
(* an atomic restart.                                                      *)
(***************************************************************************)
EXTENDS RestartOperation, WellFoundedInduction, FiniteSetTheorems, TLAPS

(***************************************************************************)
(* The inductive invariant.                                                *)
(***************************************************************************)
Agents == [pc : Places, op : Ops \cup Actors, left : SUBSET Jobs, back : SUBSET Jobs,
           broken : BOOLEAN, seen : {"none", "prepared", "committed", "aborted"}]
PlanShape(o) ==
    /\ plan[o] = [targets |-> Targets(o), pre |-> plan[o].pre, original |-> plan[o].original]
    /\ Targets(o) \subseteq Jobs
    /\ Targets(o) # {} => /\ plan[o].pre \in [Targets(o) -> Rows]
                          /\ plan[o].original \in [Targets(o) -> Outputs]
Types ==
    /\ TypeOK /\ at \in [Actors -> Agents]
    /\ plan = [o \in Ops |-> plan[o]] /\ \A o \in Ops : PlanShape(o)

(* Where an actor can be, and for which operation.                         *)
Early == {"idle", "fence", "capture", "prepare"}
Undoing == {"restore", "rollback", "abort", "discard"}
Placed(w) ==
    /\ w \in Ops => at[w].op = w /\ at[w].pc \notin {"lock", "check"}
    /\ w \in Recoverers =>
          /\ at[w].pc \in {"idle", "lock", "check", "release", "done"} \cup Undoing
          /\ at[w].pc \notin {"idle", "done"} => at[w].op \in Ops /\ receipt[at[w].op] # "none"

(* Its locks: an actor at work holds the lock of its operation and the     *)
(* fences of its targets, one that waits those before the one it waits     *)
(* for, one that has left none.                                            *)
Working(w) == at[w].pc \in {"capture", "prepare", "stage", "check"} \cup Undoing
Out(w) == at[w].pc \in {"idle", "lock", "done", "dead"}
Held(w) ==
    /\ Working(w) => lock[at[w].op] = w /\ \A j \in Targets(at[w].op) : fence[j] = w
    /\ Out(w) => \A j \in Jobs : fence[j] # w
    /\ at[w].pc = "fence" =>
          /\ lock[w] = w /\ at[w].left \subseteq Targets(w)
          /\ \A j \in Jobs : fence[j] = w <=> j \in Targets(w) \ at[w].left
          /\ \A j \in Targets(w) \ at[w].left, k \in at[w].left : j < k

(* What it works on agrees with the receipt of its operation; while it may *)
(* move files no target has a new generation.                              *)
SameGeneration(o) == \A j \in Targets(o) : row[j].gen = plan[o].pre[j].gen
Stages(w) ==
    /\ w \in Ops /\ at[w].pc \in Early => receipt[w] = "none"
    /\ at[w].pc \in {"stage", "restore", "rollback", "abort"} => receipt[at[w].op] = "prepared"
    /\ at[w].pc = "discard" => receipt[at[w].op] \in {"committed", "aborted"}
    /\ at[w].pc \in {"stage", "restore", "rollback", "discard"} => at[w].left \subseteq Targets(at[w].op)
    /\ at[w].pc \in {"restore", "rollback"} => at[w].back \subseteq Targets(at[w].op)
    /\ at[w].pc = "stage" => at[w].back = {} /\ \A j \in at[w].left : Original(at[w].op, j) # NoOutput
    /\ at[w].pc \in {"capture", "prepare", "stage", "check", "lock", "fence", "idle"} => at[w].back = {}
    /\ at[w].pc \in {"prepare", "stage", "restore"} => SameGeneration(at[w].op)
ActorOK(w) == Placed(w) /\ Held(w) /\ Stages(w)

(* The manifest: what it says of the rows and of the outputs.              *)
Manifest ==
    /\ \A o \in Ops, j \in Jobs : saved[o][j] # NoOutput =>
          /\ j \in Targets(o) /\ saved[o][j] = Original(o, j)
          /\ receipt[o] \in {"prepared", "committed"}
    /\ \A o \in Ops : \A j \in Targets(o) :
          plan[o].pre[j].gen < MaxGeneration /\ Original(o, j) \in {NoOutput, plan[o].pre[j].gen}
    /\ \A o \in Ops : receipt[o] = "committed" =>
          \A j \in Targets(o) : row[j].gen > plan[o].pre[j].gen
    /\ \A o \in Ops : receipt[o] # "none" \/ at[o].pc \in {"fence", "capture", "prepare"} =>
          Targets(o) # {}

(* Two prepared operations have no target in common.                       *)
Disjoint ==
    \A o, p \in Ops : o # p /\ receipt[o] = "prepared" /\ receipt[p] = "prepared" =>
        Targets(o) \cap Targets(p) = {}

(* The output a job must have, because it is terminal or its attempt has   *)
(* written it and may still make the row terminal.                         *)
Owed(j) == row[j].status \in Terminal \/ (lease[j].pc = "written" /\ Current(j))
Kept(j) == visible[j] = row[j].gen \/ \E o \in Ops : saved[o][j] = row[j].gen
Attempts ==
    /\ \A j \in Jobs : lease[j].pc = "guarded" => fence[j] = Worker /\ Current(j)
    /\ \A j \in Jobs : Owed(j) => Kept(j)
    /\ ~ scene.interfering => \A j \in Jobs : lease[j].pc = "guarded" =>
          \A o \in Ops : receipt[o] = "prepared" => j \notin Targets(o)

OInv == /\ Types /\ (\A w \in Actors : ActorOK(w))
        /\ Manifest /\ Disjoint /\ Attempts /\ NoStaleOutput

(***************************************************************************)
(* First and Last: a selection has a least address, and being finite a     *)
(* greatest one.                                                           *)
(***************************************************************************)
LEMMA Smallest ==
    ASSUME NEW S \in SUBSET Nat, S # {}
    PROVE  \E n \in S : \A m \in S : n <= m
<1>1. PICK n \in S : \A m \in S : ~ (<<m, n>> \in OpToRel(<, Nat))
    BY NatLessThanWellFounded, WFMin
<1>2. \A m \in S : ~ (m < n) BY <1>1 DEF OpToRel
<1> QED BY <1>2

(* A smallest unbounded subset would stay unbounded without one element.   *)
LEMMA Bounded ==
    ASSUME NEW S \in SUBSET Nat, IsFiniteSet(S)
    PROVE  \E n \in Nat : \A m \in S : m <= n
<1> DEFINE Loose(T) == \A n \in Nat : \E m \in T : ~ (m <= n)
<1> DEFINE Sizes == {k \in Nat : \E T \in SUBSET S : Loose(T) /\ Cardinality(T) = k}
<1>1. SUFFICES ASSUME Loose(S) PROVE FALSE OBVIOUS
<1>2. Cardinality(S) \in Sizes BY <1>1, FS_CardinalityType
<1>3. PICK k \in Sizes : \A l \in Sizes : k <= l BY <1>2, Smallest
<1>4. PICK T \in SUBSET S : Loose(T) /\ Cardinality(T) = k BY <1>3
<1>5. PICK x \in T : TRUE BY <1>4
<1>6. IsFiniteSet(T) BY FS_Subset
<1>7. Cardinality(T \ {x}) = k - 1 /\ Cardinality(T \ {x}) \in Nat
    <2>1. IsFiniteSet(T \ {x}) BY <1>6, FS_RemoveElement
    <2> QED BY <2>1, <1>4, <1>5, <1>6, FS_RemoveElement, FS_CardinalityType
<1>8. k - 1 \notin Sizes BY <1>3
<1>9. ~ Loose(T \ {x}) BY <1>7, <1>8
<1>10. PICK n \in Nat : \A m \in T \ {x} : m <= n BY <1>9
<1>11. \A m \in T : m <= n + x BY <1>5, <1>10
<1>12. n + x \in Nat BY <1>5
<1> QED BY <1>4, <1>11, <1>12

LEMMA Greatest ==
    ASSUME NEW S \in SUBSET Nat, S # {}, IsFiniteSet(S)
    PROVE  \E n \in S : \A m \in S : n >= m
<1> DEFINE B == {n \in Nat : \A m \in S : m <= n}
<1>1. B # {} BY Bounded
<1>2. PICK n \in B : \A b \in B : n <= b BY <1>1, Smallest
<1>3. n \in S
    <2>1. SUFFICES ASSUME n \notin S PROVE FALSE OBVIOUS
    <2>2. \A m \in S : m <= n - 1 BY <2>1, <1>2
    <2>3. PICK m \in S : TRUE OBVIOUS
    <2>4. m \in Nat /\ m <= n - 1 /\ n \in Nat BY <2>2, <2>3, <1>2
    <2>5. n - 1 \in Nat BY <2>4
    <2> QED BY <2>2, <2>5, <1>2
<1> QED BY <1>2, <1>3

LEMMA FirstIn ==
    ASSUME NEW S \in SUBSET Jobs, S # {}
    PROVE  First(S) \in S /\ First(S) \in Jobs /\ \A k \in S : First(S) <= k
<1>1. S \in SUBSET Nat BY RestartAssumption
<1> QED BY <1>1, Smallest DEF First

LEMMA LastIn == ASSUME NEW S \in SUBSET Jobs, S # {} PROVE Last(S) \in S /\ Last(S) \in Jobs
<1>1. S \in SUBSET Nat /\ IsFiniteSet(S) BY RestartAssumption, FS_Subset
<1> QED BY <1>1, Greatest DEF Last

(***************************************************************************)
(* What a step leaves and changes of an actor.                             *)
(***************************************************************************)
Others(w) == \A v \in Actors \ {w} : at'[v] = at[v]

LEMMA Moves ==
    ASSUME at \in [Actors -> Agents], NEW w \in Actors, NEW place \in Places,
           NEW left \in SUBSET Jobs, Step(w, place, left)
    PROVE  /\ at' \in [Actors -> Agents] /\ Others(w)
           /\ at'[w].pc = place /\ at'[w].left = left
           /\ at'[w].op = at[w].op /\ at'[w].back = at[w].back
<1> DEFINE a == [at[w] EXCEPT !.pc = place, !.left = left]
<1>1. at' = [at EXCEPT ![w] = a] BY DEF Step
<1>2. at[w] \in Agents OBVIOUS
<1>3. a \in Agents /\ a.pc = place /\ a.left = left /\ a.op = at[w].op /\ a.back = at[w].back
    BY <1>2 DEF Agents
<1> QED BY <1>1, <1>3 DEF Others

LEMMA Leaves ==
    ASSUME at \in [Actors -> Agents], NEW w \in Actors, NEW place \in Places, Leave(w, place)
    PROVE  /\ at' \in [Actors -> Agents] /\ Others(w)
           /\ at'[w].pc = (IF w \in Ops THEN place ELSE "idle") /\ at'[w].op = w
<1> DEFINE a == [Idle(w) EXCEPT !.pc = IF w \in Ops THEN place ELSE "idle"]
<1>1. at' = [at EXCEPT ![w] = a] BY DEF Leave
<1>2. a \in Agents /\ a.pc = (IF w \in Ops THEN place ELSE "idle") /\ a.op = w
    BY DEF Agents, Idle, Places
<1> QED BY <1>1, <1>2 DEF Others

(***************************************************************************)
(* An actor that keeps its place stays as it should be while others move,  *)
(* as long as they respect its locks.                                      *)
(***************************************************************************)
Respects(v) ==
    /\ at'[v] = at[v]
    /\ \A j \in Jobs : fence'[j] = v <=> fence[j] = v
    /\ \A o \in Ops : lock[o] = v => lock'[o] = v \/ (o # v /\ receipt[o] = "none")
    /\ \A o \in Ops : receipt'[o] = receipt[o] \/
          (lock[o] # v /\ receipt'[o] # "none" /\ (o = v => receipt[o] # "none"))
    /\ \A o \in Ops : plan'[o] = plan[o] \/ (o # v /\ receipt[o] = "none")
    /\ \A j \in Jobs : row'[j].gen = row[j].gen \/ fence[j] # v

LEMMA ActorsApart == Ops \cap Recoverers = {} /\ Ops \subseteq Actors /\ Recoverers \subseteq Actors
BY RestartAssumption DEF Actors

LEMMA OwnPlan ==
    ASSUME OInv, NEW v \in Actors, Working(v) \/ at[v].pc = "fence"
    PROVE  /\ at[v].op \in Ops /\ Targets(at[v].op) \subseteq Jobs
           /\ (v = at[v].op /\ v \in Ops) \/ (v \notin Ops /\ receipt[at[v].op] # "none" /\ at[v].pc # "fence")
<1>1. ActorOK(v) BY DEF OInv
<1>2. at[v].op \in Ops /\ (v \in Ops \/ receipt[at[v].op] # "none")
    BY <1>1, ActorsApart DEF ActorOK, Placed, Working, Actors, Undoing
<1>3. Targets(at[v].op) \subseteq Jobs BY <1>2 DEF OInv, Types, PlanShape
<1>4. v \in Ops => at[v].op = v BY <1>1 DEF ActorOK, Placed
<1>5. v \notin Ops => at[v].pc # "fence" BY <1>1 DEF ActorOK, Placed, Undoing, Actors
<1> QED BY <1>2, <1>3, <1>4, <1>5

LEMMA Bystander == ASSUME OInv, NEW v \in Actors, Respects(v) PROVE ActorOK(v)'
<1> DEFINE q == at[v].op
<1>1. ActorOK(v) /\ at'[v] = at[v] BY DEF OInv, Respects
<1>2. Placed(v)'
    BY <1>1 DEF ActorOK, Placed, Respects
<1>3. CASE Working(v) \/ at[v].pc = "fence"
    <2>1. q \in Ops /\ Targets(q) \subseteq Jobs /\ (v = q \/ receipt[q] # "none") /\ (at[v].pc = "fence" => q = v)
        BY <1>3, OwnPlan
    <2>2. plan'[q] = plan[q] BY <2>1 DEF Respects
    <2>3. Targets(q)' = Targets(q) BY <2>2, <1>1 DEF Targets
    <2>4. Working(v) => lock[q] = v /\ lock'[q] = v /\ receipt'[q] = receipt[q]
        BY <1>1, <2>1 DEF ActorOK, Held, Respects
    <2>5. Working(v)' = Working(v) /\ Out(v)' = Out(v) BY <1>1 DEF Working, Out
    <2>6. Held(v)'
        <3>1. Working(v) => \A j \in Targets(q) : fence'[j] = v
            BY <1>1, <2>1 DEF ActorOK, Held, Respects
        <3>2. at[v].pc = "fence" =>
                /\ lock'[v] = v /\ at[v].left \subseteq Targets(v)
                /\ \A j \in Jobs : fence'[j] = v <=> j \in Targets(v) \ at[v].left
                /\ \A j \in Targets(v) \ at[v].left, k \in at[v].left : j < k
            BY <1>1, <2>1 DEF ActorOK, Held, Respects
        <3>3. ~ Out(v) BY <1>3 DEF Out, Working, Undoing
        <3> QED BY <1>1, <2>1, <2>3, <2>4, <2>5, <3>1, <3>2, <3>3 DEF Held
    <2>7. Working(v) => (SameGeneration(q) => SameGeneration(q)')
        <3>1. Working(v) => \A j \in Targets(q) : fence[j] = v BY <1>1 DEF ActorOK, Held
        <3> QED BY <1>1, <3>1, <2>1, <2>2, <2>3 DEF SameGeneration, Respects
    <2>8. \A j \in Jobs : Original(q, j)' = Original(q, j) BY <2>2, <1>1 DEF Original
    <2>9. v \in Ops /\ at[v].pc \in Early => receipt'[v] = "none"
        BY <1>1 DEF ActorOK, Stages, Respects
    <2>10. at[v].left \subseteq Jobs BY DEF OInv, Types, Agents
    <2>11. Stages(v)'
        <3> HIDE DEF q
        <3>1. /\ at[v].pc \in {"stage", "restore", "rollback", "abort"} => receipt'[q] = "prepared"
              /\ at[v].pc = "discard" => receipt'[q] \in {"committed", "aborted"}
              /\ at[v].pc \in {"stage", "restore", "rollback", "discard"} => at[v].left \subseteq Targets(q)
              /\ at[v].pc \in {"restore", "rollback"} => at[v].back \subseteq Targets(q)
            BY <1>1, <2>4 DEF ActorOK, Stages, Working, Undoing, q
        <3>2. at[v].pc = "stage" => at[v].back = {} /\ \A j \in at[v].left : Original(q, j)' # NoOutput
            BY <1>1, <2>8, <2>10 DEF ActorOK, Stages, q
        <3>3. at[v].pc \in {"prepare", "stage", "restore"} => SameGeneration(q)'
            BY <1>1, <2>7 DEF ActorOK, Stages, Working, Undoing, q
        <3>4. at[v].pc \in {"capture", "prepare", "stage", "check", "lock", "fence", "idle"} => at[v].back = {}
            BY <1>1 DEF ActorOK, Stages
        <3> QED BY <1>1, <2>3, <2>9, <3>1, <3>2, <3>3, <3>4 DEF Stages, q
    <2> QED BY <1>2, <2>6, <2>11 DEF ActorOK
<1>4. CASE ~ (Working(v) \/ at[v].pc = "fence")
    <2>1. Held(v)' BY <1>1, <1>4 DEF ActorOK, Held, Working, Out, Respects
    <2>2. Stages(v)'
        BY <1>1, <1>4 DEF ActorOK, Stages, Working, Undoing, Early, Respects
    <2> QED BY <1>2, <2>1, <2>2 DEF ActorOK
<1> QED BY <1>3, <1>4

(***************************************************************************)
(* Steps that move one actor and nothing else.                             *)
(***************************************************************************)
LEMMA AtTyped ==
    ASSUME OInv, NEW w \in Actors, at' \in [Actors -> Agents], Others(w), at'[w].op \in Ops \cup {w}
    PROVE  \A v \in Actors :
              /\ at'[v].pc \in Places /\ at'[v].op \in Ops \cup {v}
              /\ at'[v].left \subseteq Jobs /\ at'[v].back \subseteq Jobs
<1>1. \A v \in Actors : at'[v] \in Agents OBVIOUS
<1>2. \A v \in Actors \ {w} : at'[v].op \in Ops \cup {v} BY DEF OInv, Types, TypeOK, Others
<1> QED BY <1>1, <1>2 DEF Agents

LEMMA PlanTypes ==
    ASSUME UNCHANGED plan, Types PROVE
      /\ plan' = [o \in Ops |-> plan'[o]] /\ \A o \in Ops : PlanShape(o)'
      /\ \A o \in Ops : Targets(o)' = Targets(o) /\ (NoPlan' = NoPlan)
BY DEF Types, PlanShape, Targets, NoPlan

LEMMA FilesFramed ==
    ASSUME OInv, UNCHANGED <<row, files, receipt, plan, lease, scene>>,
           \A j \in Jobs : fence[j] = Worker => fence'[j] = Worker
    PROVE  Disjoint' /\ Attempts' /\ NoStaleOutput'
<1>1. Disjoint' BY DEF OInv, Disjoint, Targets
<1>2. Attempts'
    <2>1. \A j \in Jobs : Owed(j)' <=> Owed(j) BY DEF Owed, Current
    <2>2. \A j \in Jobs : Kept(j)' <=> Kept(j) BY DEF Kept, files
    <2> QED BY <2>1, <2>2 DEF OInv, Attempts, Current, Targets
<1>3. NoStaleOutput' BY DEF OInv, NoStaleOutput, files
<1> QED BY <1>1, <1>2, <1>3

LEMMA ManifestKept ==
    ASSUME OInv, UNCHANGED <<plan, receipt>>,
           \A p \in Ops : at'[p].pc \in {"fence", "capture", "prepare"} =>
              at[p].pc \in {"fence", "capture", "prepare"},
           \A p \in Ops, k \in Jobs : saved'[p][k] # NoOutput =>
              /\ k \in Targets(p) /\ saved'[p][k] = Original(p, k)
              /\ receipt[p] \in {"prepared", "committed"},
           \A k \in Jobs : row'[k].gen >= row[k].gen,
           row' \in [Jobs -> Rows]
    PROVE  Manifest'
<1>1. \A p \in Ops : Targets(p)' = Targets(p) /\ Targets(p) \subseteq Jobs
    BY DEF Targets, OInv, Types, PlanShape
<1>2. \A p \in Ops, k \in Jobs : Original(p, k)' = Original(p, k) BY DEF Original
<1>3. \A p \in Ops : \A k \in Targets(p) : plan[p].pre[k].gen \in Nat
    <2> SUFFICES ASSUME NEW p \in Ops, NEW k \in Targets(p) PROVE plan[p].pre[k].gen \in Nat OBVIOUS
    <2>1. plan[p].pre[k] \in Rows BY DEF OInv, Types, PlanShape
    <2> QED BY <2>1, RestartAssumption DEF Rows
<1>4. \A k \in Jobs : row[k].gen \in Nat /\ row'[k].gen \in Nat
    BY RestartAssumption DEF OInv, Types, TypeOK, Rows
<1>5. ASSUME NEW p \in Ops, receipt[p] = "committed", NEW k \in Targets(p)
      PROVE  row'[k].gen > plan[p].pre[k].gen
    <2>1. k \in Jobs /\ row[k].gen > plan[p].pre[k].gen BY <1>1, <1>5 DEF OInv, Manifest
    <2>2. row'[k].gen >= row[k].gen BY <2>1
    <2> QED BY <2>1, <2>2, <1>3, <1>4
<1>6. \A p \in Ops : \A k \in Targets(p) :
          plan[p].pre[k].gen < MaxGeneration /\ Original(p, k)' \in {NoOutput, plan[p].pre[k].gen}
    BY <1>1, <1>2 DEF OInv, Manifest
<1>7. \A p \in Ops : receipt[p] # "none" \/ at'[p].pc \in {"fence", "capture", "prepare"} =>
          Targets(p) # {}
    BY DEF OInv, Manifest
<1> QED BY <1>1, <1>2, <1>5, <1>6, <1>7 DEF Manifest

LEMMA GensKept ==
    ASSUME OInv, UNCHANGED row PROVE row' \in [Jobs -> Rows] /\ \A k \in Jobs : row'[k].gen >= row[k].gen
BY RestartAssumption DEF OInv, Types, TypeOK, Rows

LEMMA QuietMove ==
    ASSUME OInv, NEW w \in Actors, NEW place, NEW left, Working(w),
           place \in {"restore", "rollback", "abort", "discard", "release"},
           at' \in [Actors -> Agents], Others(w),
           at'[w].pc = place, at'[w].op = at[w].op, at'[w].left = left,
           place \in {"restore", "rollback"} => at'[w].back \subseteq Targets(at[w].op),
           place \in {"restore", "rollback", "discard"} => left \subseteq Targets(at[w].op),
           place \in {"restore", "rollback", "abort"} => receipt[at[w].op] = "prepared",
           place = "discard" => receipt[at[w].op] \in {"committed", "aborted"},
           place = "restore" => SameGeneration(at[w].op),
           UNCHANGED <<row, files, receipt, plan, locks, lease, crashes, scene>>,
           faults' \in 0 .. scene.faults
    PROVE  OInv'
<1>0. PICK o \in Ops : at[w].op = o BY OwnPlan
<1>1. o \in Ops /\ Targets(o) \subseteq Jobs BY <1>0, OwnPlan
<1>2. ActorOK(w) BY DEF OInv
<1>3. UNCHANGED <<fence, lock, visible, saved>> BY DEF locks, files
<1>4. Targets(o)' = Targets(o) /\ SameGeneration(o)' = SameGeneration(o)
    BY DEF Targets, SameGeneration
<1>5. Types'
    <2>1. \A v \in Actors :
              /\ at'[v].pc \in Places /\ at'[v].op \in Ops \cup {v}
              /\ at'[v].left \subseteq Jobs /\ at'[v].back \subseteq Jobs
        BY <1>0, <1>1, AtTyped
    <2>2. TypeOK' BY <2>1, <1>3 DEF OInv, Types, TypeOK
    <2> QED BY <2>2, PlanTypes DEF OInv, Types
<1>6. ASSUME NEW v \in Actors PROVE ActorOK(v)'
    <2>1. CASE v # w
        <3>1. Respects(v) BY <2>1, <1>3 DEF Respects, Others
        <3> QED BY <3>1, Bystander
    <2>2. CASE v = w
        <3>1. Placed(w)' BY <1>0, <1>1, <1>2 DEF ActorOK, Placed, Working, Undoing, Actors
        <3>2. Held(w)'
            <4>1. lock'[o] = w /\ \A j \in Targets(o) : fence'[j] = w
                BY <1>0, <1>2, <1>3 DEF ActorOK, Held
            <4>2. at'[w].op = o BY <1>0
            <4>3. ~ Out(w)' /\ at'[w].pc # "fence" BY DEF Out
            <4> QED BY <1>4, <4>1, <4>2, <4>3 DEF Held
        <3>3. Stages(w)'
            <4>1. at'[w].op = o BY <1>0
            <4> QED BY <1>0, <1>4, <4>1 DEF Stages, Early
        <3> QED BY <2>2, <3>1, <3>2, <3>3 DEF ActorOK
    <2> QED BY <2>1, <2>2
<1>7. Manifest'
    <2>1. ASSUME NEW p \in Ops, at'[p].pc \in {"fence", "capture", "prepare"}
          PROVE  at[p].pc \in {"fence", "capture", "prepare"}
        BY <2>1, ActorsApart DEF Others
    <2> QED BY <2>1, <1>3 DEF OInv, Manifest, Targets, Original
<1>8. Disjoint' /\ Attempts' /\ NoStaleOutput' BY <1>3, FilesFramed
<1> QED BY <1>5, <1>6, <1>7, <1>8 DEF OInv

LEMMA PrivateTargets ==
    ASSUME OInv, NEW o \in Ops PROVE Private(o) \subseteq Targets(o) /\ Private(o) \in SUBSET Jobs
BY DEF OInv, Manifest, Private

LEMMA FaultBound ==
    ASSUME OInv, Fault \/ UNCHANGED faults, UNCHANGED scene PROVE faults' \in 0 .. scene'.faults
<1>1. faults \in 0 .. scene.faults /\ scene.faults \in Nat
    BY RestartAssumption DEF OInv, Types, TypeOK
<1> QED BY <1>1 DEF Fault

LEMMA ActorFacts ==
    ASSUME OInv, NEW w \in Actors
    PROVE  /\ ActorOK(w) /\ at \in [Actors -> Agents] /\ at[w] \in Agents
           /\ at[w].left \in SUBSET Jobs /\ at[w].back \in SUBSET Jobs
BY DEF OInv, Types, Agents

LEMMA UndoBegins ==
    ASSUME OInv, NEW o \in Ops, at[o].pc = "stage", Undo(o),
           UNCHANGED <<row, files, receipt, plan, locks, lease, crashes, scene>>,
           faults' \in 0 .. scene'.faults
    PROVE  OInv'
<1> DEFINE place == IF Restorable(o) THEN "restore" ELSE "release"
<1>1. o \in Actors /\ Working(o) BY ActorsApart DEF Working
<1>2. ActorOK(o) /\ at \in [Actors -> Agents] BY <1>1, ActorFacts
<1>3. at[o].op = o BY <1>2 DEF ActorOK, Placed
<1>4. Private(o) \subseteq Targets(o) /\ Private(o) \in SUBSET Jobs BY PrivateTargets
<1>5. Step(o, place, Private(o)) BY DEF Undo
<1>6. place \in Places /\ place \in {"restore", "release"} BY DEF Places
<1> HIDE DEF place
<1>7. /\ at' \in [Actors -> Agents] /\ Others(o)
      /\ at'[o].pc = place /\ at'[o].left = Private(o)
      /\ at'[o].op = at[o].op /\ at'[o].back = at[o].back
    BY <1>1, <1>2, <1>4, <1>5, <1>6, Moves
<1>8. receipt[o] = "prepared" /\ SameGeneration(o) /\ at[o].back = {}
    BY <1>2, <1>3 DEF ActorOK, Stages
<1> QED BY <1>1, <1>3, <1>4, <1>6, <1>7, <1>8, QuietMove

LEMMA CommitRefusedStep == ASSUME OInv, NEW o \in Ops, CommitRefused(o) PROVE OInv'
<1>1. faults' \in 0 .. scene'.faults BY FaultBound DEF CommitRefused
<1> QED BY <1>1, UndoBegins DEF CommitRefused

LEMMA StageFailsStep == ASSUME OInv, NEW o \in Ops, StageFails(o) PROVE OInv'
<1>1. faults' \in 0 .. scene'.faults BY FaultBound DEF StageFails
<1> QED BY <1>1, UndoBegins DEF StageFails

LEMMA RecoverCheckStep == ASSUME OInv, NEW r \in Recoverers, RecoverCheck(r) PROVE OInv'
<1>1. r \in Actors /\ Working(r) BY ActorsApart DEF Working, RecoverCheck
<1>2. ActorOK(r) /\ at \in [Actors -> Agents] BY <1>1, ActorFacts
<1>3. PICK o \in Ops : at[r].op = o BY <1>1, OwnPlan
<1>4. Private(o) \subseteq Targets(o) /\ Private(o) \in SUBSET Jobs BY PrivateTargets
<1> DEFINE place == CASE receipt[o] # at[r].seen -> "release"
                      [] receipt[o] = "prepared" /\ Unchanged(o) /\ Restorable(o) -> "restore"
                      [] receipt[o] = "prepared" /\ ~ (Unchanged(o) /\ Restorable(o)) -> "release"
                      [] OTHER -> "discard"
<1>5. Step(r, place, Private(o)) BY <1>3 DEF RecoverCheck
<1>6. receipt[o] # "none" BY <1>1, <1>3, OwnPlan, ActorsApart
<1>7. receipt[o] \in {"prepared", "committed", "aborted"} BY <1>6 DEF OInv, Types, TypeOK
<1>8. /\ place \in {"restore", "release", "discard"}
      /\ place = "restore" => receipt[o] = "prepared" /\ Unchanged(o)
      /\ place = "discard" => receipt[o] # "prepared"
    OBVIOUS
<1> HIDE DEF place
<1>9. /\ at' \in [Actors -> Agents] /\ Others(r)
      /\ at'[r].pc = place /\ at'[r].left = Private(o)
      /\ at'[r].op = at[r].op /\ at'[r].back = at[r].back
    <2>1. place \in Places BY <1>8 DEF Places
    <2> QED BY <1>1, <1>2, <1>4, <1>5, <2>1, Moves
<1>10. Unchanged(o) => SameGeneration(o)
    BY DEF Unchanged, SameGeneration
<1>11. at[r].back = {} BY <1>2 DEF ActorOK, Stages, RecoverCheck
<1>12. faults' \in 0 .. scene.faults BY FaultBound DEF RecoverCheck
<1>13. UNCHANGED <<row, files, receipt, plan, locks, lease, crashes, scene>> BY DEF RecoverCheck
<1> QED BY <1>1, <1>3, <1>4, <1>7, <1>8, <1>9, <1>10, <1>11, <1>12, <1>13, QuietMove

LEMMA RestoreFailsStep == ASSUME OInv, NEW w \in Actors, RestoreFails(w) PROVE OInv'
<1> USE DEF RestoreFails
<1>1. Working(w) BY DEF Working, Undoing
<1>2. ActorOK(w) /\ at \in [Actors -> Agents] /\ at[w] \in Agents BY ActorFacts
<1>3. Last(at[w].left) \in Jobs BY ActorFacts, LastIn
<1> DEFINE a == [at[w] EXCEPT !.left = @ \ {Last(at[w].left)}, !.broken = TRUE]
<1>4. a \in Agents /\ a.pc = "restore" /\ a.op = at[w].op /\ a.back = at[w].back
      /\ a.left = at[w].left \ {Last(at[w].left)}
    BY <1>2 DEF Agents
<1>5. at' = [at EXCEPT ![w] = a] OBVIOUS
<1> HIDE DEF a
<1>6. at' \in [Actors -> Agents] /\ Others(w) /\ at'[w] = a BY <1>2, <1>4, <1>5 DEF Others
<1>7. /\ receipt[at[w].op] = "prepared" /\ SameGeneration(at[w].op)
      /\ at[w].left \subseteq Targets(at[w].op) /\ at[w].back \subseteq Targets(at[w].op)
    BY <1>2 DEF ActorOK, Stages
<1>8. faults' \in 0 .. scene.faults BY FaultBound
<1>9. UNCHANGED <<row, files, receipt, plan, locks, lease, crashes, scene>> OBVIOUS
<1> QED BY <1>1, <1>4, <1>6, <1>7, <1>8, <1>9, QuietMove

LEMMA RestoreEndsStep == ASSUME OInv, NEW w \in Actors, RestoreEnds(w) PROVE OInv'
<1> USE DEF RestoreEnds
<1>1. Working(w) BY DEF Working, Undoing
<1>2. ActorOK(w) /\ at \in [Actors -> Agents] /\ at[w].back \in SUBSET Jobs BY ActorFacts
<1>3. PICK place \in {"rollback", "abort"}, left \in SUBSET Jobs :
          Step(w, place, left) /\ left \subseteq at[w].back
    BY <1>2 DEF AfterRestore
<1>4. /\ at' \in [Actors -> Agents] /\ Others(w)
      /\ at'[w].pc = place /\ at'[w].left = left
      /\ at'[w].op = at[w].op /\ at'[w].back = at[w].back
    <2>1. place \in Places BY DEF Places
    <2> QED BY <1>2, <1>3, <2>1, Moves
<1>5. receipt[at[w].op] = "prepared" /\ at[w].back \subseteq Targets(at[w].op)
    BY <1>2 DEF ActorOK, Stages
<1>6. faults' \in 0 .. scene.faults BY FaultBound
<1>7. UNCHANGED <<row, files, receipt, plan, locks, lease, crashes, scene>> OBVIOUS
<1> QED BY <1>1, <1>3, <1>4, <1>5, <1>6, <1>7, QuietMove

LEMMA RollbackFailsStep == ASSUME OInv, NEW w \in Actors, RollbackFails(w) PROVE OInv'
<1> USE DEF RollbackFails
<1>1. Working(w) BY DEF Working, Undoing
<1>2. ActorOK(w) /\ at \in [Actors -> Agents] /\ at[w].left \in SUBSET Jobs BY ActorFacts
<1>3. PICK left \in SUBSET Jobs : Step(w, "rollback", left) /\ left \subseteq at[w].left
    BY <1>2
<1>4. /\ at' \in [Actors -> Agents] /\ Others(w)
      /\ at'[w].pc = "rollback" /\ at'[w].left = left
      /\ at'[w].op = at[w].op /\ at'[w].back = at[w].back
    <2>1. "rollback" \in Places BY DEF Places
    <2> QED BY <1>2, <1>3, <2>1, Moves
<1>5. /\ receipt[at[w].op] = "prepared" /\ at[w].back \subseteq Targets(at[w].op)
      /\ at[w].left \subseteq Targets(at[w].op)
    BY <1>2 DEF ActorOK, Stages
<1>6. faults' \in 0 .. scene.faults BY FaultBound
<1>7. UNCHANGED <<row, files, receipt, plan, locks, lease, crashes, scene>> OBVIOUS
<1> QED BY <1>1, <1>3, <1>4, <1>5, <1>6, <1>7, QuietMove

(* RollbackEnds, DiscardEnds and DiscardFails go to the release. *)
LEMMA ToRelease ==
    ASSUME OInv, NEW w \in Actors, Working(w), Step(w, "release", {}),
           UNCHANGED <<row, files, receipt, plan, locks, lease, crashes, scene>>,
           faults' \in 0 .. scene'.faults
    PROVE  OInv'
<1>1. /\ at' \in [Actors -> Agents] /\ Others(w)
      /\ at'[w].pc = "release" /\ at'[w].left = {} /\ at'[w].op = at[w].op
    <2>1. "release" \in Places BY DEF Places
    <2> QED BY <2>1, ActorFacts, Moves
<1> QED BY <1>1, QuietMove

LEMMA RollbackEndsStep == ASSUME OInv, NEW w \in Actors, RollbackEnds(w) PROVE OInv'
BY FaultBound, ToRelease DEF RollbackEnds, Working, Undoing
LEMMA DiscardEndsStep == ASSUME OInv, NEW w \in Actors, DiscardEnds(w) PROVE OInv'
BY FaultBound, ToRelease DEF DiscardEnds, Working, Undoing
LEMMA DiscardFailsStep == ASSUME OInv, NEW w \in Actors, DiscardFails(w) PROVE OInv'
BY FaultBound, ToRelease DEF DiscardFails, Working, Undoing

(***************************************************************************)
(* One move of one output, either way: under the fence of its job.         *)
(***************************************************************************)
Relocates(o, j) ==
    \/ InPlace(o, j) /\ MoveAway(o, j)
    \/ Moved(o, j) /\ MoveBack(o, j) /\ row[j].gen = plan[o].pre[j].gen

(* Both files after it: together they hold what they held before. *)
LEMMA RelocatedFiles ==
    ASSUME OInv, NEW o \in Ops, NEW j \in Targets(o), Relocates(o, j), UNCHANGED plan
    PROVE  /\ j \in Jobs
           /\ visible' \in [Jobs -> Outputs] /\ saved' \in [Ops -> [Jobs -> Outputs]]
           /\ \A k \in Jobs \ {j} : visible'[k] = visible[k] /\ \A p \in Ops : saved'[p][k] = saved[p][k]
           /\ \A p \in Ops \ {o} : saved'[p] = saved[p]
           /\ visible'[j] = Original(o, j) \/ visible'[j] = NoOutput
           /\ saved'[o][j] = Original(o, j) \/ saved'[o][j] = NoOutput
           /\ visible'[j] = saved[o][j] /\ saved'[o][j] = visible[j]
           /\ visible[j] = NoOutput \/ saved[o][j] = NoOutput
<1>1. j \in Jobs BY DEF OInv, Types, PlanShape
<1>2. visible \in [Jobs -> Outputs] /\ saved \in [Ops -> [Jobs -> Outputs]] /\ NoOutput \in Outputs
    BY DEF OInv, Types, TypeOK, Outputs
<1>3. CASE InPlace(o, j) /\ MoveAway(o, j)
    <2>1. visible[j] = Original(o, j) /\ saved[o][j] = NoOutput BY <1>3 DEF InPlace
    <2>2. visible' = [visible EXCEPT ![j] = NoOutput] BY <1>3 DEF MoveAway
    <2>3. saved' = [saved EXCEPT ![o] = [saved[o] EXCEPT ![j] = visible[j]]] BY <1>3 DEF MoveAway
    <2>4. saved[o] \in [Jobs -> Outputs] BY <1>2
    <2>5. visible' \in [Jobs -> Outputs] /\ visible'[j] = NoOutput
          /\ \A k \in Jobs \ {j} : visible'[k] = visible[k]
        BY <1>1, <1>2, <2>2
    <2>6. saved' \in [Ops -> [Jobs -> Outputs]] /\ saved'[o] = [saved[o] EXCEPT ![j] = visible[j]]
          /\ \A p \in Ops \ {o} : saved'[p] = saved[p]
        BY <1>1, <1>2, <2>3
    <2>7. saved'[o][j] = visible[j] /\ \A k \in Jobs \ {j} : saved'[o][k] = saved[o][k]
        BY <1>1, <2>4, <2>6
    <2> QED BY <1>1, <2>1, <2>5, <2>6, <2>7
<1>4. CASE Moved(o, j) /\ MoveBack(o, j)
    <2>1. visible[j] = NoOutput /\ saved[o][j] = Original(o, j) BY <1>4 DEF Moved
    <2>2. visible' = [visible EXCEPT ![j] = saved[o][j]] BY <1>4 DEF MoveBack
    <2>3. saved' = [saved EXCEPT ![o] = [saved[o] EXCEPT ![j] = NoOutput]] BY <1>4 DEF MoveBack
    <2>4. saved[o] \in [Jobs -> Outputs] BY <1>2
    <2>5. visible' \in [Jobs -> Outputs] /\ visible'[j] = saved[o][j]
          /\ \A k \in Jobs \ {j} : visible'[k] = visible[k]
        BY <1>1, <1>2, <2>2, <2>4
    <2>6. saved' \in [Ops -> [Jobs -> Outputs]] /\ saved'[o] = [saved[o] EXCEPT ![j] = NoOutput]
          /\ \A p \in Ops \ {o} : saved'[p] = saved[p]
        BY <1>1, <1>2, <2>3
    <2>7. saved'[o][j] = NoOutput /\ \A k \in Jobs \ {j} : saved'[o][k] = saved[o][k]
        BY <1>1, <2>4, <2>6
    <2> QED BY <1>1, <2>1, <2>5, <2>6, <2>7
<1> QED BY <1>3, <1>4 DEF Relocates

LEMMA FileMove ==
    ASSUME OInv, NEW w \in Actors, NEW o \in Ops, at[w].op = o, NEW j \in Targets(o), Relocates(o, j),
           at[w].pc \in {"stage", "restore", "rollback"}, at'[w].pc = at[w].pc,
           at' \in [Actors -> Agents], Others(w), at'[w].op = o,
           at'[w].left \subseteq at[w].left, at'[w].back \subseteq at[w].back \cup {j},
           at[w].pc = "stage" => at'[w].back = {},
           UNCHANGED <<row, receipt, plan, locks, lease, crashes, faults, scene>>
    PROVE  OInv'
<1>1. UNCHANGED <<fence, lock>> BY DEF locks
<1>2. ActorOK(w) /\ Working(w) /\ Targets(o) \subseteq Jobs
    BY ActorFacts, OwnPlan DEF Working, Undoing
<1>3. receipt[o] = "prepared" BY <1>2 DEF ActorOK, Stages
<1>4. /\ j \in Jobs
      /\ visible' \in [Jobs -> Outputs] /\ saved' \in [Ops -> [Jobs -> Outputs]]
      /\ \A k \in Jobs \ {j} : visible'[k] = visible[k] /\ \A p \in Ops : saved'[p][k] = saved[p][k]
      /\ \A p \in Ops \ {o} : saved'[p] = saved[p]
      /\ visible'[j] = Original(o, j) \/ visible'[j] = NoOutput
      /\ saved'[o][j] = Original(o, j) \/ saved'[o][j] = NoOutput
      /\ visible'[j] = saved[o][j] /\ saved'[o][j] = visible[j]
      /\ visible[j] = NoOutput \/ saved[o][j] = NoOutput
    BY RelocatedFiles
<1>5. \A p \in Ops : Targets(p)' = Targets(p) /\ \A k \in Jobs : Original(p, k)' = Original(p, k)
    BY DEF Targets, Original
<1>6. Types'
    <2>1. \A v \in Actors :
              /\ at'[v].pc \in Places /\ at'[v].op \in Ops \cup {v}
              /\ at'[v].left \subseteq Jobs /\ at'[v].back \subseteq Jobs
        BY AtTyped
    <2>2. TypeOK' BY <2>1, <1>1, <1>4 DEF OInv, Types, TypeOK
    <2> QED BY <2>2, PlanTypes DEF OInv, Types
<1>7. ASSUME NEW v \in Actors PROVE ActorOK(v)'
    <2>1. CASE v # w
        <3>1. Respects(v) BY <2>1, <1>1 DEF Respects, Others
        <3> QED BY <3>1, Bystander
    <2>2. CASE v = w
        <3>1. Placed(w)' BY <1>2 DEF ActorOK, Placed, Undoing, Actors
        <3>2. Held(w)'
            <4>1. lock'[o] = w /\ \A k \in Targets(o) : fence'[k] = w
                BY <1>1, <1>2 DEF ActorOK, Held
            <4> QED BY <1>5, <4>1 DEF Held, Out
        <3>3. Stages(w)'
            <4>1. SameGeneration(o)' = SameGeneration(o) BY DEF SameGeneration, Targets
            <4>2. at[w].left \subseteq Targets(o)
                  /\ (at[w].pc \in {"restore", "rollback"} => at[w].back \subseteq Targets(o))
                BY <1>2 DEF ActorOK, Stages
            <4>3. at[w].pc = "stage" => \A k \in at'[w].left : Original(o, k)' # NoOutput
                BY <1>2, <1>5, <4>2 DEF ActorOK, Stages
            <4>4. at[w].pc \in {"stage", "restore"} => SameGeneration(o)
                BY <1>2 DEF ActorOK, Stages
            <4> QED BY <1>3, <1>5, <4>1, <4>2, <4>3, <4>4 DEF Stages, Early
        <3> QED BY <2>2, <3>1, <3>2, <3>3 DEF ActorOK
    <2> QED BY <2>1, <2>2
<1>8. Manifest'
    <2>1. ASSUME NEW p \in Ops, at'[p].pc \in {"fence", "capture", "prepare"}
          PROVE  at[p].pc \in {"fence", "capture", "prepare"}
        BY <2>1, ActorsApart DEF Others
    <2>2. ASSUME NEW p \in Ops, NEW k \in Jobs, saved'[p][k] # NoOutput
          PROVE  k \in Targets(p) /\ saved'[p][k] = Original(p, k) /\ receipt[p] \in {"prepared", "committed"}
        <3>1. CASE p = o /\ k = j BY <2>2, <3>1, <1>3, <1>4
        <3>2. CASE ~ (p = o /\ k = j)
            <4>1. saved'[p][k] = saved[p][k] BY <3>2, <1>4
            <4> QED BY <2>2, <4>1 DEF OInv, Manifest
        <3> QED BY <3>1, <3>2
    <2> QED BY <2>1, <2>2, GensKept, ManifestKept DEF OInv, Types, TypeOK
<1>9. Disjoint' BY <1>5 DEF OInv, Disjoint
<1>10. Attempts'
    <2>1. ASSUME NEW k \in Jobs, Kept(k) PROVE Kept(k)'
        <3>1. CASE k = j
            <4>1. row'[j] = row[j] /\ row[j].gen # NoOutput
                BY <1>4, RestartAssumption DEF OInv, Types, TypeOK, Rows, NoOutput
            <4>2. CASE visible[j] = row[j].gen BY <3>1, <4>1, <4>2, <1>4 DEF Kept
            <4>3. CASE saved[o][j] = row[j].gen BY <3>1, <4>1, <4>3, <1>4 DEF Kept
            <4>4. CASE \E p \in Ops \ {o} : saved[p][j] = row[j].gen
                BY <3>1, <4>1, <4>4, <1>4 DEF Kept
            <4> QED BY <2>1, <3>1, <4>2, <4>3, <4>4 DEF Kept
        <3>2. CASE k # j BY <2>1, <3>2, <1>4 DEF Kept
        <3> QED BY <3>1, <3>2
    <2>2. \A k \in Jobs : Owed(k)' <=> Owed(k) BY DEF Owed, Current
    <2> QED BY <2>1, <2>2, <1>1 DEF OInv, Attempts, Current, Targets
<1>11. NoStaleOutput'
    <2>1. visible'[j] \in {NoOutput, row[j].gen}
        <3>1. CASE InPlace(o, j) /\ MoveAway(o, j)
            BY <3>1, <1>4 DEF InPlace
        <3>2. CASE row[j].gen = plan[o].pre[j].gen
            BY <3>2, <1>4 DEF OInv, Manifest
        <3> QED BY <3>1, <3>2 DEF Relocates
    <2> QED BY <2>1, <1>4 DEF OInv, NoStaleOutput
<1> QED BY <1>6, <1>7, <1>8, <1>9, <1>10, <1>11 DEF OInv

LEMMA StageStep == ASSUME OInv, NEW o \in Ops, Stage(o) PROVE OInv'
<1> USE DEF Stage
<1>1. o \in Actors /\ ActorOK(o) /\ at \in [Actors -> Agents] /\ at[o].left \in SUBSET Jobs
    BY ActorsApart, ActorFacts
<1>2. at[o].op = o /\ at[o].left \subseteq Targets(o) /\ at[o].back = {}
    BY <1>1 DEF ActorOK, Placed, Stages
<1>3. PICK j : j = First(at[o].left) OBVIOUS
<1>4. j \in at[o].left BY <1>1, <1>3, FirstIn
<1>5. /\ at' \in [Actors -> Agents] /\ Others(o)
      /\ at'[o].pc = "stage" /\ at'[o].left = at[o].left \ {j}
      /\ at'[o].op = at[o].op /\ at'[o].back = at[o].back
    <2>1. "stage" \in Places BY DEF Places
    <2> QED BY <1>1, <1>3, <2>1, Moves
<1>6. Relocates(o, j) BY <1>3 DEF Relocates
<1> QED BY <1>1, <1>2, <1>4, <1>5, <1>6, FileMove

LEMMA RestoreStep == ASSUME OInv, NEW w \in Actors, Restore(w) PROVE OInv'
<1> USE DEF Restore
<1>1. ActorOK(w) /\ at \in [Actors -> Agents] /\ at[w] \in Agents /\ at[w].left \in SUBSET Jobs
    BY ActorFacts
<1>2. PICK o \in Ops : at[w].op = o BY OwnPlan DEF Working, Undoing
<1>3. PICK j : j = Last(at[w].left) OBVIOUS
<1>4. j \in at[w].left /\ j \in Jobs BY <1>1, <1>3, LastIn
<1>5. j \in Targets(o) /\ SameGeneration(o) BY <1>1, <1>2, <1>4 DEF ActorOK, Stages
<1> DEFINE a == [at[w] EXCEPT !.left = @ \ {j}, !.back = @ \cup {j}]
<1>6. a \in Agents /\ a.pc = "restore" /\ a.op = o /\ a.back = at[w].back \cup {j}
      /\ a.left = at[w].left \ {j}
    BY <1>1, <1>2, <1>4 DEF Agents
<1>7. at' = [at EXCEPT ![w] = a] BY <1>3
<1> HIDE DEF a
<1>8. at' \in [Actors -> Agents] /\ Others(w) /\ at'[w] = a BY <1>1, <1>6, <1>7 DEF Others
<1>9. Relocates(o, j) BY <1>2, <1>3, <1>5 DEF Relocates, SameGeneration
<1> QED BY <1>2, <1>4, <1>5, <1>6, <1>8, <1>9, FileMove

LEMMA RollbackStep == ASSUME OInv, NEW w \in Actors, Rollback(w) PROVE OInv'
<1> USE DEF Rollback
<1>1. ActorOK(w) /\ at \in [Actors -> Agents] /\ at[w].left \in SUBSET Jobs /\ Working(w)
    BY ActorFacts DEF Working, Undoing
<1>2. PICK o \in Ops : at[w].op = o BY <1>1, OwnPlan
<1>3. PICK j : j = First(at[w].left) OBVIOUS
<1>4. j \in at[w].left BY <1>1, <1>3, FirstIn
<1>5. /\ at[w].left \subseteq Targets(o) /\ at[w].back \subseteq Targets(o) /\ receipt[o] = "prepared"
    BY <1>1, <1>2 DEF ActorOK, Stages
<1>6. /\ at' \in [Actors -> Agents] /\ Others(w)
      /\ at'[w].pc = "rollback" /\ at'[w].left = at[w].left \ {j}
      /\ at'[w].op = at[w].op /\ at'[w].back = at[w].back
    <2>1. "rollback" \in Places BY DEF Places
    <2> QED BY <1>1, <1>3, <2>1, Moves
<1>7. CASE InPlace(o, j)
    <2>1. Relocates(o, j) BY <1>2, <1>3, <1>7 DEF Relocates
    <2> QED BY <2>1, <1>2, <1>4, <1>5, <1>6, FileMove
<1>8. CASE ~ InPlace(o, j)
    <2>1. UNCHANGED <<row, files, receipt, plan, locks, lease, crashes, scene>> BY <1>2, <1>3, <1>8
    <2>2. faults' \in 0 .. scene.faults BY FaultBound
    <2>3. at'[w].left \subseteq Targets(o) BY <1>5, <1>6
    <2> QED BY <2>1, <2>2, <2>3, <1>1, <1>2, <1>5, <1>6, QuietMove
<1> QED BY <1>7, <1>8

(* What is discarded is the output of a generation that a commit has left  *)
(* behind.                                                                 *)
LEMMA DiscardStep == ASSUME OInv, NEW w \in Actors, Discard(w) PROVE OInv'
<1> USE DEF Discard
<1>1. ActorOK(w) /\ at \in [Actors -> Agents] /\ at[w].left \in SUBSET Jobs /\ Working(w)
    BY ActorFacts DEF Working, Undoing
<1>2. PICK o \in Ops : at[w].op = o BY <1>1, OwnPlan
<1>3. PICK j : j = First(at[w].left) OBVIOUS
<1>4. j \in at[w].left /\ j \in Jobs BY <1>1, <1>3, FirstIn
<1>5. at[w].left \subseteq Targets(o) /\ receipt[o] \in {"committed", "aborted"}
    BY <1>1, <1>2 DEF ActorOK, Stages
<1>6. /\ at' \in [Actors -> Agents] /\ Others(w)
      /\ at'[w].pc = "discard" /\ at'[w].left = at[w].left \ {j} /\ at'[w].op = o
    <2>1. "discard" \in Places BY DEF Places
    <2> QED BY <1>1, <1>2, <1>3, <2>1, Moves
<1>7. UNCHANGED <<row, visible, receipt, plan, fence, lock, lease, crashes, faults, scene>>
    BY DEF locks
<1>8. /\ saved' \in [Ops -> [Jobs -> Outputs]]
      /\ \A p \in Ops, k \in Jobs : saved'[p][k] = IF p = o /\ k = j THEN NoOutput ELSE saved[p][k]
    <2>1. saved \in [Ops -> [Jobs -> Outputs]] /\ saved[o] \in [Jobs -> Outputs] /\ NoOutput \in Outputs
        BY DEF OInv, Types, TypeOK, Outputs
    <2>2. saved' = [saved EXCEPT ![o] = [saved[o] EXCEPT ![j] = NoOutput]] BY <1>2, <1>3
    <2>3. [saved[o] EXCEPT ![j] = NoOutput] \in [Jobs -> Outputs] BY <2>1
    <2>4. \A k \in Jobs : [saved[o] EXCEPT ![j] = NoOutput][k] = IF k = j THEN NoOutput ELSE saved[o][k]
        BY <2>1
    <2>5. saved'[o] = [saved[o] EXCEPT ![j] = NoOutput] /\ \A p \in Ops \ {o} : saved'[p] = saved[p]
        BY <2>1, <2>2
    <2>6. saved' \in [Ops -> [Jobs -> Outputs]] BY <2>1, <2>2, <2>3
    <2> QED BY <2>4, <2>5, <2>6
<1>9. Types'
    <2>1. \A v \in Actors :
              /\ at'[v].pc \in Places /\ at'[v].op \in Ops \cup {v}
              /\ at'[v].left \subseteq Jobs /\ at'[v].back \subseteq Jobs
        BY <1>6, AtTyped
    <2>2. TypeOK' BY <2>1, <1>7, <1>8 DEF OInv, Types, TypeOK
    <2> QED BY <2>2, <1>6, <1>7, PlanTypes DEF OInv, Types
<1>10. ASSUME NEW v \in Actors PROVE ActorOK(v)'
    <2>1. CASE v # w
        <3>1. Respects(v) BY <2>1, <1>6, <1>7 DEF Respects, Others
        <3> QED BY <3>1, Bystander
    <2>2. CASE v = w
        <3>1. Placed(w)' BY <1>1, <1>2, <1>6, <1>7 DEF ActorOK, Placed, Undoing, Actors
        <3>2. Held(w)'
            <4>1. lock'[o] = w /\ \A k \in Targets(o)' : fence'[k] = w
                BY <1>1, <1>2, <1>7 DEF ActorOK, Held, Targets
            <4> QED BY <1>6, <4>1 DEF Held, Out
        <3>3. Stages(w)'
            <4>1. at'[w].left \subseteq Targets(o)' /\ receipt'[o] \in {"committed", "aborted"}
                BY <1>5, <1>6, <1>7 DEF Targets
            <4> QED BY <1>6, <4>1 DEF Stages, Early
        <3> QED BY <2>2, <3>1, <3>2, <3>3 DEF ActorOK
    <2> QED BY <2>1, <2>2
<1>11. Manifest'
    <2>1. ASSUME NEW p \in Ops, at'[p].pc \in {"fence", "capture", "prepare"}
          PROVE  at[p].pc \in {"fence", "capture", "prepare"}
        BY <2>1, <1>6, ActorsApart DEF Others
    <2>2. ASSUME NEW p \in Ops, NEW k \in Jobs, saved'[p][k] # NoOutput
          PROVE  k \in Targets(p) /\ saved'[p][k] = Original(p, k) /\ receipt[p] \in {"prepared", "committed"}
        BY <2>2, <1>8 DEF OInv, Manifest
    <2> QED BY <2>1, <2>2, <1>7, GensKept, ManifestKept
<1>12. Disjoint' BY <1>7 DEF OInv, Disjoint, Targets
<1>13. Attempts'
    <2>1. saved[o][j] # row[j].gen
        <3>1. row[j].gen \in Nat BY <1>4, RestartAssumption DEF OInv, Types, TypeOK, Rows
        <3>2. SUFFICES ASSUME saved[o][j] = row[j].gen PROVE FALSE OBVIOUS
        <3>3. saved[o][j] # NoOutput BY <3>1, <3>2 DEF NoOutput
        <3>4. j \in Targets(o) /\ saved[o][j] = Original(o, j) /\ receipt[o] = "committed"
            BY <3>3, <1>4, <1>5 DEF OInv, Manifest
        <3>5. Original(o, j) = plan[o].pre[j].gen BY <3>3, <3>4 DEF OInv, Manifest
        <3>6. row[j].gen > plan[o].pre[j].gen BY <3>4 DEF OInv, Manifest
        <3> QED BY <3>1, <3>2, <3>4, <3>5, <3>6
    <2>2. \A k \in Jobs : Kept(k) => Kept(k)' BY <2>1, <1>7, <1>8 DEF Kept
    <2>3. \A k \in Jobs : Owed(k)' <=> Owed(k) BY <1>7 DEF Owed, Current
    <2> QED BY <2>2, <2>3, <1>7 DEF OInv, Attempts, Current, Targets
<1>14. NoStaleOutput' BY <1>7 DEF OInv, NoStaleOutput
<1> QED BY <1>9, <1>10, <1>11, <1>12, <1>13, <1>14 DEF OInv

(***************************************************************************)
(* The steps that write the receipt.                                       *)
(***************************************************************************)
LEMMA AbortStep == ASSUME OInv, NEW w \in Actors, Abort(w) PROVE OInv'
<1> USE DEF Abort
<1>1. ActorOK(w) /\ at \in [Actors -> Agents] /\ Working(w) BY ActorFacts DEF Working, Undoing
<1>2. PICK o \in Ops : at[w].op = o BY <1>1, OwnPlan
<1>3. Private(o) \subseteq Targets(o) /\ Private(o) \in SUBSET Jobs BY PrivateTargets
<1>4. CASE ~ MayAbort(o)
    <2>1. Step(w, "release", Private(o)) BY <1>2, <1>4
    <2>2. /\ at' \in [Actors -> Agents] /\ Others(w)
          /\ at'[w].pc = "release" /\ at'[w].left = Private(o) /\ at'[w].op = at[w].op
        <3>1. "release" \in Places BY DEF Places
        <3> QED BY <1>1, <1>3, <2>1, <3>1, Moves
    <2>3. UNCHANGED <<row, files, receipt, plan, locks, lease, crashes, scene>> BY <1>2, <1>4
    <2>4. faults' \in 0 .. scene.faults BY FaultBound
    <2> QED BY <1>1, <2>2, <2>3, <2>4, QuietMove
<1>5. CASE MayAbort(o)
    <2>1. Step(w, "discard", Private(o)) BY <1>2, <1>5
    <2>2. /\ at' \in [Actors -> Agents] /\ Others(w)
          /\ at'[w].pc = "discard" /\ at'[w].left = Private(o) /\ at'[w].op = o
        <3>1. "discard" \in Places BY DEF Places
        <3> QED BY <1>1, <1>2, <1>3, <2>1, <3>1, Moves
    <2>3. UNCHANGED <<row, visible, saved, plan, fence, lock, lease, crashes, faults, scene>>
        BY DEF files, locks
    <2>4. /\ receipt[o] = "prepared" /\ receipt' = [receipt EXCEPT ![o] = "aborted"]
          /\ receipt \in [Ops -> {"none", "prepared", "committed", "aborted"}]
        BY <1>2, <1>5 DEF MayAbort, OInv, Types, TypeOK
    <2>5. receipt'[o] = "aborted" /\ \A p \in Ops \ {o} : receipt'[p] = receipt[p] BY <2>4
    <2>6. \A k \in Jobs : saved[o][k] = NoOutput
        <3>1. Restored(o) BY <1>5 DEF MayAbort
        <3>2. \A k \in Targets(o) : saved[o][k] = NoOutput BY <3>1 DEF Restored, InPlace
        <3> QED BY <3>2 DEF OInv, Manifest
    <2>7. \A p \in Ops : Targets(p)' = Targets(p) BY <2>3 DEF Targets
    <2>8. Types'
        <3>1. \A v \in Actors :
                  /\ at'[v].pc \in Places /\ at'[v].op \in Ops \cup {v}
                  /\ at'[v].left \subseteq Jobs /\ at'[v].back \subseteq Jobs
            BY <2>2, AtTyped
        <3>2. receipt' \in [Ops -> {"none", "prepared", "committed", "aborted"}] BY <2>4
        <3>3. TypeOK' BY <3>1, <3>2, <2>3 DEF OInv, Types, TypeOK
        <3> QED BY <3>3, <2>2, <2>3, PlanTypes DEF OInv, Types
    <2>9. ASSUME NEW v \in Actors PROVE ActorOK(v)'
        <3>1. CASE v # w
            <4>1. lock[o] = w BY <1>1, <1>2 DEF ActorOK, Held
            <4>2. Respects(v) BY <3>1, <4>1, <2>2, <2>3, <2>4, <2>5 DEF Respects, Others
            <4> QED BY <4>2, Bystander
        <3>2. CASE v = w
            <4>1. Placed(w)' BY <1>1, <1>2, <2>2, <2>5 DEF ActorOK, Placed, Undoing, Actors
            <4>2. Held(w)'
                <5>1. lock'[o] = w /\ \A k \in Targets(o)' : fence'[k] = w
                    BY <1>1, <1>2, <2>3, <2>7 DEF ActorOK, Held
                <5> QED BY <2>2, <5>1 DEF Held, Out
            <4>3. Stages(w)'
                <5>1. at'[w].left \subseteq Targets(o)' /\ receipt'[o] = "aborted"
                    BY <1>3, <2>2, <2>5, <2>7
                <5> QED BY <2>2, <5>1 DEF Stages, Early
            <4> QED BY <3>2, <4>1, <4>2, <4>3 DEF ActorOK
        <3> QED BY <3>1, <3>2
    <2>10. Manifest'
        <3>1. ASSUME NEW p \in Ops, at'[p].pc \in {"fence", "capture", "prepare"}
              PROVE  at[p].pc \in {"fence", "capture", "prepare"}
            BY <3>1, <2>2, ActorsApart DEF Others
        <3>2. ASSUME NEW p \in Ops, NEW k \in Jobs, saved'[p][k] # NoOutput
              PROVE  /\ k \in Targets(p)' /\ saved'[p][k] = Original(p, k)'
                     /\ receipt'[p] \in {"prepared", "committed"}
            BY <3>2, <2>3, <2>5, <2>6, <2>7 DEF OInv, Manifest, Original
        <3>3. \A p \in Ops : \A k \in Targets(p)' :
                  plan'[p].pre[k].gen < MaxGeneration /\ Original(p, k)' \in {NoOutput, plan'[p].pre[k].gen}
            BY <2>3, <2>7 DEF OInv, Manifest, Original
        <3>4. \A p \in Ops : receipt'[p] = "committed" =>
                  \A k \in Targets(p)' : row'[k].gen > plan'[p].pre[k].gen
            BY <2>3, <2>5, <2>7 DEF OInv, Manifest
        <3>5. \A p \in Ops : receipt'[p] # "none" \/ at'[p].pc \in {"fence", "capture", "prepare"} =>
                  Targets(p)' # {}
            BY <3>1, <2>4, <2>5, <2>7 DEF OInv, Manifest
        <3> QED BY <3>2, <3>3, <3>4, <3>5 DEF Manifest
    <2>11. Disjoint' BY <2>5, <2>7 DEF OInv, Disjoint
    <2>12. Attempts'
        <3>1. \A k \in Jobs : Owed(k)' <=> Owed(k) BY <2>3 DEF Owed, Current
        <3>2. \A k \in Jobs : Kept(k)' <=> Kept(k) BY <2>3 DEF Kept
        <3> QED BY <3>1, <3>2, <2>3, <2>4, <2>5, <2>7 DEF OInv, Attempts, Current
    <2>13. NoStaleOutput' BY <2>3 DEF OInv, NoStaleOutput
    <2> QED BY <2>8, <2>9, <2>10, <2>11, <2>12, <2>13 DEF OInv
<1> QED BY <1>4, <1>5

LEMMA PrepareStep == ASSUME OInv, NEW o \in Ops, Prepare(o) PROVE OInv'
<1> USE DEF Prepare
<1>1. o \in Actors /\ ActorOK(o) /\ at \in [Actors -> Agents] /\ Working(o) /\ Targets(o) \in SUBSET Jobs
    BY ActorsApart, ActorFacts, OwnPlan DEF Working, OInv, Types, PlanShape
<1>2. at[o].op = o /\ receipt[o] = "none" /\ SameGeneration(o) /\ at[o].back = {}
    BY <1>1 DEF ActorOK, Placed, Stages, Early
<1>3. CASE ~ (Unchanged(o) /\ NoOverlap(o))
    <2>1. Step(o, "release", {}) /\ UNCHANGED <<row, files, receipt, plan, locks, lease, crashes, scene>>
        BY <1>3
    <2>2. faults' \in 0 .. scene'.faults BY FaultBound
    <2> QED BY <1>1, <2>1, <2>2, ToRelease
<1>4. CASE Unchanged(o) /\ NoOverlap(o)
    <2> DEFINE S == {j \in Targets(o) : Original(o, j) # NoOutput}
    <2>1. Step(o, "stage", S) BY <1>4
    <2>2. /\ at' \in [Actors -> Agents] /\ Others(o)
          /\ at'[o].pc = "stage" /\ at'[o].left = S /\ at'[o].op = o /\ at'[o].back = {}
        <3>1. "stage" \in Places /\ S \in SUBSET Jobs BY <1>1 DEF Places
        <3> QED BY <1>1, <1>2, <2>1, <3>1, Moves
    <2>3. UNCHANGED <<row, visible, saved, plan, fence, lock, lease, crashes, faults, scene>>
        BY DEF files, locks
    <2>4. /\ receipt' = [receipt EXCEPT ![o] = "prepared"]
          /\ receipt \in [Ops -> {"none", "prepared", "committed", "aborted"}]
        BY <1>4 DEF OInv, Types, TypeOK
    <2>5. receipt'[o] = "prepared" /\ \A p \in Ops \ {o} : receipt'[p] = receipt[p] BY <2>4
    <2>6. \A p \in Ops : Targets(p)' = Targets(p) BY <2>3 DEF Targets
    <2>7. \A k \in Targets(o) : fence[k] = o /\ fence[k] # Worker /\ k \in Jobs
        <3>1. o # Worker BY <1>1, RestartAssumption
        <3> QED BY <3>1, <1>1, <1>2 DEF ActorOK, Held
    <2>8. Types'
        <3>1. \A v \in Actors :
                  /\ at'[v].pc \in Places /\ at'[v].op \in Ops \cup {v}
                  /\ at'[v].left \subseteq Jobs /\ at'[v].back \subseteq Jobs
            BY <1>1, <2>2, AtTyped
        <3>2. receipt' \in [Ops -> {"none", "prepared", "committed", "aborted"}] BY <2>4
        <3>3. TypeOK' BY <3>1, <3>2, <2>3 DEF OInv, Types, TypeOK
        <3> QED BY <3>3, <2>2, <2>3, PlanTypes DEF OInv, Types
    <2>9. ASSUME NEW v \in Actors PROVE ActorOK(v)'
        <3>1. CASE v # o
            <4>1. lock[o] = o BY <1>1, <1>2 DEF ActorOK, Held
            <4>2. Respects(v) BY <3>1, <4>1, <2>2, <2>3, <2>4, <2>5 DEF Respects, Others
            <4> QED BY <4>2, Bystander
        <3>2. CASE v = o
            <4>1. Placed(o)' BY <2>2, ActorsApart DEF Placed
            <4>2. Held(o)'
                <5>1. lock'[o] = o /\ \A k \in Targets(o)' : fence'[k] = o
                    BY <1>1, <1>2, <2>3, <2>6 DEF ActorOK, Held
                <5> QED BY <2>2, <5>1 DEF Held, Out
            <4>3. Stages(o)'
                <5>1. at'[o].left \subseteq Targets(o)' /\ \A k \in at'[o].left : Original(o, k)' # NoOutput
                    BY <2>2, <2>3, <2>6 DEF Original
                <5>2. SameGeneration(o)' BY <1>2, <2>3, <2>6 DEF SameGeneration
                <5> QED BY <2>2, <2>5, <5>1, <5>2 DEF Stages, Early
            <4> QED BY <3>2, <4>1, <4>2, <4>3 DEF ActorOK
        <3> QED BY <3>1, <3>2
    <2>10. Manifest'
        <3>1. ASSUME NEW p \in Ops, at'[p].pc \in {"fence", "capture", "prepare"}
              PROVE  at[p].pc \in {"fence", "capture", "prepare"}
            BY <3>1, <2>2, ActorsApart DEF Others
        <3>2. ASSUME NEW p \in Ops, NEW k \in Jobs, saved'[p][k] # NoOutput
              PROVE  /\ k \in Targets(p)' /\ saved'[p][k] = Original(p, k)'
                     /\ receipt'[p] \in {"prepared", "committed"}
            BY <3>2, <2>3, <2>5, <2>6 DEF OInv, Manifest, Original
        <3>3. \A p \in Ops : \A k \in Targets(p)' :
                  plan'[p].pre[k].gen < MaxGeneration /\ Original(p, k)' \in {NoOutput, plan'[p].pre[k].gen}
            BY <2>3, <2>6 DEF OInv, Manifest, Original
        <3>4. \A p \in Ops : receipt'[p] = "committed" =>
                  \A k \in Targets(p)' : row'[k].gen > plan'[p].pre[k].gen
            BY <2>3, <2>5, <2>6 DEF OInv, Manifest
        <3>5. \A p \in Ops : receipt'[p] # "none" \/ at'[p].pc \in {"fence", "capture", "prepare"} =>
                  Targets(p)' # {}
            BY <3>1, <2>4, <2>5, <2>6 DEF OInv, Manifest
        <3> QED BY <3>2, <3>3, <3>4, <3>5 DEF Manifest
    <2>11. Disjoint' BY <1>4, <2>5, <2>6 DEF OInv, Disjoint, NoOverlap
    <2>12. Attempts'
        <3>1. \A k \in Jobs : Owed(k)' <=> Owed(k) BY <2>3 DEF Owed, Current
        <3>2. \A k \in Jobs : Kept(k)' <=> Kept(k) BY <2>3 DEF Kept
        <3>3. \A k \in Jobs : lease[k].pc = "guarded" => k \notin Targets(o)
            BY <2>7 DEF OInv, Attempts
        <3> QED BY <3>1, <3>2, <3>3, <2>3, <2>5, <2>6 DEF OInv, Attempts, Current
    <2>13. NoStaleOutput' BY <2>3 DEF OInv, NoStaleOutput
    <2> QED BY <2>8, <2>9, <2>10, <2>11, <2>12, <2>13 DEF OInv
<1> QED BY <1>3, <1>4

LEMMA CommitStep == ASSUME OInv, NEW o \in Ops, Commit(o) PROVE OInv'
<1> USE DEF Commit
<1>1. o \in Actors /\ ActorOK(o) /\ at \in [Actors -> Agents] /\ Working(o) /\ Targets(o) \in SUBSET Jobs
    BY ActorsApart, ActorFacts, OwnPlan DEF Working, OInv, Types, PlanShape
<1>2. at[o].op = o BY <1>1 DEF ActorOK, Placed
<1>3. receipt[o] = "prepared" /\ Staged(o) /\ Unchanged(o) BY DEF MayCommit
<1>4. Private(o) \subseteq Targets(o) /\ Private(o) \in SUBSET Jobs BY PrivateTargets
<1>5. /\ at' \in [Actors -> Agents] /\ Others(o)
      /\ at'[o].pc = "discard" /\ at'[o].left = Private(o) /\ at'[o].op = o
    <2>1. "discard" \in Places BY DEF Places
    <2> QED BY <1>1, <1>2, <1>4, <2>1, Moves
<1>6. UNCHANGED <<visible, saved, plan, fence, lock, lease, crashes, faults, scene>>
    BY DEF files, locks
<1>7. /\ receipt' = [receipt EXCEPT ![o] = "committed"]
      /\ receipt \in [Ops -> {"none", "prepared", "committed", "aborted"}]
    BY DEF OInv, Types, TypeOK
<1>8. receipt'[o] = "committed" /\ \A p \in Ops \ {o} : receipt'[p] = receipt[p] BY <1>7
<1>9. \A p \in Ops : Targets(p)' = Targets(p) /\ Targets(p) \subseteq Jobs
    BY <1>6 DEF Targets, OInv, Types, PlanShape
<1>10. \A k \in Jobs \ Targets(o) : row'[k] = row[k] OBVIOUS
<1>11. row \in [Jobs -> Rows] /\ \A k \in Jobs : row[k].gen \in Nat
    BY RestartAssumption DEF OInv, Types, TypeOK, Rows
<1>12. ASSUME NEW k \in Targets(o)
       PROVE  /\ row'[k].status = "queued" /\ row'[k].gen = row[k].gen + 1 /\ row'[k] \in Rows
              /\ row[k].gen = plan[o].pre[k].gen /\ visible[k] = NoOutput
    <2>1. k \in Jobs /\ row[k] = plan[o].pre[k] BY <1>1, <1>3 DEF Unchanged
    <2>2. PICK g : g = plan[o].pre[k].gen + 1 OBVIOUS
    <2>3. row'[k] = [status |-> "queued", gen |-> g] BY <2>1, <2>2
    <2>4. row'[k].status = "queued" /\ row'[k].gen = g BY <2>3
    <2>5. plan[o].pre[k].gen < MaxGeneration BY DEF OInv, Manifest
    <2>6. g \in 0 .. MaxGeneration BY <2>1, <2>2, <2>5, <1>11, RestartAssumption
    <2>7. row'[k] \in Rows BY <2>3, <2>6 DEF Rows
    <2>8. visible[k] = NoOutput BY <1>3 DEF Staged, Moved
    <2> QED BY <2>1, <2>2, <2>4, <2>7, <2>8
<1>12b. row' = [k \in Jobs |-> row'[k]] OBVIOUS
<1> HIDE DEF Commit
<1>13. row' \in [Jobs -> Rows]
    <2>1. \A k \in Jobs : row'[k] \in Rows BY <1>10, <1>11, <1>12
    <2> QED BY <2>1, <1>12b
<1>14. \A k \in Targets(o) : fence[k] = o /\ fence[k] # Worker /\ k \in Jobs
    <2>1. o # Worker BY <1>1, RestartAssumption
    <2> QED BY <2>1, <1>1, <1>2 DEF ActorOK, Held
<1>15. Types'
    <2>1. \A v \in Actors :
              /\ at'[v].pc \in Places /\ at'[v].op \in Ops \cup {v}
              /\ at'[v].left \subseteq Jobs /\ at'[v].back \subseteq Jobs
        BY <1>1, <1>5, AtTyped
    <2>2. receipt' \in [Ops -> {"none", "prepared", "committed", "aborted"}] BY <1>7
    <2>3. TypeOK' BY <2>1, <2>2, <1>6, <1>13 DEF OInv, Types, TypeOK
    <2> QED BY <2>3, <1>5, <1>6, PlanTypes DEF OInv, Types
<1>16. ASSUME NEW v \in Actors PROVE ActorOK(v)'
    <2>1. CASE v # o
        <3>1. lock[o] = o BY <1>1, <1>2 DEF ActorOK, Held
        <3>2. \A k \in Jobs : row'[k].gen = row[k].gen \/ fence[k] # v BY <2>1, <1>10, <1>14
        <3>3. Respects(v) BY <2>1, <3>1, <3>2, <1>3, <1>5, <1>6, <1>8 DEF Respects, Others
        <3> QED BY <3>3, Bystander
    <2>2. CASE v = o
        <3>1. Placed(o)' BY <1>5, ActorsApart DEF Placed
        <3>2. Held(o)'
            <4>1. lock'[o] = o /\ \A k \in Targets(o)' : fence'[k] = o
                BY <1>1, <1>2, <1>6, <1>9 DEF ActorOK, Held
            <4> QED BY <1>5, <4>1 DEF Held, Out
        <3>3. Stages(o)'
            <4>1. at'[o].left \subseteq Targets(o)' BY <1>4, <1>5, <1>9
            <4> QED BY <1>5, <1>8, <4>1 DEF Stages, Early
        <3> QED BY <2>2, <3>1, <3>2, <3>3 DEF ActorOK
    <2> QED BY <2>1, <2>2
<1>17. Manifest'
    <2>1. ASSUME NEW p \in Ops, at'[p].pc \in {"fence", "capture", "prepare"}
          PROVE  at[p].pc \in {"fence", "capture", "prepare"}
        BY <2>1, <1>5, ActorsApart DEF Others
    <2>2. ASSUME NEW p \in Ops, NEW k \in Jobs, saved'[p][k] # NoOutput
          PROVE  /\ k \in Targets(p)' /\ saved'[p][k] = Original(p, k)'
                 /\ receipt'[p] \in {"prepared", "committed"}
        BY <2>2, <1>6, <1>8, <1>9 DEF OInv, Manifest, Original
    <2>3. \A p \in Ops : \A k \in Targets(p)' :
              plan'[p].pre[k].gen < MaxGeneration /\ Original(p, k)' \in {NoOutput, plan'[p].pre[k].gen}
        BY <1>6, <1>9 DEF OInv, Manifest, Original
    <2>4. ASSUME NEW p \in Ops, receipt'[p] = "committed", NEW k \in Targets(p)'
          PROVE  row'[k].gen > plan'[p].pre[k].gen
        <3>1. k \in Targets(p) /\ k \in Jobs /\ plan'[p] = plan[p] BY <1>6, <1>9
        <3>2. plan[p].pre[k].gen \in Nat
            <4>1. plan[p].pre[k] \in Rows BY <3>1 DEF OInv, Types, PlanShape
            <4> QED BY <4>1, RestartAssumption DEF Rows
        <3>3. row'[k].gen >= row[k].gen /\ row'[k].gen \in Nat
            <4>1. CASE k \in Targets(o)
                <5>1. row'[k].gen = row[k].gen + 1 BY <4>1, <1>12
                <5>2. row[k].gen \in Nat BY <3>1, <1>11
                <5> QED BY <5>1, <5>2
            <4>2. CASE k \notin Targets(o) BY <4>2, <3>1, <1>11, <1>10
            <4> QED BY <4>1, <4>2
        <3>4. CASE p = o
            <4>1. row'[k].gen = row[k].gen + 1 /\ row[k].gen = plan[p].pre[k].gen BY <3>1, <3>4, <1>12
            <4> QED BY <3>1, <3>2, <4>1
        <3>5. CASE p # o
            <4>1. row[k].gen > plan[p].pre[k].gen BY <2>4, <3>1, <3>5, <1>8 DEF OInv, Manifest
            <4> QED BY <3>1, <3>2, <3>3, <4>1, <1>11
        <3> QED BY <3>4, <3>5
    <2>5. \A p \in Ops : receipt'[p] # "none" \/ at'[p].pc \in {"fence", "capture", "prepare"} =>
              Targets(p)' # {}
        BY <2>1, <1>3, <1>8, <1>9 DEF OInv, Manifest
    <2> QED BY <2>2, <2>3, <2>4, <2>5 DEF Manifest
<1>18. Disjoint' BY <1>8, <1>9 DEF OInv, Disjoint
<1>19. Attempts'
    <2>1. ASSUME NEW k \in Jobs, Owed(k)' PROVE Kept(k)'
        <3>1. k \notin Targets(o)
            BY <2>1, <1>12 DEF Owed, Current, Terminal
        <3>2. row'[k] = row[k] BY <3>1, <1>10
        <3>3. Owed(k) BY <2>1, <3>2, <1>6 DEF Owed, Current
        <3>4. Kept(k) BY <3>3 DEF OInv, Attempts
        <3> QED BY <3>2, <3>4, <1>6 DEF Kept
    <2>2. ASSUME NEW k \in Jobs, lease[k].pc = "guarded" PROVE row'[k] = row[k]
        BY <2>2, <1>10, <1>14 DEF OInv, Attempts
    <2>3. \A p \in Ops : receipt'[p] = "prepared" => receipt[p] = "prepared" BY <1>8
    <2> QED BY <2>1, <2>2, <2>3, <1>6, <1>9 DEF OInv, Attempts, Current
<1>20. NoStaleOutput' BY <1>6, <1>10, <1>12 DEF OInv, NoStaleOutput
<1> QED BY <1>15, <1>16, <1>17, <1>18, <1>19, <1>20 DEF OInv

(***************************************************************************)
(* The steps that write the plan.                                          *)
(***************************************************************************)
LEMMA PlanFrame ==
    ASSUME OInv, NEW o \in Ops, NEW new, plan' = [plan EXCEPT ![o] = new],
           new = [targets |-> new.targets, pre |-> new.pre, original |-> new.original],
           new.targets \in SUBSET Jobs, new.targets # {},
           new.pre \in [new.targets -> Rows], new.original \in [new.targets -> Outputs]
    PROVE  /\ plan' = [p \in Ops |-> plan'[p]] /\ \A p \in Ops : PlanShape(p)'
           /\ plan'[o] = new /\ \A p \in Ops \ {o} : plan'[p] = plan[p]
           /\ \A p \in Ops : plan'[p] = NoPlan \/
                /\ plan'[p].targets \subseteq Jobs
                /\ plan'[p].pre \in [plan'[p].targets -> Rows]
                /\ plan'[p].original \in [plan'[p].targets -> Outputs]
<1>1. plan = [p \in Ops |-> plan[p]] BY DEF OInv, Types
<1>2. plan'[o] = new /\ \A p \in Ops \ {o} : plan'[p] = plan[p] BY <1>1
<1>3. plan' = [p \in Ops |-> plan'[p]] BY <1>1
<1>4. PlanShape(o)' BY <1>2 DEF PlanShape, Targets
<1>5. \A p \in Ops \ {o} : PlanShape(p)' BY <1>2 DEF OInv, Types, PlanShape, Targets
<1>6. \A p \in Ops \ {o} : plan[p] = NoPlan \/
                /\ plan[p].targets \subseteq Jobs
                /\ plan[p].pre \in [plan[p].targets -> Rows]
                /\ plan[p].original \in [plan[p].targets -> Outputs]
    BY DEF OInv, Types, TypeOK
<1> QED BY <1>2, <1>3, <1>4, <1>5, <1>6

LEMMA BeginStep == ASSUME OInv, NEW o \in Ops, NEW T \in SUBSET Jobs, Begin(o, T) PROVE OInv'
<1> USE DEF Begin
<1>1. o \in Actors /\ ActorOK(o) /\ at \in [Actors -> Agents] BY ActorsApart, ActorFacts
<1>2. at[o].op = o /\ receipt[o] = "none" /\ at[o].back = {} /\ \A k \in Jobs : fence[k] # o
    BY <1>1 DEF ActorOK, Placed, Held, Stages, Early, Out
<1>3. PICK new : new = [targets |-> T, pre |-> [k \in T |-> row[k]], original |-> [k \in T |-> NoOutput]]
    OBVIOUS
<1>4. new.targets = T /\ new.pre = [k \in T |-> row[k]] /\ new.original = [k \in T |-> NoOutput]
    BY <1>3
<1>5. T # {} /\ \A k \in T : row[k].gen < MaxGeneration BY DEF Eligible
<1>6. /\ plan' = [p \in Ops |-> plan'[p]] /\ \A p \in Ops : PlanShape(p)'
      /\ plan'[o] = new /\ \A p \in Ops \ {o} : plan'[p] = plan[p]
      /\ \A p \in Ops : plan'[p] = NoPlan \/
            /\ plan'[p].targets \subseteq Jobs
            /\ plan'[p].pre \in [plan'[p].targets -> Rows]
            /\ plan'[p].original \in [plan'[p].targets -> Outputs]
    <2>1. plan' = [plan EXCEPT ![o] = new] BY <1>3
    <2>2. new = [targets |-> new.targets, pre |-> new.pre, original |-> new.original] BY <1>3, <1>4
    <2>3. new.pre \in [new.targets -> Rows] BY <1>4 DEF OInv, Types, TypeOK
    <2>4. new.original \in [new.targets -> Outputs] BY <1>4 DEF Outputs
    <2> QED BY <1>4, <1>5, <2>1, <2>2, <2>3, <2>4, PlanFrame
<1>7. /\ at' \in [Actors -> Agents] /\ Others(o)
      /\ at'[o].pc = "fence" /\ at'[o].left = T /\ at'[o].op = o /\ at'[o].back = {}
    <2>1. "fence" \in Places BY DEF Places
    <2> QED BY <1>1, <1>2, <2>1, Moves
<1>8. UNCHANGED <<row, visible, saved, receipt, fence, lease, crashes, faults, scene>>
    BY DEF files
<1>9. /\ lock' \in [Ops -> Actors \cup {Nobody}] /\ lock'[o] = o
      /\ \A p \in Ops \ {o} : lock'[p] = lock[p]
    BY <1>1 DEF OInv, Types, TypeOK
<1>10. \A p \in Ops \ {o} : Targets(p)' = Targets(p) BY <1>6 DEF Targets
<1>11. Targets(o)' = T BY <1>4, <1>6 DEF Targets
<1> HIDE DEF Begin
<1>12. Types'
    <2>1. \A v \in Actors :
              /\ at'[v].pc \in Places /\ at'[v].op \in Ops \cup {v}
              /\ at'[v].left \subseteq Jobs /\ at'[v].back \subseteq Jobs
        BY <1>1, <1>7, AtTyped
    <2>2. TypeOK' BY <2>1, <1>6, <1>8, <1>9 DEF OInv, Types, TypeOK
    <2> QED BY <2>2, <1>6, <1>7 DEF Types
<1>13. ASSUME NEW v \in Actors PROVE ActorOK(v)'
    <2>1. CASE v # o
        <3>1. Respects(v) BY <2>1, <1>2, <1>6, <1>7, <1>8, <1>9 DEF Respects, Others
        <3> QED BY <3>1, Bystander
    <2>2. CASE v = o
        <3>1. Placed(o)' BY <1>7, ActorsApart DEF Placed
        <3>2. Held(o)' BY <1>2, <1>7, <1>8, <1>9, <1>11 DEF Held, Out, Working, Undoing
        <3>3. Stages(o)' BY <1>2, <1>7, <1>8 DEF Stages
        <3> QED BY <2>2, <3>1, <3>2, <3>3 DEF ActorOK
    <2> QED BY <2>1, <2>2
<1>14. Manifest'
    <2>1. ASSUME NEW p \in Ops, NEW k \in Jobs, saved'[p][k] # NoOutput
          PROVE  /\ k \in Targets(p)' /\ saved'[p][k] = Original(p, k)'
                 /\ receipt'[p] \in {"prepared", "committed"}
        <3>1. p # o BY <2>1, <1>2, <1>8 DEF OInv, Manifest
        <3> QED BY <2>1, <3>1, <1>6, <1>8, <1>10 DEF OInv, Manifest, Original
    <2>2. \A k \in T : plan'[o].pre[k].gen < MaxGeneration /\ Original(o, k)' = NoOutput
        BY <1>4, <1>5, <1>6 DEF Original
    <2>3. \A p \in Ops \ {o} : \A k \in Targets(p) :
              plan[p].pre[k].gen < MaxGeneration /\ Original(p, k) \in {NoOutput, plan[p].pre[k].gen}
        BY DEF OInv, Manifest
    <2>4. \A p \in Ops : \A k \in Targets(p)' :
              plan'[p].pre[k].gen < MaxGeneration /\ Original(p, k)' \in {NoOutput, plan'[p].pre[k].gen}
        BY <2>2, <2>3, <1>6, <1>10, <1>11 DEF Original
    <2>5. \A p \in Ops : receipt'[p] = "committed" =>
              \A k \in Targets(p)' : row'[k].gen > plan'[p].pre[k].gen
        BY <1>2, <1>6, <1>8, <1>10 DEF OInv, Manifest
    <2>6. ASSUME NEW p \in Ops, receipt'[p] # "none" \/ at'[p].pc \in {"fence", "capture", "prepare"}
          PROVE  Targets(p)' # {}
        <3>1. CASE p = o BY <3>1, <1>5, <1>11
        <3>2. CASE p # o BY <2>6, <3>2, <1>7, <1>8, <1>10, ActorsApart DEF OInv, Manifest, Others
        <3> QED BY <3>1, <3>2
    <2> QED BY <2>1, <2>4, <2>5, <2>6 DEF Manifest
<1>15. Disjoint' BY <1>2, <1>8, <1>10 DEF OInv, Disjoint
<1>16. Attempts'
    <2>1. \A k \in Jobs : Owed(k)' <=> Owed(k) BY <1>8 DEF Owed, Current
    <2>2. \A k \in Jobs : Kept(k)' <=> Kept(k) BY <1>8 DEF Kept
    <2> QED BY <2>1, <2>2, <1>2, <1>8, <1>10 DEF OInv, Attempts, Current
<1>17. NoStaleOutput' BY <1>8 DEF OInv, NoStaleOutput
<1> QED BY <1>12, <1>13, <1>14, <1>15, <1>16, <1>17 DEF OInv

LEMMA CaptureStep == ASSUME OInv, NEW o \in Ops, Capture(o) PROVE OInv'
<1> USE DEF Capture
<1>1. o \in Actors /\ ActorOK(o) /\ at \in [Actors -> Agents] /\ Working(o) /\ Targets(o) \in SUBSET Jobs
    BY ActorsApart, ActorFacts, OwnPlan DEF Working, OInv, Types, PlanShape
<1>2. at[o].op = o /\ receipt[o] = "none" /\ at[o].back = {}
    BY <1>1 DEF ActorOK, Placed, Stages, Early
<1>3. CASE ~ Unchanged(o)
    <2>1. Step(o, "release", {}) /\ UNCHANGED <<row, files, receipt, plan, locks, lease, crashes, scene>>
        BY <1>3
    <2>2. faults' \in 0 .. scene'.faults BY FaultBound
    <2> QED BY <1>1, <2>1, <2>2, ToRelease
<1>4. CASE Unchanged(o)
    <2>1. PICK new : new = [targets |-> Targets(o), pre |-> plan[o].pre,
                            original |-> [k \in Targets(o) |-> visible[k]]]
        OBVIOUS
    <2>2. /\ new.targets = Targets(o) /\ new.pre = plan[o].pre
          /\ new.original = [k \in Targets(o) |-> visible[k]]
        BY <2>1
    <2>3. plan' = [plan EXCEPT ![o] = new]
        <3>1. plan' = [plan EXCEPT ![o] = [plan[o] EXCEPT !.original = [k \in Targets(o) |-> visible[k]]]]
            BY <1>4
        <3>2. plan[o] = [targets |-> Targets(o), pre |-> plan[o].pre, original |-> plan[o].original]
            BY DEF OInv, Types, PlanShape
        <3>3. [plan[o] EXCEPT !.original = [k \in Targets(o) |-> visible[k]]] = new
            BY <3>2, <2>1
        <3> QED BY <3>1, <3>3
    <2>4. Targets(o) # {} BY DEF OInv, Manifest
    <2>5. /\ plan' = [p \in Ops |-> plan'[p]] /\ \A p \in Ops : PlanShape(p)'
          /\ plan'[o] = new /\ \A p \in Ops \ {o} : plan'[p] = plan[p]
          /\ \A p \in Ops : plan'[p] = NoPlan \/
                /\ plan'[p].targets \subseteq Jobs
                /\ plan'[p].pre \in [plan'[p].targets -> Rows]
                /\ plan'[p].original \in [plan'[p].targets -> Outputs]
        <3>1. new = [targets |-> new.targets, pre |-> new.pre, original |-> new.original] BY <2>1, <2>2
        <3>2. new.pre \in [new.targets -> Rows] BY <2>2, <2>4 DEF OInv, Types, PlanShape
        <3>3. new.original \in [new.targets -> Outputs] BY <1>1, <2>2 DEF OInv, Types, TypeOK
        <3> QED BY <1>1, <2>2, <2>3, <2>4, <3>1, <3>2, <3>3, PlanFrame
    <2>6. /\ at' \in [Actors -> Agents] /\ Others(o)
          /\ at'[o].pc = "prepare" /\ at'[o].left = {} /\ at'[o].op = o /\ at'[o].back = {}
        <3>1. "prepare" \in Places /\ Step(o, "prepare", {}) BY <1>4 DEF Places
        <3> QED BY <1>1, <1>2, <3>1, Moves
    <2>7. UNCHANGED <<row, visible, saved, receipt, fence, lock, lease, crashes, faults, scene>>
        BY DEF files, locks
    <2>8. \A p \in Ops : Targets(p)' = Targets(p) /\ plan'[p].pre = plan[p].pre
        BY <2>2, <2>5 DEF Targets
    <2> HIDE DEF Capture
    <2>9. Types'
        <3>1. \A v \in Actors :
                  /\ at'[v].pc \in Places /\ at'[v].op \in Ops \cup {v}
                  /\ at'[v].left \subseteq Jobs /\ at'[v].back \subseteq Jobs
            BY <1>1, <2>6, AtTyped
        <3>2. TypeOK' BY <3>1, <2>5, <2>7 DEF OInv, Types, TypeOK
        <3> QED BY <3>2, <2>5, <2>6 DEF Types
    <2>10. ASSUME NEW v \in Actors PROVE ActorOK(v)'
        <3>1. CASE v # o
            <4>1. Respects(v) BY <3>1, <1>2, <2>5, <2>6, <2>7 DEF Respects, Others
            <4> QED BY <4>1, Bystander
        <3>2. CASE v = o
            <4>1. Placed(o)' BY <2>6, ActorsApart DEF Placed
            <4>2. Held(o)'
                <5>1. lock'[o] = o /\ \A k \in Targets(o)' : fence'[k] = o
                    BY <1>1, <1>2, <2>7, <2>8 DEF ActorOK, Held
                <5> QED BY <2>6, <5>1 DEF Held, Out
            <4>3. Stages(o)'
                <5>1. SameGeneration(o)' BY <1>4, <2>7, <2>8 DEF SameGeneration, Unchanged
                <5> QED BY <1>2, <2>6, <2>7, <5>1 DEF Stages
            <4> QED BY <3>2, <4>1, <4>2, <4>3 DEF ActorOK
        <3> QED BY <3>1, <3>2
    <2>11. Manifest'
        <3>1. ASSUME NEW p \in Ops, NEW k \in Jobs, saved'[p][k] # NoOutput
              PROVE  /\ k \in Targets(p)' /\ saved'[p][k] = Original(p, k)'
                     /\ receipt'[p] \in {"prepared", "committed"}
            <4>1. p # o BY <3>1, <1>2, <2>7 DEF OInv, Manifest
            <4> QED BY <3>1, <4>1, <2>5, <2>7, <2>8 DEF OInv, Manifest, Original
        <3>2. \A k \in Targets(o) : Original(o, k)' \in {NoOutput, plan[o].pre[k].gen}
            BY <1>1, <1>4, <2>2, <2>5 DEF Original, Unchanged, OInv, NoStaleOutput
        <3>3. \A p \in Ops \ {o} : \A k \in Targets(p) : Original(p, k)' \in {NoOutput, plan[p].pre[k].gen}
            BY <2>5 DEF OInv, Manifest, Original
        <3>4. \A p \in Ops : \A k \in Targets(p) : plan[p].pre[k].gen < MaxGeneration
            BY DEF OInv, Manifest
        <3>5. \A p \in Ops : receipt'[p] = "committed" =>
                  \A k \in Targets(p)' : row'[k].gen > plan'[p].pre[k].gen
            BY <2>7, <2>8 DEF OInv, Manifest
        <3>6. \A p \in Ops : receipt'[p] # "none" \/ at'[p].pc \in {"fence", "capture", "prepare"} =>
                  Targets(p)' # {}
            BY <2>4, <2>6, <2>7, <2>8, ActorsApart DEF OInv, Manifest, Others
        <3> QED BY <3>1, <3>2, <3>3, <3>4, <3>5, <3>6, <2>8 DEF Manifest
    <2>12. Disjoint' BY <2>7, <2>8 DEF OInv, Disjoint
    <2>13. Attempts'
        <3>1. \A k \in Jobs : Owed(k)' <=> Owed(k) BY <2>7 DEF Owed, Current
        <3>2. \A k \in Jobs : Kept(k)' <=> Kept(k) BY <2>7 DEF Kept
        <3> QED BY <3>1, <3>2, <2>7, <2>8 DEF OInv, Attempts, Current
    <2>14. NoStaleOutput' BY <2>7 DEF OInv, NoStaleOutput
    <2> QED BY <2>9, <2>10, <2>11, <2>12, <2>13, <2>14 DEF OInv
<1> QED BY <1>3, <1>4

(***************************************************************************)
(* The steps that take and leave locks.                                    *)
(***************************************************************************)
LEMMA LockMove ==
    ASSUME OInv, NEW w \in Actors, at' \in [Actors -> Agents], Others(w), at'[w].op \in Ops \cup {w},
           UNCHANGED <<row, visible, saved, receipt, plan, lease, faults, scene>>,
           crashes' \in 0 .. scene.crashes,
           fence' \in [Jobs -> Actors \cup {Nobody, Worker}], lock' \in [Ops -> Actors \cup {Nobody}],
           \A j \in Jobs : \A v \in (Actors \cup {Worker}) \ {w} : fence'[j] = v <=> fence[j] = v,
           \A o \in Ops : \A v \in Actors \ {w} : lock[o] = v => lock'[o] = v,
           at'[w].pc \in {"fence", "capture", "prepare"} => at[w].pc \in {"fence", "capture", "prepare"},
           ActorOK(w)'
    PROVE  OInv'
<1>1. Types'
    <2>1. \A v \in Actors :
              /\ at'[v].pc \in Places /\ at'[v].op \in Ops \cup {v}
              /\ at'[v].left \subseteq Jobs /\ at'[v].back \subseteq Jobs
        BY AtTyped
    <2>2. TypeOK' BY <2>1 DEF OInv, Types, TypeOK
    <2> QED BY <2>2, PlanTypes DEF OInv, Types
<1>2. ASSUME NEW v \in Actors PROVE ActorOK(v)'
    <2>1. CASE v # w
        <3>1. Respects(v) BY <2>1 DEF Respects, Others
        <3> QED BY <3>1, Bystander
    <2> QED BY <2>1
<1>3. Manifest'
    <2>1. ASSUME NEW p \in Ops, at'[p].pc \in {"fence", "capture", "prepare"}
          PROVE  at[p].pc \in {"fence", "capture", "prepare"}
        BY <2>1, ActorsApart DEF Others
    <2>2. ASSUME NEW p \in Ops, NEW k \in Jobs, saved'[p][k] # NoOutput
          PROVE  k \in Targets(p) /\ saved'[p][k] = Original(p, k) /\ receipt[p] \in {"prepared", "committed"}
        BY <2>2 DEF OInv, Manifest
    <2> QED BY <2>1, <2>2, GensKept, ManifestKept
<1>4. \A j \in Jobs : fence[j] = Worker => fence'[j] = Worker
    <2>1. Worker \notin Actors BY RestartAssumption
    <2> QED BY <2>1
<1>5. Disjoint' /\ Attempts' /\ NoStaleOutput' BY <1>4, FilesFramed DEF files
<1> QED BY <1>1, <1>2, <1>3, <1>5 DEF OInv

LEMMA LockTypes ==
    ASSUME OInv
    PROVE  /\ fence \in [Jobs -> Actors \cup {Nobody, Worker}] /\ lock \in [Ops -> Actors \cup {Nobody}]
           /\ Nobody \notin Actors /\ Worker \notin Actors /\ Nobody # Worker
           /\ crashes \in 0 .. scene.crashes /\ scene.crashes \in Nat
BY RestartAssumption DEF OInv, Types, TypeOK

LEMMA TakeFenceStep == ASSUME OInv, NEW o \in Ops, TakeFence(o) PROVE OInv'
<1>1. o \in Actors /\ ActorOK(o) /\ at \in [Actors -> Agents] /\ at[o].left \in SUBSET Jobs
    BY ActorsApart, ActorFacts
<1>2. PICK S \in SUBSET Jobs : S = at[o].left BY <1>1
<1>3. PICK j : j = NextFence(o, S) OBVIOUS
<1>4. at[o].pc = "fence" /\ S # {} /\ fence[j] = Nobody /\ fence' = [fence EXCEPT ![j] = o]
    BY <1>2, <1>3 DEF TakeFence
<1>5. j \in S /\ j \in Jobs /\ \A k \in S : j <= k BY <1>3, <1>4, FirstIn DEF NextFence
<1>6. PICK place \in {"capture", "fence"} :
          Step(o, place, S \ {j}) /\ (place = "capture" <=> S = {j})
    BY <1>2, <1>3 DEF TakeFence
<1>7. at[o].op = o /\ receipt[o] = "none" /\ at[o].back = {}
    BY <1>1, <1>4 DEF ActorOK, Placed, Stages, Early
<1>8. /\ at' \in [Actors -> Agents] /\ Others(o)
      /\ at'[o].pc = place /\ at'[o].left = S \ {j} /\ at'[o].op = o /\ at'[o].back = {}
    <2>1. place \in Places /\ S \ {j} \in SUBSET Jobs BY DEF Places
    <2> QED BY <1>1, <1>6, <1>7, <2>1, Moves
<1>9. UNCHANGED <<row, visible, saved, receipt, plan, lock, lease, crashes, faults, scene>>
    BY DEF TakeFence, files
<1>10. /\ fence \in [Jobs -> Actors \cup {Nobody, Worker}]
       /\ Nobody \notin Actors /\ Nobody # Worker
    BY LockTypes
<1>11. fence'[j] = o /\ \A k \in Jobs \ {j} : fence'[k] = fence[k] BY <1>4, <1>5, <1>10
<1>12. Targets(o)' = Targets(o) /\ Targets(o) \subseteq Jobs
    BY <1>9 DEF Targets, OInv, Types, PlanShape
<1>13. /\ lock'[o] = o /\ S \subseteq Targets(o)
       /\ \A k \in Jobs : fence[k] = o <=> k \in Targets(o) \ S
       /\ \A k \in Targets(o) \ S, l \in S : k < l
    BY <1>1, <1>2, <1>4, <1>9 DEF ActorOK, Held
<1>14. ActorOK(o)'
    <2>1. Placed(o)' BY <1>8, ActorsApart DEF Placed
    <2>2. \A k \in Jobs : fence'[k] = o <=> k \in Targets(o) \ (S \ {j})
        BY <1>5, <1>11, <1>13
    <2>3. CASE place = "capture"
        <3>1. \A k \in Targets(o) : fence'[k] = o BY <2>2, <2>3, <1>6, <1>12
        <3>3. Held(o)' BY <2>3, <3>1, <1>8, <1>12, <1>13 DEF Held, Out
        <3>4. Stages(o)' BY <2>3, <1>7, <1>8, <1>9 DEF Stages
        <3> QED BY <2>1, <3>3, <3>4 DEF ActorOK
    <2>4. CASE place = "fence"
        <3>1. ASSUME NEW k \in Targets(o) \ (S \ {j}), NEW l \in S \ {j} PROVE k < l
            <4>1. k \in Nat /\ l \in Nat /\ j \in Nat /\ j <= l /\ j # l
                BY <1>5, <1>12, RestartAssumption
            <4>2. CASE k = j BY <4>1, <4>2
            <4>3. CASE k # j BY <4>3, <1>13
            <4> QED BY <4>2, <4>3
        <3>2. Held(o)' BY <2>2, <2>4, <3>1, <1>8, <1>12, <1>13 DEF Held, Out, Working, Undoing
        <3>3. Stages(o)' BY <2>4, <1>7, <1>8, <1>9 DEF Stages
        <3> QED BY <2>1, <3>2, <3>3 DEF ActorOK
    <2> QED BY <2>3, <2>4
<1>15. \A k \in Jobs : \A v \in (Actors \cup {Worker}) \ {o} : fence'[k] = v <=> fence[k] = v
    BY <1>4, <1>10, <1>11
<1>16. fence' \in [Jobs -> Actors \cup {Nobody, Worker}] BY <1>1, <1>4, <1>10
<1>17. lock' \in [Ops -> Actors \cup {Nobody}] /\ crashes' \in 0 .. scene.crashes
    BY <1>9, LockTypes
<1>18. \A p \in Ops : \A v \in Actors \ {o} : lock[p] = v => lock'[p] = v BY <1>9
<1> QED BY <1>1, <1>4, <1>8, <1>9, <1>14, <1>15, <1>16, <1>17, <1>18, LockMove

LEMMA ObserveStep == ASSUME OInv, NEW r \in Recoverers, NEW o \in Ops, Observe(r, o) PROVE OInv'
<1> USE DEF Observe
<1>1. r \in Actors /\ r \notin Ops /\ ActorOK(r) /\ at \in [Actors -> Agents]
    BY ActorsApart, ActorFacts
<1> DEFINE a == [Idle(r) EXCEPT !.pc = "lock", !.op = o, !.seen = receipt[o]]
<1>2. receipt[o] # "none" /\ receipt[o] \in {"none", "prepared", "committed", "aborted"}
    BY DEF NeedsCleanup, OInv, Types, TypeOK
<1>3. a \in Agents /\ a.pc = "lock" /\ a.op = o /\ a.back = {}
    BY <1>2 DEF Agents, Idle, Places
<1>4. at' = [at EXCEPT ![r] = a] OBVIOUS
<1> HIDE DEF a
<1>5. at' \in [Actors -> Agents] /\ Others(r) /\ at'[r] = a BY <1>1, <1>3, <1>4 DEF Others
<1>6. UNCHANGED <<row, visible, saved, receipt, plan, fence, lock, lease, crashes, faults, scene>>
    BY DEF files, locks
<1>7. ActorOK(r)'
    <2>1. Placed(r)' BY <1>1, <1>2, <1>3, <1>5, <1>6 DEF Placed
    <2>2. \A k \in Jobs : fence[k] # r BY <1>1 DEF ActorOK, Held, Out
    <2>3. Held(r)' BY <2>2, <1>3, <1>5, <1>6 DEF Held, Working, Undoing
    <2>4. Stages(r)' BY <1>1, <1>3, <1>5 DEF Stages
    <2> QED BY <2>1, <2>3, <2>4 DEF ActorOK
<1>8. /\ fence' \in [Jobs -> Actors \cup {Nobody, Worker}] /\ lock' \in [Ops -> Actors \cup {Nobody}]
      /\ crashes' \in 0 .. scene.crashes
    BY <1>6, LockTypes
<1> QED BY <1>1, <1>3, <1>5, <1>6, <1>7, <1>8, LockMove

(* Unlocking takes the locks of w from w alone. *)
LEMMA Unlocked ==
    ASSUME OInv, NEW w \in Actors, Unlock(w)
    PROVE  /\ fence' \in [Jobs -> Actors \cup {Nobody, Worker}] /\ lock' \in [Ops -> Actors \cup {Nobody}]
           /\ \A j \in Jobs : \A v \in (Actors \cup {Worker}) \ {w} : fence'[j] = v <=> fence[j] = v
           /\ \A o \in Ops : \A v \in Actors \ {w} : lock[o] = v => lock'[o] = v
           /\ \A j \in Jobs : fence'[j] # w
BY LockTypes DEF Unlock

LEMMA LeaveStep ==
    ASSUME OInv, NEW w \in Actors, NEW place \in {"done", "dead"}, Unlock(w), Leave(w, place),
           at[w].pc \notin {"idle"},
           UNCHANGED <<row, visible, saved, receipt, plan, lease, faults, scene>>,
           crashes' \in 0 .. scene.crashes
    PROVE  OInv'
<1>1. at \in [Actors -> Agents] BY ActorFacts
<1>2. /\ at' \in [Actors -> Agents] /\ Others(w)
      /\ at'[w].pc = (IF w \in Ops THEN place ELSE "idle") /\ at'[w].op = w
    <2>1. place \in Places BY DEF Places
    <2> QED BY <1>1, <2>1, Leaves
<1>3. at'[w].back = {}
    <2>1. at' = [at EXCEPT ![w] = [Idle(w) EXCEPT !.pc = IF w \in Ops THEN place ELSE "idle"]]
        BY DEF Leave
    <2>2. [Idle(w) EXCEPT !.pc = IF w \in Ops THEN place ELSE "idle"].back = {} BY DEF Idle
    <2> QED BY <1>1, <2>1, <2>2
<1>4. /\ fence' \in [Jobs -> Actors \cup {Nobody, Worker}] /\ lock' \in [Ops -> Actors \cup {Nobody}]
      /\ \A j \in Jobs : \A v \in (Actors \cup {Worker}) \ {w} : fence'[j] = v <=> fence[j] = v
      /\ \A o \in Ops : \A v \in Actors \ {w} : lock[o] = v => lock'[o] = v
      /\ \A j \in Jobs : fence'[j] # w
    BY Unlocked
<1>5. ActorOK(w)'
    <2>1. Placed(w)' BY <1>2, ActorsApart DEF Placed
    <2>2. Held(w)' BY <1>2, <1>4 DEF Held, Working, Undoing
    <2>3. Stages(w)' BY <1>2, <1>3 DEF Stages, Early
    <2> QED BY <2>1, <2>2, <2>3 DEF ActorOK
<1>6. at'[w].pc \notin {"fence", "capture", "prepare"} BY <1>2
<1> QED BY <1>2, <1>4, <1>5, <1>6, LockMove

LEMMA ReleaseStep == ASSUME OInv, NEW w \in Actors, Release(w) PROVE OInv'
<1>1. crashes' \in 0 .. scene.crashes BY LockTypes DEF Release
<1> QED BY <1>1, LeaveStep DEF Release, files

LEMMA CrashStep == ASSUME OInv, NEW w \in Actors, Crash(w) PROVE OInv'
<1>1. crashes' \in 0 .. scene.crashes BY LockTypes DEF Crash
<1> QED BY <1>1, LeaveStep DEF Crash, files

LEMMA RecoverLockStep == ASSUME OInv, NEW r \in Recoverers, RecoverLock(r) PROVE OInv'
<1> USE DEF RecoverLock
<1>1. r \in Actors /\ r \notin Ops /\ ActorOK(r) /\ at \in [Actors -> Agents]
    BY ActorsApart, ActorFacts
<1>2. PICK o \in Ops : at[r].op = o /\ receipt[o] # "none" BY <1>1 DEF ActorOK, Placed
<1>3. \A k \in Jobs : fence[k] # r BY <1>1 DEF ActorOK, Held, Out
<1>4. UNCHANGED <<row, visible, saved, receipt, plan, lease, crashes, faults, scene>> BY DEF files
<1>5. /\ fence \in [Jobs -> Actors \cup {Nobody, Worker}] /\ lock \in [Ops -> Actors \cup {Nobody}]
      /\ Nobody \notin Actors /\ Nobody # Worker /\ crashes' \in 0 .. scene.crashes
    BY <1>4, LockTypes
<1>6. CASE LocksFree(o)
    <2>1. /\ lock' = [lock EXCEPT ![o] = r] /\ Step(r, "check", {})
          /\ fence' = [j \in Jobs |-> IF j \in Targets(o) THEN r ELSE fence[j]]
        BY <1>2, <1>6
    <2>2. lock[o] = Nobody /\ \A j \in Targets(o) : fence[j] = Nobody BY <1>6 DEF LocksFree
    <2>3. /\ at' \in [Actors -> Agents] /\ Others(r)
          /\ at'[r].pc = "check" /\ at'[r].left = {} /\ at'[r].op = o /\ at'[r].back = at[r].back
        <3>1. "check" \in Places BY DEF Places
        <3> QED BY <1>1, <1>2, <2>1, <3>1, Moves
    <2>4. fence' \in [Jobs -> Actors \cup {Nobody, Worker}] /\ lock' \in [Ops -> Actors \cup {Nobody}]
        BY <1>1, <1>5, <2>1
    <2>5. \A k \in Jobs : \A v \in (Actors \cup {Worker}) \ {r} : fence'[k] = v <=> fence[k] = v
        BY <1>5, <2>1, <2>2
    <2>6. lock'[o] = r /\ \A p \in Ops : \A v \in Actors \ {r} : lock[p] = v => lock'[p] = v
        BY <1>5, <2>1, <2>2
    <2>7. ActorOK(r)'
        <3>1. Placed(r)' BY <1>1, <1>2, <1>4, <2>3 DEF Placed
        <3>2. Targets(o)' = Targets(o) /\ Targets(o) \subseteq Jobs
            BY <1>4 DEF Targets, OInv, Types, PlanShape
        <3>3. Held(r)' BY <2>1, <2>3, <2>6, <3>2 DEF Held, Out
        <3>4. at[r].back = {} BY <1>1 DEF ActorOK, Stages
        <3>5. Stages(r)' BY <1>1, <2>3, <3>4 DEF Stages
        <3> QED BY <3>1, <3>3, <3>5 DEF ActorOK
    <2> QED BY <1>1, <1>4, <1>5, <2>3, <2>4, <2>5, <2>6, <2>7, LockMove
<1>7. CASE ~ LocksFree(o)
    <2>1. UNCHANGED <<fence, lock>> /\ at' = [at EXCEPT ![r] = Idle(r)] BY <1>2, <1>7 DEF locks
    <2>2. Idle(r) \in Agents /\ Idle(r).pc = "idle" /\ Idle(r).op = r /\ Idle(r).back = {}
        BY <1>1 DEF Agents, Idle, Places
    <2>3. at' \in [Actors -> Agents] /\ Others(r) /\ at'[r] = Idle(r) BY <1>1, <2>1, <2>2 DEF Others
    <2>4. ActorOK(r)'
        <3>1. Placed(r)' BY <1>1, <2>2, <2>3 DEF Placed
        <3>2. Held(r)' BY <1>3, <2>1, <2>2, <2>3 DEF Held, Working, Undoing
        <3>3. Stages(r)' BY <1>1, <2>2, <2>3 DEF Stages
        <3> QED BY <3>1, <3>2, <3>3 DEF ActorOK
    <2> QED BY <1>1, <1>4, <1>5, <2>1, <2>2, <2>3, <2>4, LockMove
<1> QED BY <1>6, <1>7

(***************************************************************************)
(* The attempts of the jobs: none moves an actor, and none gives a fenced  *)
(* job a new generation.                                                   *)
(***************************************************************************)
Leases == [pc : {"none", "running", "guarded", "written"}, gen : 0 .. MaxGeneration]

LEMMA AttemptMove ==
    ASSUME OInv, UNCHANGED <<saved, receipt, plan, lock, at, crashes, faults, scene>>,
           row' \in [Jobs -> Rows], visible' \in [Jobs -> Outputs], lease' \in [Jobs -> Leases],
           fence' \in [Jobs -> Actors \cup {Nobody, Worker}],
           \A k \in Jobs : \A v \in Actors : fence'[k] = v <=> fence[k] = v,
           \A k \in Jobs : row'[k].gen >= row[k].gen /\ (row'[k].gen = row[k].gen \/ fence[k] \notin Actors),
           Attempts', NoStaleOutput'
    PROVE  OInv'
<1>1. Types'
    <2>1. TypeOK' BY DEF OInv, Types, TypeOK, Leases
    <2> QED BY <2>1, PlanTypes DEF OInv, Types
<1>2. ASSUME NEW v \in Actors PROVE ActorOK(v)'
    <2>1. Respects(v) BY DEF Respects
    <2> QED BY <2>1, Bystander
<1>3. Manifest'
    <2>1. ASSUME NEW p \in Ops, NEW k \in Jobs, saved'[p][k] # NoOutput
          PROVE  k \in Targets(p) /\ saved'[p][k] = Original(p, k) /\ receipt[p] \in {"prepared", "committed"}
        BY <2>1 DEF OInv, Manifest
    <2> QED BY <2>1, ManifestKept
<1>4. Disjoint' BY DEF OInv, Disjoint, Targets
<1> QED BY <1>1, <1>2, <1>3, <1>4 DEF OInv

LEMMA AttemptTypes ==
    ASSUME OInv, NEW j \in Jobs
    PROVE  /\ row \in [Jobs -> Rows] /\ visible \in [Jobs -> Outputs] /\ lease \in [Jobs -> Leases]
           /\ fence \in [Jobs -> Actors \cup {Nobody, Worker}]
           /\ row[j].status \in {"queued", "running", "done", "failed"}
           /\ row[j].gen \in 0 .. MaxGeneration /\ lease[j].gen \in 0 .. MaxGeneration
           /\ row[j] = [status |-> row[j].status, gen |-> row[j].gen]
           /\ lease[j] = [pc |-> lease[j].pc, gen |-> lease[j].gen]
           /\ MaxGeneration \in Nat /\ Worker \notin Actors /\ Nobody \notin Actors /\ Nobody # Worker
<1>1. row[j] \in Rows /\ lease[j] \in Leases BY DEF OInv, Types, TypeOK, Leases
<1>2. /\ row \in [Jobs -> Rows] /\ visible \in [Jobs -> Outputs] /\ lease \in [Jobs -> Leases]
      /\ fence \in [Jobs -> Actors \cup {Nobody, Worker}]
    BY DEF OInv, Types, TypeOK, Leases
<1>3. MaxGeneration \in Nat /\ Worker \notin Actors /\ Nobody \notin Actors /\ Nobody # Worker
    BY RestartAssumption
<1> QED BY <1>1, <1>2, <1>3 DEF Rows, Leases, Terminal

(* A row and a lease that change at one job only. *)
LEMMA GensInt == ASSUME OInv, NEW k \in Jobs PROVE row[k].gen \in Nat
BY RestartAssumption DEF OInv, Types, TypeOK, Rows

LEMMA ClaimStep == ASSUME OInv, NEW j \in Jobs, Claim(j) PROVE OInv'
<1> USE DEF Claim
<1>1. /\ row \in [Jobs -> Rows] /\ visible \in [Jobs -> Outputs] /\ lease \in [Jobs -> Leases]
      /\ fence \in [Jobs -> Actors \cup {Nobody, Worker}] /\ row[j].gen \in 0 .. MaxGeneration
      /\ row[j] = [status |-> row[j].status, gen |-> row[j].gen]
    BY AttemptTypes
<1>2. PICK g \in 0 .. MaxGeneration : g = row[j].gen BY <1>1
<1> DEFINE new == [status |-> "running", gen |-> g]  held == [pc |-> "running", gen |-> g]
<1>3. new \in Rows /\ held \in Leases BY DEF Rows, Leases
<1>4. row' = [row EXCEPT ![j] = new] /\ lease' = [lease EXCEPT ![j] = held]
    <2>1. [row[j] EXCEPT !.status = "running"] = new BY <1>1, <1>2
    <2> QED BY <2>1, <1>2
<1>5. new.status = "running" /\ new.gen = row[j].gen /\ held.pc = "running" BY <1>2
<1> HIDE DEF new, held
<1>6. row' \in [Jobs -> Rows] /\ lease' \in [Jobs -> Leases] /\ row'[j] = new /\ lease'[j] = held
      /\ \A k \in Jobs \ {j} : row'[k] = row[k] /\ lease'[k] = lease[k]
    BY <1>1, <1>3, <1>4
<1>7. UNCHANGED <<visible, saved, receipt, plan, fence, lock, at, crashes, faults, scene>>
    BY DEF files, locks
<1> HIDE DEF Claim
<1>8. Attempts'
    <2>1. \A k \in Jobs \ {j} : (Owed(k)' <=> Owed(k)) /\ (Kept(k)' <=> Kept(k)) /\ (Current(k)' <=> Current(k))
        BY <1>6, <1>7 DEF Owed, Kept, Current
    <2>2. ~ Owed(j)' /\ lease'[j].pc # "guarded" BY <1>5, <1>6 DEF Owed, Terminal
    <2>3. \A k \in Jobs : lease'[k].pc = "guarded" => k # j /\ lease[k].pc = "guarded" BY <2>2, <1>6
    <2>4. \A p \in Ops : Targets(p)' = Targets(p) BY <1>7 DEF Targets
    <2> QED BY <2>1, <2>2, <2>3, <2>4, <1>7 DEF OInv, Attempts
<1>9. NoStaleOutput' BY <1>5, <1>6, <1>7 DEF OInv, NoStaleOutput
<1>10. \A k \in Jobs : row'[k].gen = row[k].gen /\ row'[k].gen >= row[k].gen
    BY <1>5, <1>6, GensInt
<1> QED BY <1>1, <1>6, <1>7, <1>8, <1>9, <1>10, AttemptMove

LEMMA GuardEnterStep == ASSUME OInv, NEW j \in Jobs, GuardEnter(j) PROVE OInv'
<1> USE DEF GuardEnter
<1>1. /\ row \in [Jobs -> Rows] /\ visible \in [Jobs -> Outputs] /\ lease \in [Jobs -> Leases]
      /\ fence \in [Jobs -> Actors \cup {Nobody, Worker}] /\ lease[j].gen \in 0 .. MaxGeneration
      /\ lease[j] = [pc |-> lease[j].pc, gen |-> lease[j].gen] /\ MaxGeneration \in Nat
      /\ Worker \notin Actors /\ Nobody \notin Actors
    BY AttemptTypes
<1>2. UNCHANGED <<row, visible, saved, receipt, plan, lock, at, crashes, faults, scene>>
    BY DEF files
<1>3. \A k \in Jobs : row'[k].gen = row[k].gen /\ row'[k].gen >= row[k].gen BY <1>2, GensInt
<1>4. NoStaleOutput' BY <1>2 DEF OInv, NoStaleOutput
<1>5. \A k \in Jobs : Kept(k)' <=> Kept(k) BY <1>2 DEF Kept
<1>6. \A p \in Ops : Targets(p)' = Targets(p) BY <1>2 DEF Targets
<1>7. CASE Guarded(j)
    <2> DEFINE held == [pc |-> "guarded", gen |-> lease[j].gen]
    <2>1. held \in Leases /\ held.pc = "guarded" /\ held.gen = lease[j].gen BY <1>1 DEF Leases
    <2>2. lease' = [lease EXCEPT ![j] = held] /\ fence' = [fence EXCEPT ![j] = Worker]
        <3>1. [lease[j] EXCEPT !.pc = "guarded"] = held BY <1>1
        <3> QED BY <3>1, <1>7
    <2> HIDE DEF held
    <2>3. /\ lease' \in [Jobs -> Leases] /\ lease'[j] = held
          /\ fence' \in [Jobs -> Actors \cup {Nobody, Worker}] /\ fence'[j] = Worker
          /\ \A k \in Jobs \ {j} : lease'[k] = lease[k] /\ fence'[k] = fence[k]
        BY <1>1, <2>1, <2>2
    <2>4. fence[j] = Nobody /\ Undisturbed(j) /\ lease[j].pc = "running" OBVIOUS
    <2>5. \A k \in Jobs : \A v \in Actors : fence'[k] = v <=> fence[k] = v BY <1>1, <2>3, <2>4
    <2> HIDE DEF GuardEnter
    <2>6. Attempts'
        <3>1. Current(j)' BY <1>2, <1>7, <2>1, <2>3 DEF Guarded, Current
        <3>2. \A k \in Jobs \ {j} : (Owed(k)' <=> Owed(k)) /\ (Current(k)' <=> Current(k))
            BY <1>2, <2>3 DEF Owed, Current
        <3>3. Owed(j)' => Owed(j) BY <1>2, <2>1, <2>3 DEF Owed
        <3>4. ~ scene.interfering => \A o \in Ops : receipt[o] = "prepared" => j \notin Targets(o)
            BY <2>4 DEF Undisturbed
        <3>5. \A k \in Jobs : Owed(k)' => Kept(k)' BY <3>2, <3>3, <1>5 DEF OInv, Attempts
        <3>6. ASSUME NEW k \in Jobs, lease'[k].pc = "guarded" PROVE fence'[k] = Worker /\ Current(k)'
            BY <3>1, <3>2, <3>6, <2>3 DEF OInv, Attempts
        <3>7. ASSUME ~ scene.interfering, NEW k \in Jobs, lease'[k].pc = "guarded",
                     NEW o \in Ops, receipt[o] = "prepared"
              PROVE  k \notin Targets(o)
            BY <3>4, <3>7, <2>3 DEF OInv, Attempts
        <3> QED BY <3>5, <3>6, <3>7, <1>2, <1>6 DEF Attempts
    <2> QED BY <1>1, <1>2, <1>3, <1>4, <2>3, <2>5, <2>6, AttemptMove
<1>8. CASE ~ Guarded(j)
    <2>1. fence' = fence /\ lease' = [lease EXCEPT ![j] = NoLease] BY <1>8
    <2>2. NoLease \in Leases /\ NoLease.pc = "none" BY <1>1 DEF Leases, NoLease
    <2>3. /\ lease' \in [Jobs -> Leases] /\ lease'[j] = NoLease
          /\ \A k \in Jobs \ {j} : lease'[k] = lease[k]
        BY <1>1, <2>1, <2>2
    <2> HIDE DEF GuardEnter
    <2>4. Attempts'
        <3>1. \A k \in Jobs \ {j} : (Owed(k)' <=> Owed(k)) /\ (Current(k)' <=> Current(k))
            BY <1>2, <2>3 DEF Owed, Current
        <3>2. Owed(j)' => Owed(j) BY <1>2, <2>2, <2>3 DEF Owed
        <3>3. \A k \in Jobs : Owed(k)' => Kept(k)' BY <3>1, <3>2, <1>5 DEF OInv, Attempts
        <3>4. \A k \in Jobs : lease'[k].pc = "guarded" => k # j /\ lease[k].pc = "guarded" BY <2>2, <2>3
        <3> QED BY <3>1, <3>3, <3>4, <1>2, <1>6, <2>1 DEF OInv, Attempts
    <2> QED BY <1>1, <1>2, <1>3, <1>4, <2>1, <2>3, <2>4, AttemptMove
<1> QED BY <1>7, <1>8

LEMMA WriteOutputStep == ASSUME OInv, NEW j \in Jobs, WriteOutput(j) PROVE OInv'
<1> USE DEF WriteOutput
<1>1. /\ row \in [Jobs -> Rows] /\ visible \in [Jobs -> Outputs] /\ lease \in [Jobs -> Leases]
      /\ fence \in [Jobs -> Actors \cup {Nobody, Worker}] /\ lease[j].gen \in 0 .. MaxGeneration
      /\ lease[j] = [pc |-> lease[j].pc, gen |-> lease[j].gen]
      /\ Worker \notin Actors /\ Nobody \notin Actors /\ Nobody # Worker
    BY AttemptTypes
<1>2. fence[j] = Worker /\ Current(j) BY DEF OInv, Attempts
<1>3. lease[j].gen = row[j].gen BY <1>2 DEF Current
<1> DEFINE held == [pc |-> "written", gen |-> lease[j].gen]
<1>4. held \in Leases /\ held.pc = "written" BY <1>1 DEF Leases
<1>5. lease' = [lease EXCEPT ![j] = held]
    <2>1. [lease[j] EXCEPT !.pc = "written"] = held BY <1>1
    <2> QED BY <2>1
<1> HIDE DEF held
<1>6. /\ lease' \in [Jobs -> Leases] /\ lease'[j] = held
      /\ fence' \in [Jobs -> Actors \cup {Nobody, Worker}] /\ fence'[j] = Nobody
      /\ visible' \in [Jobs -> Outputs] /\ visible'[j] = row[j].gen
      /\ \A k \in Jobs \ {j} : lease'[k] = lease[k] /\ fence'[k] = fence[k] /\ visible'[k] = visible[k]
    <2>1. lease[j].gen \in Outputs BY <1>1 DEF Outputs
    <2> QED BY <2>1, <1>1, <1>3, <1>4, <1>5
<1>7. UNCHANGED <<row, saved, receipt, plan, lock, at, crashes, faults, scene>> OBVIOUS
<1> HIDE DEF WriteOutput
<1>8. Attempts'
    <2>1. \A k \in Jobs \ {j} : (Owed(k)' <=> Owed(k)) /\ (Kept(k)' <=> Kept(k)) /\ (Current(k)' <=> Current(k))
        BY <1>6, <1>7 DEF Owed, Kept, Current
    <2>2. Kept(j)' BY <1>6, <1>7 DEF Kept
    <2>3. \A k \in Jobs : lease'[k].pc = "guarded" => k # j /\ lease[k].pc = "guarded" BY <1>4, <1>6
    <2>4. \A p \in Ops : Targets(p)' = Targets(p) BY <1>7 DEF Targets
    <2>5. \A k \in Jobs : Owed(k)' => Kept(k)' BY <2>1, <2>2 DEF OInv, Attempts
    <2> QED BY <2>1, <2>3, <2>4, <2>5, <1>6, <1>7 DEF OInv, Attempts
<1>9. NoStaleOutput' BY <1>6, <1>7 DEF OInv, NoStaleOutput
<1>10. \A k \in Jobs : row'[k].gen = row[k].gen /\ row'[k].gen >= row[k].gen BY <1>7, GensInt
<1>11. \A k \in Jobs : \A v \in Actors : fence'[k] = v <=> fence[k] = v BY <1>1, <1>2, <1>6
<1> QED BY <1>1, <1>6, <1>7, <1>8, <1>9, <1>10, <1>11, AttemptMove

LEMMA FinalizeStep ==
    ASSUME OInv, NEW j \in Jobs, NEW status \in Terminal, Finalize(j, status) PROVE OInv'
<1> USE DEF Finalize
<1>1. /\ row \in [Jobs -> Rows] /\ visible \in [Jobs -> Outputs] /\ lease \in [Jobs -> Leases]
      /\ fence \in [Jobs -> Actors \cup {Nobody, Worker}] /\ row[j].gen \in 0 .. MaxGeneration
      /\ row[j] = [status |-> row[j].status, gen |-> row[j].gen] /\ MaxGeneration \in Nat
    BY AttemptTypes
<1>2. UNCHANGED <<visible, saved, receipt, plan, fence, lock, at, crashes, faults, scene>>
    BY DEF files, locks
<1>3. NoLease \in Leases /\ NoLease.pc = "none" BY <1>1 DEF Leases, NoLease
<1>4. /\ lease' \in [Jobs -> Leases] /\ lease'[j] = NoLease
      /\ \A k \in Jobs \ {j} : lease'[k] = lease[k]
    BY <1>1, <1>3
<1>5. /\ row' \in [Jobs -> Rows] /\ row'[j].gen = row[j].gen
      /\ \A k \in Jobs \ {j} : row'[k] = row[k]
      /\ ~ Current(j) => row'[j] = row[j]
    <2>1. CASE ~ Current(j) BY <1>1, <2>1
    <2>2. CASE Current(j)
        <3> DEFINE new == [status |-> status, gen |-> row[j].gen]
        <3>1. new \in Rows /\ new.gen = row[j].gen BY <1>1 DEF Rows
        <3>2. row' = [row EXCEPT ![j] = new]
            <4>1. [row[j] EXCEPT !.status = status] = new BY <1>1
            <4> QED BY <4>1, <2>2
        <3> HIDE DEF new
        <3> QED BY <1>1, <2>2, <3>1, <3>2
    <2> QED BY <2>1, <2>2
<1>6. lease[j].pc = "written" OBVIOUS
<1> HIDE DEF Finalize
<1>7. Attempts'
    <2>1. \A k \in Jobs \ {j} : (Owed(k)' <=> Owed(k)) /\ (Current(k)' <=> Current(k))
        BY <1>2, <1>4, <1>5 DEF Owed, Current
    <2>2. \A k \in Jobs : Kept(k)' <=> Kept(k) BY <1>2, <1>5 DEF Kept
    <2>3. Owed(j)' => Owed(j) BY <1>3, <1>4, <1>5, <1>6 DEF Owed
    <2>4. \A k \in Jobs : Owed(k)' => Kept(k)' BY <2>1, <2>2, <2>3 DEF OInv, Attempts
    <2>5. \A k \in Jobs : lease'[k].pc = "guarded" => k # j /\ lease[k].pc = "guarded" BY <1>3, <1>4
    <2>6. \A p \in Ops : Targets(p)' = Targets(p) BY <1>2 DEF Targets
    <2> QED BY <2>1, <2>4, <2>5, <2>6, <1>2 DEF OInv, Attempts
<1>8. NoStaleOutput' BY <1>2, <1>5 DEF OInv, NoStaleOutput
<1>9. \A k \in Jobs : row'[k].gen = row[k].gen /\ row'[k].gen >= row[k].gen BY <1>5, GensInt
<1> QED BY <1>1, <1>2, <1>4, <1>5, <1>7, <1>8, <1>9, AttemptMove

LEMMA PrepareResumeStep == ASSUME OInv, NEW j \in Jobs, PrepareResume(j) PROVE OInv'
<1> USE DEF PrepareResume
<1>1. /\ row \in [Jobs -> Rows] /\ visible \in [Jobs -> Outputs] /\ lease \in [Jobs -> Leases]
      /\ fence \in [Jobs -> Actors \cup {Nobody, Worker}] /\ row[j].gen \in 0 .. MaxGeneration
      /\ MaxGeneration \in Nat /\ Nobody \notin Actors
    BY AttemptTypes
<1>2. PICK g : g = row[j].gen + 1 OBVIOUS
<1>3. g \in 0 .. MaxGeneration /\ g >= row[j].gen BY <1>1, <1>2
<1> DEFINE new == [status |-> "queued", gen |-> g]
<1>4. new \in Rows /\ new.status = "queued" /\ new.gen = g BY <1>3 DEF Rows
<1>5. row' = [row EXCEPT ![j] = new] BY <1>2
<1> HIDE DEF new
<1>6. /\ row' \in [Jobs -> Rows] /\ row'[j] = new /\ visible' \in [Jobs -> Outputs]
      /\ visible'[j] = NoOutput
      /\ \A k \in Jobs \ {j} : row'[k] = row[k] /\ visible'[k] = visible[k]
    BY <1>1, <1>4, <1>5 DEF Outputs
<1>7. UNCHANGED <<saved, receipt, plan, fence, lock, at, lease, crashes, faults, scene>>
    BY DEF locks
<1>8. fence[j] \notin Actors /\ row[j].status = "failed" BY <1>1
<1> HIDE DEF PrepareResume
<1>9. Attempts'
    <2>1. \A k \in Jobs \ {j} : (Owed(k)' <=> Owed(k)) /\ (Kept(k)' <=> Kept(k)) /\ (Current(k)' <=> Current(k))
        BY <1>6, <1>7 DEF Owed, Kept, Current
    <2>2. ~ Owed(j)' BY <1>4, <1>6 DEF Owed, Current, Terminal
    <2>3. lease[j].pc # "guarded"
        <3>1. SUFFICES ASSUME lease[j].pc = "guarded" PROVE FALSE OBVIOUS
        <3>2. row[j] = [status |-> "running", gen |-> lease[j].gen] BY <3>1 DEF OInv, Attempts, Current
        <3>3. row[j].status = "running" BY <3>2
        <3> QED BY <3>3, <1>8
    <2>4. \A p \in Ops : Targets(p)' = Targets(p) BY <1>7 DEF Targets
    <2> QED BY <2>1, <2>2, <2>3, <2>4, <1>7 DEF OInv, Attempts
<1>10. NoStaleOutput' BY <1>6, <1>7 DEF OInv, NoStaleOutput
<1>11. \A k \in Jobs : row'[k].gen >= row[k].gen /\ (row'[k].gen = row[k].gen \/ fence[k] \notin Actors)
    BY <1>3, <1>4, <1>6, <1>8, GensInt
<1> QED BY <1>1, <1>6, <1>7, <1>9, <1>10, <1>11, AttemptMove

(***************************************************************************)
(* The theorems.                                                           *)
(***************************************************************************)
LEMMA RestartInit == Init => OInv
<1> SUFFICES ASSUME Init PROVE OInv OBVIOUS
<1>1. scene \in Scenarios /\ scene.first \subseteq {"queued", "running", "done", "failed"}
      /\ scene.crashes \in Nat /\ scene.faults \in Nat /\ MaxGeneration \in Nat
    BY RestartAssumption DEF Init
<1>2. row \in [Jobs -> Rows] /\ \A j \in Jobs : row[j].gen = 0
    <2>1. row \in [Jobs -> [status : scene.first, gen : {0}]] BY DEF Init
    <2>2. [status : scene.first, gen : {0}] \subseteq Rows BY <1>1 DEF Rows, Terminal
    <2> QED BY <2>1, <2>2
<1>3. /\ visible \in [Jobs -> Outputs]
      /\ \A j \in Jobs : visible[j] \in {NoOutput, 0}
      /\ \A j \in Jobs : row[j].status \in Terminal => visible[j] = 0
    BY <1>1 DEF Init, Outputs
<1>4. lease \in [Jobs -> Leases] /\ \A j \in Jobs : lease[j].pc \in {"none", "running"}
    BY <1>1 DEF Init, Leases, NoLease
<1>5. /\ at \in [Actors -> Agents]
      /\ \A w \in Actors : at[w].pc \in {"idle", "done"} /\ at[w].op = w /\ at[w].back = {}
    <2>1. \A w \in Actors : /\ at[w] \in Agents
                            /\ at[w].pc \in {"idle", "done"} /\ at[w].op = w /\ at[w].back = {}
        BY DEF Init, Idle, Agents, Places
    <2> QED BY <2>1 DEF Init
<1>6. \A o \in Ops : plan[o] = NoPlan /\ Targets(o) = {} /\ PlanShape(o)
    BY DEF Init, Targets, PlanShape, NoPlan
<1>7. plan = [o \in Ops |-> plan[o]] BY DEF Init
<1>8. /\ saved \in [Ops -> [Jobs -> Outputs]] /\ \A o \in Ops, j \in Jobs : saved[o][j] = NoOutput
    BY DEF Init, Outputs
<1>9. /\ fence \in [Jobs -> Actors \cup {Nobody, Worker}] /\ lock \in [Ops -> Actors \cup {Nobody}]
      /\ \A j \in Jobs : fence[j] \notin Actors
    BY RestartAssumption DEF Init
<1>10. receipt \in [Ops -> {"none", "prepared", "committed", "aborted"}]
       /\ \A o \in Ops : receipt[o] = "none"
    BY DEF Init
<1>11. Types
    <2>1. \A w \in Actors :
              /\ at[w].pc \in Places /\ at[w].op \in Ops \cup {w}
              /\ at[w].left \subseteq Jobs /\ at[w].back \subseteq Jobs
        BY <1>5 DEF Agents
    <2>2. crashes \in 0 .. scene.crashes /\ faults \in 0 .. scene.faults BY <1>1 DEF Init
    <2>3. TypeOK
        BY <2>1, <2>2, <1>1, <1>2, <1>3, <1>4, <1>6, <1>8, <1>9, <1>10 DEF TypeOK, Leases
    <2> QED BY <2>3, <1>5, <1>6, <1>7 DEF Types
<1>12. ASSUME NEW w \in Actors PROVE ActorOK(w)
    <2>1. Placed(w) BY <1>5, ActorsApart DEF Placed
    <2>2. Held(w) BY <1>5, <1>9 DEF Held, Working, Undoing
    <2>3. Stages(w) BY <1>5, <1>10 DEF Stages
    <2> QED BY <2>1, <2>2, <2>3 DEF ActorOK
<1>13. Manifest BY <1>5, <1>6, <1>8, <1>10, ActorsApart DEF Manifest
<1>14. Disjoint BY <1>10 DEF Disjoint
<1>15. Attempts BY <1>2, <1>3, <1>4 DEF Attempts, Owed, Kept
<1>16. NoStaleOutput BY <1>2, <1>3 DEF NoStaleOutput
<1> QED BY <1>11, <1>12, <1>13, <1>14, <1>15, <1>16 DEF OInv

LEMMA RestartStep == OInv /\ [Next]_vars => OInv'
<1> SUFFICES ASSUME OInv, [Next]_vars PROVE OInv' OBVIOUS
<1>1. CASE UNCHANGED vars
    <2>1. UNCHANGED <<row, visible, saved, receipt, plan, fence, lock, at, lease, crashes, faults, scene>>
        BY <1>1 DEF vars, files, locks
    <2>2. Attempts' /\ NoStaleOutput' BY <2>1, FilesFramed DEF files
    <2>3. \A k \in Jobs : row'[k].gen = row[k].gen /\ row'[k].gen >= row[k].gen BY <2>1, GensInt
    <2>4. /\ row' \in [Jobs -> Rows] /\ visible' \in [Jobs -> Outputs] /\ lease' \in [Jobs -> Leases]
          /\ fence' \in [Jobs -> Actors \cup {Nobody, Worker}]
        BY <2>1 DEF OInv, Types, TypeOK, Leases
    <2> QED BY <2>1, <2>2, <2>3, <2>4, AttemptMove
<1>2. ASSUME NEW o \in Ops, OperationStep(o) \/ StageFails(o) \/ \E T \in SUBSET Jobs : Begin(o, T)
      PROVE  OInv'
    BY <1>2, TakeFenceStep, CaptureStep, PrepareStep, StageStep, CommitStep, CommitRefusedStep,
       StageFailsStep, BeginStep DEF OperationStep
<1>3. ASSUME NEW r \in Recoverers, RecoveryStep(r) PROVE OInv'
    BY <1>3, RecoverLockStep, RecoverCheckStep, ObserveStep DEF RecoveryStep
<1>4. ASSUME NEW w \in Actors, UndoStep(w) PROVE OInv'
    BY <1>4, RestoreStep, RestoreEndsStep, RollbackStep, RollbackEndsStep, AbortStep, DiscardStep,
       DiscardEndsStep, ReleaseStep DEF UndoStep
<1>5. ASSUME NEW w \in Actors, FaultStep(w) PROVE OInv'
    BY <1>5, RestoreFailsStep, RollbackFailsStep, DiscardFailsStep, CrashStep DEF FaultStep
<1>6. ASSUME NEW j \in Jobs, Claim(j) \/ AttemptStep(j) \/ PrepareResume(j) PROVE OInv'
    BY <1>6, ClaimStep, GuardEnterStep, WriteOutputStep, FinalizeStep, PrepareResumeStep
       DEF AttemptStep
<1> QED BY <1>1, <1>2, <1>3, <1>4, <1>5, <1>6 DEF Next

(* The invariant of the restart protocol holds in every state it reaches.  *)
THEOREM RestartInvariance == Spec => []OInv
<1> QED BY RestartInit, RestartStep, PTL DEF Spec

(* No output is lost, none of an earlier generation comes back, and an     *)
(* abort leaves no private file, whoever restores, discards or dies        *)
(* (restart_files.py, restart_commit.py, native_cleanup.py).               *)
THEOREM RestartSafety == Spec => []OutputIntact
<1>1. OInv => OutputIntact
    <2> SUFFICES ASSUME OInv PROVE OutputIntact OBVIOUS
    <2>1. OutputKept BY DEF OInv, Attempts, Owed, Kept, OutputKept
    <2>2. AbortedClean BY DEF OInv, Manifest, AbortedClean, Private
    <2> QED BY <2>1, <2>2 DEF OutputIntact, OInv, Types
<1> QED BY <1>1, RestartInvariance, PTL

(* Fences are taken in the order of the addresses, so that no two          *)
(* operations wait for each other.                                         *)
THEOREM FenceOrder == Spec => []NoMutualWait
<1>1. OInv => NoMutualWait
    <2>1. SUFFICES ASSUME OInv, NEW o \in Ops, NEW p \in Ops, Waits(o, p), Waits(p, o) PROVE FALSE
        BY DEF NoMutualWait
    <2>2. o \in Actors /\ p \in Actors BY ActorsApart
    <2>3. /\ at[o].left \in SUBSET Jobs /\ at[p].left \in SUBSET Jobs /\ ActorOK(o) /\ ActorOK(p)
        BY <2>1, <2>2, ActorFacts
    <2>4. PICK a \in at[o].left : a \in Jobs /\ fence[a] = p /\ \A k \in at[o].left : a <= k
        BY <2>1, <2>3, FirstIn DEF Waits, NextFence
    <2>5. PICK b \in at[p].left : b \in Jobs /\ fence[b] = o /\ \A k \in at[p].left : b <= k
        BY <2>1, <2>3, FirstIn DEF Waits, NextFence
    <2>6. a < b BY <2>1, <2>3, <2>4, <2>5 DEF ActorOK, Held, Waits
    <2>7. b < a BY <2>1, <2>3, <2>4, <2>5 DEF ActorOK, Held, Waits
    <2>8. a \in Nat /\ b \in Nat BY <2>4, <2>5, RestartAssumption
    <2> QED BY <2>6, <2>7, <2>8
<1> QED BY <1>1, RestartInvariance, PTL

(***************************************************************************)
(* The refinement: what a job logically has is in its place, or, while the *)
(* receipt is prepared, under the private name of the one operation that   *)
(* has moved it.                                                           *)
(***************************************************************************)
Hides(o, j) == receipt[o] = "prepared" /\ saved[o][j] # NoOutput
Shown(j, x) ==
    \/ x = visible[j] /\ \A o \in Ops : ~ Hides(o, j)
    \/ \E o \in Ops : Hides(o, j) /\ x = saved[o][j]

LEMMA OneHides ==
    OInv => \A j \in Jobs : \A o, p \in Ops : Hides(o, j) /\ Hides(p, j) => o = p
BY DEF OInv, Manifest, Disjoint, Hides

Legible ==
    \A j \in Jobs : Shown(j, LogicalOutput[j]) /\ \A x : Shown(j, x) => x = LogicalOutput[j]

LEMMA LogicalShown == OInv => Legible
<1> SUFFICES ASSUME OInv, NEW j \in Jobs
             PROVE  Shown(j, LogicalOutput[j]) /\ \A x : Shown(j, x) => x = LogicalOutput[j]
    BY DEF Legible
<1>1. CASE \A o \in Ops : ~ Hides(o, j)
    <2>1. LogicalOutput[j] = visible[j] BY <1>1 DEF LogicalOutput, Hides
    <2> QED BY <1>1, <2>1 DEF Shown
<1>2. CASE \E o \in Ops : Hides(o, j)
    <2> DEFINE c == CHOOSE o \in Ops : receipt[o] = "prepared" /\ saved[o][j] # NoOutput
    <2>1. c \in Ops /\ receipt[c] = "prepared" /\ saved[c][j] # NoOutput BY <1>2 DEF Hides
    <2>2. LogicalOutput[j] = saved[c][j] BY <1>2 DEF LogicalOutput, Hides
    <2> HIDE DEF c
    <2>3. Hides(c, j) BY <2>1 DEF Hides
    <2>4. \A o \in Ops : Hides(o, j) => o = c BY <2>1, <2>3, OneHides
    <2> QED BY <2>1, <2>2, <2>3, <2>4 DEF Shown
<1> QED BY <1>1, <1>2

LEMMA LogicalNext == OInv' => Legible'
<1>1. OInv => Legible BY LogicalShown
<1> QED BY <1>1, PTL

LEMMA LogicalFunction == LogicalOutput = [j \in Jobs |-> LogicalOutput[j]] /\ DOMAIN LogicalOutput = Jobs
BY DEF LogicalOutput
LEMMA LogicalFunctionNext ==
    LogicalOutput' = [j \in Jobs |-> LogicalOutput'[j]] /\ DOMAIN LogicalOutput' = Jobs
BY DEF LogicalOutput

LEMMA SameLogical ==
    ASSUME OInv, OInv', \A j \in Jobs : \A x : Shown(j, x) => Shown(j, x)'
    PROVE  LogicalOutput' = LogicalOutput
<1>1. Legible /\ Legible' BY LogicalShown, LogicalNext
<1>2. \A j \in Jobs : LogicalOutput'[j] = LogicalOutput[j]
    <2> SUFFICES ASSUME NEW j \in Jobs PROVE LogicalOutput'[j] = LogicalOutput[j] OBVIOUS
    <2>1. PICK x : x = LogicalOutput[j] OBVIOUS
    <2>2. Shown(j, x) BY <1>1, <2>1 DEF Legible
    <2>3. Shown(j, x)' BY <2>2
    <2>4. x = LogicalOutput'[j] BY <1>1, <2>3 DEF Legible
    <2> QED BY <2>1, <2>4
<1> QED BY <1>2, LogicalFunction, LogicalFunctionNext

LEMMA QuietRefines == ASSUME UNCHANGED <<row, files, receipt>> PROVE UNCHANGED Atomic!vars
BY DEF files, LogicalOutput, Atomic!vars

(* A move of an output is not seen: it is in one of its two places.        *)
LEMMA RelocateRefines ==
    ASSUME OInv, OInv', NEW o \in Ops, NEW j \in Targets(o), Relocates(o, j), receipt[o] = "prepared",
           UNCHANGED <<row, receipt, plan>>
    PROVE  UNCHANGED Atomic!vars
<1>1. /\ j \in Jobs
      /\ \A k \in Jobs \ {j} : visible'[k] = visible[k] /\ \A p \in Ops : saved'[p][k] = saved[p][k]
      /\ \A p \in Ops \ {o} : saved'[p] = saved[p]
      /\ visible'[j] = saved[o][j] /\ saved'[o][j] = visible[j]
      /\ visible[j] = NoOutput \/ saved[o][j] = NoOutput
    BY RelocatedFiles
<1>2. \A p \in Ops \ {o} : ~ Hides(p, j) /\ ~ Hides(p, j)'
    <2> SUFFICES ASSUME NEW p \in Ops \ {o} PROVE ~ Hides(p, j) /\ ~ Hides(p, j)' OBVIOUS
    <2>1. receipt[p] = "prepared" => j \notin Targets(p) BY DEF OInv, Disjoint
    <2>2. ~ Hides(p, j) BY <1>1, <2>1 DEF OInv, Manifest, Hides
    <2> QED BY <1>1, <2>2 DEF Hides
<1>3. ASSUME NEW k \in Jobs, NEW x, Shown(k, x) PROVE Shown(k, x)'
    <2>1. CASE k # j BY <1>1, <1>3, <2>1 DEF Shown, Hides
    <2>2. CASE k = j /\ Hides(o, j)
        <3>1. saved[o][j] # NoOutput /\ visible[j] = NoOutput BY <1>1, <2>2 DEF Hides
        <3>2. x = saved[o][j] BY <1>2, <1>3, <2>2 DEF Shown
        <3>3. \A p \in Ops : ~ Hides(p, j)' BY <1>1, <1>2, <3>1 DEF Hides
        <3> QED BY <1>1, <2>2, <3>2, <3>3 DEF Shown
    <2>3. CASE k = j /\ ~ Hides(o, j)
        <3>1. saved[o][j] = NoOutput /\ x = visible[j] BY <1>2, <1>3, <2>3 DEF Shown, Hides
        <3>2. CASE visible[j] = NoOutput
            <4>1. \A p \in Ops : ~ Hides(p, j)' BY <1>1, <1>2, <3>2 DEF Hides
            <4> QED BY <1>1, <2>3, <3>1, <3>2, <4>1 DEF Shown
        <3>3. CASE visible[j] # NoOutput
            <4>1. Hides(o, j)' BY <1>1, <3>3 DEF Hides
            <4> QED BY <1>1, <2>3, <3>1, <4>1 DEF Shown
        <3> QED BY <3>2, <3>3
    <2> QED BY <2>1, <2>2, <2>3
<1>4. LogicalOutput' = LogicalOutput BY <1>3, SameLogical
<1> QED BY <1>4 DEF Atomic!vars

LEMMA MovesRefine ==
    /\ \A o \in Ops : OInv /\ OInv' /\ Stage(o) => UNCHANGED Atomic!vars
    /\ \A w \in Actors : OInv /\ OInv' /\ (Restore(w) \/ Rollback(w)) => UNCHANGED Atomic!vars
<1>1. ASSUME OInv, OInv', NEW o \in Ops, Stage(o) PROVE UNCHANGED Atomic!vars
    <2> USE <1>1 DEF Stage
    <2>1. o \in Actors /\ ActorOK(o) /\ at[o].left \in SUBSET Jobs BY ActorsApart, ActorFacts
    <2>2. PICK j : j = First(at[o].left) OBVIOUS
    <2>3. at[o].op = o /\ j \in Targets(o) /\ receipt[o] = "prepared"
        BY <2>1, <2>2, FirstIn DEF ActorOK, Placed, Stages
    <2>4. Relocates(o, j) BY <2>2 DEF Relocates
    <2> QED BY <2>3, <2>4, RelocateRefines
<1>2. ASSUME OInv, OInv', NEW w \in Actors, Restore(w) PROVE UNCHANGED Atomic!vars
    <2> USE <1>2 DEF Restore
    <2>1. ActorOK(w) /\ at[w].left \in SUBSET Jobs BY ActorFacts
    <2>2. PICK o \in Ops : at[w].op = o BY OwnPlan DEF Working, Undoing
    <2>3. PICK j : j = Last(at[w].left) OBVIOUS
    <2>4. j \in Targets(o) /\ receipt[o] = "prepared" /\ SameGeneration(o)
        BY <2>1, <2>2, <2>3, LastIn DEF ActorOK, Stages
    <2>5. Relocates(o, j) BY <2>2, <2>3, <2>4 DEF Relocates, SameGeneration
    <2> QED BY <2>4, <2>5, RelocateRefines
<1>3. ASSUME OInv, OInv', NEW w \in Actors, Rollback(w) PROVE UNCHANGED Atomic!vars
    <2> USE <1>3 DEF Rollback
    <2>1. ActorOK(w) /\ at[w].left \in SUBSET Jobs BY ActorFacts
    <2>2. PICK o \in Ops : at[w].op = o BY OwnPlan DEF Working, Undoing
    <2>3. PICK j : j = First(at[w].left) OBVIOUS
    <2>4. j \in Targets(o) /\ receipt[o] = "prepared"
        BY <2>1, <2>2, <2>3, FirstIn DEF ActorOK, Stages
    <2>5. CASE InPlace(o, j)
        <3>1. Relocates(o, j) BY <2>2, <2>3, <2>5 DEF Relocates
        <3> QED BY <2>4, <3>1, RelocateRefines
    <2>6. CASE ~ InPlace(o, j)
        <3>1. UNCHANGED <<row, files, receipt>> BY <2>2, <2>3, <2>6
        <3> QED BY <3>1, QuietRefines
    <2> QED BY <2>5, <2>6
<1> QED BY <1>1, <1>2, <1>3

(* Neither are the receipts, as long as there is nothing to hide.          *)
LEMMA ReceiptRefines ==
    ASSUME OInv, OInv', NEW o \in Ops, UNCHANGED <<row, visible>>,
           \A p \in Ops \ {o} : receipt'[p] = receipt[p] /\ saved'[p] = saved[p],
           \A j \in Jobs : ~ Hides(o, j) /\ ~ Hides(o, j)'
    PROVE  UNCHANGED Atomic!vars
<1>1. \A p \in Ops, j \in Jobs : Hides(p, j)' <=> Hides(p, j) BY DEF Hides
<1>2. ASSUME NEW j \in Jobs, NEW x, Shown(j, x) PROVE Shown(j, x)'
    BY <1>1, <1>2 DEF Shown
<1>3. LogicalOutput' = LogicalOutput BY <1>2, SameLogical
<1> QED BY <1>3 DEF Atomic!vars

LEMMA ReceiptsRefine ==
    /\ \A o \in Ops : OInv /\ OInv' /\ Prepare(o) => UNCHANGED Atomic!vars
    /\ \A w \in Actors : OInv /\ OInv' /\ (Abort(w) \/ Discard(w)) => UNCHANGED Atomic!vars
<1>1. ASSUME OInv, OInv', NEW o \in Ops, Prepare(o) PROVE UNCHANGED Atomic!vars
    <2> USE <1>1 DEF Prepare
    <2>1. o \in Actors /\ ActorOK(o) BY ActorsApart, ActorFacts
    <2>2. receipt[o] = "none" /\ receipt \in [Ops -> {"none", "prepared", "committed", "aborted"}]
        BY <2>1 DEF ActorOK, Stages, Early, OInv, Types, TypeOK
    <2>3. \A j \in Jobs : saved[o][j] = NoOutput BY <2>2 DEF OInv, Manifest
    <2>4. UNCHANGED <<row, visible, saved>> BY DEF files
    <2>5. \A p \in Ops \ {o} : receipt'[p] = receipt[p] BY <2>2
    <2>6. \A j \in Jobs : ~ Hides(o, j) /\ ~ Hides(o, j)' BY <2>3, <2>4 DEF Hides
    <2> QED BY <2>4, <2>5, <2>6, ReceiptRefines
<1>2. ASSUME OInv, OInv', NEW w \in Actors, Abort(w) PROVE UNCHANGED Atomic!vars
    <2> USE <1>2 DEF Abort
    <2>1. PICK o \in Ops : at[w].op = o BY OwnPlan DEF Working, Undoing
    <2>2. UNCHANGED <<row, visible, saved>> BY DEF files
    <2>3. receipt \in [Ops -> {"none", "prepared", "committed", "aborted"}] BY DEF OInv, Types, TypeOK
    <2>4. CASE ~ MayAbort(o)
        <3>1. UNCHANGED <<row, files, receipt>> BY <2>1, <2>4
        <3> QED BY <3>1, QuietRefines
    <2>5. CASE MayAbort(o)
        <3>1. receipt' = [receipt EXCEPT ![o] = "aborted"] BY <2>1, <2>5
        <3>2. \A j \in Targets(o) : saved[o][j] = NoOutput
            BY <2>5 DEF MayAbort, Restored, InPlace
        <3>3. \A j \in Jobs : saved[o][j] = NoOutput BY <3>2 DEF OInv, Manifest
        <3>4. \A j \in Jobs : ~ Hides(o, j) /\ ~ Hides(o, j)' BY <2>2, <3>3 DEF Hides
        <3>5. \A p \in Ops \ {o} : receipt'[p] = receipt[p] BY <2>3, <3>1
        <3> QED BY <2>2, <3>4, <3>5, ReceiptRefines
    <2> QED BY <2>4, <2>5
<1>3. ASSUME OInv, OInv', NEW w \in Actors, Discard(w) PROVE UNCHANGED Atomic!vars
    <2> USE <1>3 DEF Discard
    <2>1. ActorOK(w) BY ActorFacts
    <2>2. PICK o \in Ops : at[w].op = o BY OwnPlan DEF Working, Undoing
    <2>3. receipt[o] # "prepared" BY <2>1, <2>2 DEF ActorOK, Stages
    <2>4. \A j \in Jobs : ~ Hides(o, j) /\ ~ Hides(o, j)' BY <2>3 DEF Hides
    <2>5. saved \in [Ops -> [Jobs -> Outputs]] BY DEF OInv, Types, TypeOK
    <2>6. \A p \in Ops \ {o} : saved'[p] = saved[p] BY <2>2, <2>5
    <2>7. \A p \in Ops : receipt'[p] = receipt[p] OBVIOUS
    <2> QED BY <2>4, <2>6, <2>7, ReceiptRefines
<1> QED BY <1>1, <1>2, <1>3

(* Where a step shows f[k] of every job k, the outputs are f.              *)
LEMMA LogicalIs ==
    ASSUME OInv', NEW f, f = [k \in Jobs |-> f[k]], \A k \in Jobs : Shown(k, f[k])'
    PROVE  LogicalOutput' = f
<1>1. Legible' BY LogicalNext
<1>2. \A k \in Jobs : LogicalOutput'[k] = f[k]
    <2> SUFFICES ASSUME NEW k \in Jobs PROVE LogicalOutput'[k] = f[k] OBVIOUS
    <2>1. PICK x : x = f[k] OBVIOUS
    <2>2. Shown(k, x)' BY <2>1
    <2>3. x = LogicalOutput'[k] BY <1>1, <2>2 DEF Legible
    <2> QED BY <2>1, <2>3
<1> QED BY <1>2, LogicalFunctionNext

(* Nothing of an undisturbed job is hidden.                                *)
LEMMA InTheOpen ==
    ASSUME OInv, NEW j \in Jobs, \A o \in Ops : receipt[o] = "prepared" => j \notin Targets(o)
    PROVE  (\A o \in Ops : ~ Hides(o, j)) /\ LogicalOutput[j] = visible[j]
<1>1. \A o \in Ops : ~ Hides(o, j) BY DEF OInv, Manifest, Hides
<1>2. Shown(j, visible[j]) BY <1>1 DEF Shown
<1>3. Legible BY LogicalShown
<1> QED BY <1>1, <1>2, <1>3 DEF Legible

LEMMA CommitRefines == ASSUME OInv, OInv', NEW o \in Ops, Commit(o) PROVE Atomic!Restart(Targets(o))
<1> USE DEF Commit
<1>1. receipt[o] = "prepared" /\ Staged(o) /\ Unchanged(o) BY DEF MayCommit
<1>2. UNCHANGED <<visible, saved, plan>> BY DEF files
<1>3. /\ receipt'[o] = "committed" /\ \A p \in Ops \ {o} : receipt'[p] = receipt[p]
    BY DEF OInv, Types, TypeOK
<1>4. Targets(o) # {} /\ Targets(o) \subseteq Jobs
    BY <1>1 DEF OInv, Manifest, Types, PlanShape
<1>5. \A k \in Targets(o) : row[k].gen = plan[o].pre[k].gen /\ row[k].gen < MaxGeneration
    BY <1>1 DEF Unchanged, OInv, Manifest
<1>6. row' = [k \in Jobs |-> IF k \in Targets(o) THEN [status |-> "queued", gen |-> row[k].gen + 1]
                             ELSE row[k]]
    BY <1>5
<1> HIDE DEF Commit
<1>7. PICK f : f = [k \in Jobs |-> IF k \in Targets(o) THEN NoOutput ELSE LogicalOutput[k]] OBVIOUS
<1>8. ASSUME NEW k \in Targets(o) PROVE Shown(k, f[k])'
    <2>1. \A p \in Ops : ~ Hides(p, k)'
        <3> SUFFICES ASSUME NEW p \in Ops PROVE ~ Hides(p, k)' OBVIOUS
        <3>1. CASE p = o BY <1>3, <3>1 DEF Hides
        <3>2. CASE p # o
            <4>1. receipt[p] = "prepared" => k \notin Targets(p) BY <1>1, <3>2 DEF OInv, Disjoint
            <4>2. receipt[p] = "prepared" => saved[p][k] = NoOutput BY <1>4, <4>1 DEF OInv, Manifest
            <4> QED BY <1>2, <1>3, <3>2, <4>2 DEF Hides
        <3> QED BY <3>1, <3>2
    <2>2. visible'[k] = NoOutput BY <1>1, <1>2 DEF Staged, Moved
    <2>3. f[k] = NoOutput BY <1>4, <1>7
    <2> QED BY <2>1, <2>2, <2>3 DEF Shown
<1>9. ASSUME NEW k \in Jobs \ Targets(o) PROVE Shown(k, f[k])'
    <2>1. saved[o][k] = NoOutput BY DEF OInv, Manifest
    <2>2. \A p \in Ops : Hides(p, k)' <=> Hides(p, k) BY <1>2, <1>3, <2>1 DEF Hides
    <2>3. PICK x : x = LogicalOutput[k] OBVIOUS
    <2>4. Shown(k, x) BY <2>3, LogicalShown DEF Legible
    <2>5. Shown(k, x)' BY <1>2, <2>2, <2>4 DEF Shown
    <2>6. f[k] = x BY <1>7, <2>3
    <2> QED BY <2>5, <2>6
<1>10. f = [k \in Jobs |-> f[k]] BY <1>7
<1>11. LogicalOutput' = f BY <1>8, <1>9, <1>10, LogicalIs
<1> QED BY <1>4, <1>5, <1>6, <1>7, <1>11 DEF Atomic!Restart, Atomic!Requeued, Atomic!NoOutput, NoOutput

(***************************************************************************)
(* What the jobs do themselves, where nobody touches one under a prepared  *)
(* receipt.                                                                *)
(***************************************************************************)
LEMMA AttemptsRefine ==
    ASSUME OInv, OInv', ~ scene.interfering, NEW j \in Jobs
    PROVE  /\ Claim(j) => Atomic!Claim(j)
           /\ WriteOutput(j) => Atomic!Publish(j)
           /\ PrepareResume(j) => Atomic!Resume(j)
           /\ \A s \in Terminal : Finalize(j, s) => Atomic!Finish(j, s) \/ UNCHANGED Atomic!vars
<1>1. ASSUME UNCHANGED <<saved, receipt>>, \A k \in Jobs \ {j} : visible'[k] = visible[k],
             \A o \in Ops : receipt[o] = "prepared" => j \notin Targets(o)
      PROVE  LogicalOutput' = [LogicalOutput EXCEPT ![j] = visible'[j]]
    <2>1. PICK f : f = [LogicalOutput EXCEPT ![j] = visible'[j]] OBVIOUS
    <2>2. \A p \in Ops, k \in Jobs : Hides(p, k)' <=> Hides(p, k) BY <1>1 DEF Hides
    <2>3. \A o \in Ops : ~ Hides(o, j) BY <1>1, InTheOpen
    <2>4. ASSUME NEW k \in Jobs \ {j} PROVE Shown(k, f[k])'
        <3>1. PICK x : x = LogicalOutput[k] OBVIOUS
        <3>2. Shown(k, x) BY <3>1, LogicalShown DEF Legible
        <3>3. Shown(k, x)' BY <1>1, <2>2, <3>2 DEF Shown
        <3>4. f[k] = x BY <2>1, <3>1, LogicalFunction
        <3> QED BY <3>3, <3>4
    <2>5. Shown(j, f[j])'
        <3>1. f[j] = visible'[j] BY <2>1, LogicalFunction
        <3> QED BY <2>2, <2>3, <3>1 DEF Shown
    <2>6. f = [k \in Jobs |-> f[k]] BY <2>1, LogicalFunction
    <2> QED BY <2>1, <2>4, <2>5, <2>6, LogicalIs
<1>2. ASSUME Claim(j) PROVE Atomic!Claim(j)
    <2>1. UNCHANGED <<files, receipt>> BY <1>2 DEF Claim
    <2>2. LogicalOutput' = LogicalOutput BY <2>1 DEF files, LogicalOutput
    <2> QED BY <1>2, <2>2 DEF Claim, Atomic!Claim
<1>3. ASSUME WriteOutput(j) PROVE Atomic!Publish(j)
    <2>1. lease[j].pc = "guarded" /\ visible' = [visible EXCEPT ![j] = lease[j].gen]
          /\ UNCHANGED <<row, saved, receipt>>
        BY <1>3 DEF WriteOutput
    <2>2. row[j] = [status |-> "running", gen |-> lease[j].gen]
        BY <2>1 DEF OInv, Attempts, Current
    <2>3. row[j].status = "running" /\ row[j].gen = lease[j].gen BY <2>2
    <2>4. \A o \in Ops : receipt[o] = "prepared" => j \notin Targets(o) BY <2>1 DEF OInv, Attempts
    <2>5. visible'[j] = row[j].gen /\ \A k \in Jobs \ {j} : visible'[k] = visible[k]
        BY <2>1, <2>3 DEF OInv, Types, TypeOK
    <2>6. LogicalOutput' = [LogicalOutput EXCEPT ![j] = row[j].gen] BY <1>1, <2>1, <2>4, <2>5
    <2> QED BY <2>1, <2>3, <2>6 DEF Atomic!Publish
<1>4. ASSUME PrepareResume(j) PROVE Atomic!Resume(j)
    <2>1. /\ row[j].status = "failed" /\ row[j].gen < MaxGeneration
          /\ row' = [row EXCEPT ![j] = [status |-> "queued", gen |-> row[j].gen + 1]]
          /\ visible' = [visible EXCEPT ![j] = NoOutput] /\ UNCHANGED <<saved, receipt>>
          /\ \A o \in Ops : receipt[o] = "prepared" => j \notin Targets(o)
        BY <1>4 DEF PrepareResume, Undisturbed
    <2>2. visible'[j] = NoOutput /\ \A k \in Jobs \ {j} : visible'[k] = visible[k]
        BY <2>1 DEF OInv, Types, TypeOK
    <2>3. LogicalOutput' = [LogicalOutput EXCEPT ![j] = NoOutput] BY <1>1, <2>1, <2>2
    <2>4. LogicalOutput' = [k \in Jobs |-> IF k \in {j} THEN Atomic!NoOutput ELSE LogicalOutput[k]]
        BY <2>3, LogicalFunction DEF NoOutput, Atomic!NoOutput
    <2>5. row' = [k \in Jobs |-> IF k \in {j} THEN [status |-> "queued", gen |-> row[k].gen + 1]
                                 ELSE row[k]]
        BY <2>1 DEF OInv, Types, TypeOK
    <2> QED BY <2>1, <2>4, <2>5 DEF Atomic!Resume, Atomic!Requeued
<1>5. ASSUME NEW s \in Terminal, Finalize(j, s)
      PROVE  Atomic!Finish(j, s) \/ UNCHANGED Atomic!vars
    <2>1. /\ lease[j].pc = "written" /\ UNCHANGED <<files, receipt>>
          /\ row' = IF Current(j) THEN [row EXCEPT ![j].status = s] ELSE row
          /\ \A o \in Ops : receipt[o] = "prepared" => j \notin Targets(o)
        BY <1>5 DEF Finalize, Undisturbed
    <2>2. LogicalOutput' = LogicalOutput BY <2>1 DEF files, LogicalOutput
    <2>3. CASE ~ Current(j) BY <2>1, <2>2, <2>3 DEF Atomic!vars
    <2>4. CASE Current(j)
        <3>1. row[j] = [status |-> "running", gen |-> lease[j].gen] BY <2>4 DEF Current
        <3>2. row[j].status = "running" BY <3>1
        <3>3. Kept(j) BY <2>1, <2>4 DEF OInv, Attempts, Owed
        <3>4. ASSUME NEW o \in Ops, saved[o][j] = row[j].gen PROVE FALSE
            <4>1. row[j].gen \in Nat BY GensInt
            <4>2. saved[o][j] # NoOutput BY <3>4, <4>1 DEF NoOutput
            <4>3. /\ j \in Targets(o) /\ receipt[o] \in {"prepared", "committed"}
                  /\ saved[o][j] = Original(o, j) /\ Original(o, j) \in {NoOutput, plan[o].pre[j].gen}
                BY <4>2 DEF OInv, Manifest
            <4>4. receipt[o] = "committed" BY <2>1, <4>3
            <4>5. row[j].gen > plan[o].pre[j].gen BY <4>3, <4>4 DEF OInv, Manifest
            <4>6. row[j].gen = plan[o].pre[j].gen BY <3>4, <4>2, <4>3
            <4> QED BY <4>1, <4>5, <4>6
        <3>5. visible[j] = row[j].gen BY <3>3, <3>4 DEF Kept
        <3>6. LogicalOutput[j] = row[j].gen BY <2>1, <3>5, InTheOpen
        <3> QED BY <2>1, <2>2, <2>4, <3>2, <3>6 DEF Atomic!Finish
    <2> QED BY <2>3, <2>4
<1> QED BY <1>2, <1>3, <1>4, <1>5

LEMMA AtomicStep ==
    OInv /\ OInv' /\ [Next]_vars => [scene.interfering \/ Atomic!Next]_(Atomic!vars)
<1> SUFFICES ASSUME OInv, OInv', [Next]_vars, ~ scene.interfering
             PROVE  Atomic!Next \/ UNCHANGED Atomic!vars
    OBVIOUS
<1>1. CASE UNCHANGED vars
    <2>1. UNCHANGED <<row, files, receipt>> BY <1>1 DEF vars
    <2> QED BY <2>1, QuietRefines
<1>2. ASSUME NEW o \in Ops, OperationStep(o) \/ StageFails(o) \/ \E T \in SUBSET Jobs : Begin(o, T)
      PROVE  Atomic!Next \/ UNCHANGED Atomic!vars
    <2>1. CASE TakeFence(o) \/ Capture(o) \/ CommitRefused(o) \/ StageFails(o)
               \/ \E T \in SUBSET Jobs : Begin(o, T)
        <3>1. UNCHANGED <<row, files, receipt>>
            BY <2>1 DEF TakeFence, Capture, CommitRefused, StageFails, Begin
        <3> QED BY <3>1, QuietRefines
    <2>2. CASE Stage(o) BY <2>2, MovesRefine
    <2>3. CASE Prepare(o) BY <2>3, ReceiptsRefine
    <2>4. CASE Commit(o)
        <3>1. Atomic!Restart(Targets(o)) BY <2>4, CommitRefines
        <3>2. Targets(o) \in SUBSET Jobs BY DEF OInv, Types, PlanShape
        <3> QED BY <3>1, <3>2 DEF Atomic!Next
    <2> QED BY <1>2, <2>1, <2>2, <2>3, <2>4 DEF OperationStep
<1>3. ASSUME NEW r \in Recoverers, RecoveryStep(r) PROVE Atomic!Next \/ UNCHANGED Atomic!vars
    <2>1. UNCHANGED <<row, files, receipt>>
        BY <1>3 DEF RecoveryStep, RecoverLock, RecoverCheck, Observe
    <2> QED BY <2>1, QuietRefines
<1>4. ASSUME NEW w \in Actors, UndoStep(w) \/ FaultStep(w) PROVE Atomic!Next \/ UNCHANGED Atomic!vars
    <2>1. CASE Restore(w) \/ Rollback(w) BY <2>1, MovesRefine
    <2>2. CASE Abort(w) \/ Discard(w) BY <2>2, ReceiptsRefine
    <2>3. CASE RestoreEnds(w) \/ RollbackEnds(w) \/ DiscardEnds(w) \/ Release(w) \/ FaultStep(w)
        <3>1. UNCHANGED <<row, files, receipt>>
            BY <2>3 DEF RestoreEnds, RollbackEnds, DiscardEnds, Release, FaultStep, RestoreFails,
                        RollbackFails, DiscardFails, Crash
        <3> QED BY <3>1, QuietRefines
    <2> QED BY <1>4, <2>1, <2>2, <2>3 DEF UndoStep
<1>5. ASSUME NEW j \in Jobs, Claim(j) \/ AttemptStep(j) \/ PrepareResume(j)
      PROVE  Atomic!Next \/ UNCHANGED Atomic!vars
    <2>1. CASE Claim(j) BY <2>1, AttemptsRefine DEF Atomic!Next
    <2>2. CASE PrepareResume(j) BY <2>2, AttemptsRefine DEF Atomic!Next
    <2>3. CASE WriteOutput(j) BY <2>3, AttemptsRefine DEF Atomic!Next
    <2>4. ASSUME NEW s \in Terminal, Finalize(j, s) PROVE Atomic!Next \/ UNCHANGED Atomic!vars
        <3>1. Atomic!Finish(j, s) \/ UNCHANGED Atomic!vars BY <2>4, AttemptsRefine
        <3>2. s \in Atomic!Terminal BY DEF Terminal, Atomic!Terminal
        <3> QED BY <3>1, <3>2 DEF Atomic!Next
    <2>5. CASE GuardEnter(j)
        <3>1. UNCHANGED <<row, files, receipt>> BY <2>5 DEF GuardEnter
        <3> QED BY <3>1, QuietRefines
    <2> QED BY <1>5, <2>1, <2>2, <2>3, <2>4, <2>5 DEF AttemptStep
<1> QED BY <1>1, <1>2, <1>3, <1>4, <1>5 DEF Next

LEMMA AtomicInit == Init => Atomic!Init
<1> SUFFICES ASSUME Init PROVE Atomic!Init OBVIOUS
<1>1. scene.first \subseteq {"queued", "running", "done", "failed"}
    BY RestartAssumption DEF Init
<1>2. row \in [Jobs -> [status : {"queued", "running"} \cup Atomic!Terminal, gen : {0}]]
    BY <1>1 DEF Init, Atomic!Terminal
<1>3. \A j \in Jobs : LogicalOutput[j] = visible[j]
    <2> SUFFICES ASSUME NEW j \in Jobs PROVE LogicalOutput[j] = visible[j] OBVIOUS
    <2>1. \A o \in Ops : receipt[o] # "prepared" BY DEF Init
    <2> QED BY <2>1 DEF LogicalOutput
<1>4. LogicalOutput = [j \in Jobs |-> IF row[j].status \in Atomic!Terminal THEN 0 ELSE Atomic!NoOutput]
    BY <1>3, LogicalFunction DEF Init, Terminal, Atomic!Terminal, NoOutput, Atomic!NoOutput
<1> QED BY <1>2, <1>4 DEF Atomic!Init

(* Where nobody touches a job under a prepared receipt, a restart with its *)
(* moves, crashes, restorations and recoveries is one atomic step, taken   *)
(* at its commit, or none (restart_commit.py, restart_files.py).           *)
THEOREM RestartRefinement == Spec => ImplementsAtomic
<1> QED BY RestartInvariance, AtomicInit, AtomicStep, PTL DEF Spec, ImplementsAtomic
=============================================================================
