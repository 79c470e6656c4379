-------------------------- MODULE InterruptsProofs --------------------------
(***************************************************************************)
(* Interrupts, for every graph, scope and nesting of them: what an         *)
(* interrupt has paused stands still, what it has frozen stays frozen, and *)
(* no reservation is lost, whoever ends, dies, restarts or is recovered.   *)
(***************************************************************************)
EXTENDS Interrupts, WellFoundedInduction, FiniteSetTheorems, TLAPS

(***************************************************************************)
(* The inductive invariant.                                                *)
(***************************************************************************)
Attempts == [by : Sessions \cup {None}, gen : Nat, at : {"none", "work", "read", "paused"}]
PauseRows == [child : Children, owner : Sessions, job : Jobs, gen : Nat, acked : BOOLEAN]
Types ==
    /\ TypeOK /\ exec \in [Jobs -> Attempts] /\ rows \subseteq PauseRows
    /\ \A j \in Jobs : IF exec[j].at = "none" THEN exec[j] = Idle ELSE exec[j].by \in Sessions

(* An interrupt that has not begun has left no trace.                      *)
Fresh == \A k \in Children : sess[k] = "none" =>
    adm[k] = "none" /\ (\A r \in rows : r.child # k) /\ (\A a \in asks : a[1] # k)

(* A recorded attempt is asked to pause as long as the interrupt is open,  *)
(* and an attempt that is asked is recorded: no claim comes between.       *)
Asked == \A r \in rows : Open(r.child) => <<r.child, r.owner, Home[r.job]>> \in asks
Recorded == \A k \in Children, j \in Jobs :
    Open(k) /\ Current(j) /\ <<k, exec[j].by, Home[j]>> \in asks =>
        \E r \in rows : r.child = k /\ r.job = j /\ r.gen = gen[j]

(* A recorded generation has been claimed, so it is never claimed again.   *)
Waiting4Claim == {"absent", "queued"}
Claimed == \A r \in rows :
    r.gen <= gen[r.job] /\ (r.gen = gen[r.job] => job[r.job] \notin Waiting4Claim)

(* An acknowledged attempt waits; of a frozen interrupt all have done so.  *)
Stopped == \A r \in rows :
    r.acked /\ Open(r.child) /\ r.gen = gen[r.job] /\ Current(r.job) => exec[r.job].at = "paused"
AllAcked == \A r \in rows : adm[r.child] = "frozen" => r.acked
Holds == \A k \in Children : adm[k] = "frozen" => hold[Target[k]] = k

PauseInv == Fresh /\ Asked /\ Recorded /\ Claimed /\ Stopped /\ AllAcked /\ Holds

(* The component of a running job is reserved by the session that runs it, *)
(* or by one that has died.                                                *)
Owned == \A j \in Jobs : job[j] = "running" =>
    /\ owner[Home[j]] \in Sessions
    /\ \/ Current(j) /\ exec[j].by = owner[Home[j]]
       \/ exec[j] = Idle /\ sess[owner[Home[j]]] = "dead"

(* The active transfers of a component are a chain: nobody lends what he   *)
(* has lent, or borrows it twice, and who has it has not lent it.          *)
Chained ==
    /\ \A t \in moved : StatusRunning(t[1]) /\ sess[t[2]] # "none" /\ owner[t[3]] # t[2]
    /\ \A t, u \in moved : t[3] = u[3] /\ (t[1] = u[1] \/ t[2] = u[2]) => t = u
Kept == /\ \A s \in Sessions : StatusRunning(s) => ScopeExact(s)
        /\ \A c \in Comps : /\ owner[c] # None => StatusRunning(owner[c])
                            /\ hold[c] # None => StatusRunning(hold[c])
        /\ \A k \in Children, a \in asks : sess[k] = "ended" => a[1] # k
ScopeInv == Owned /\ Chained /\ Kept

SInv == Types /\ PauseInv /\ ScopeInv

(***************************************************************************)
(* Descends(s, c) is the least set with s that is closed under lending c.  *)
(***************************************************************************)
Lent(X, c) == {k \in Children : StatusRunning(k) /\ \E t \in X : <<k, t, c>> \in moved}
Reach == \A s \in Sessions, c \in Comps :
    /\ s \in Descends(s, c) /\ Descends(s, c) \subseteq Sessions
    /\ Lent(Descends(s, c), c) \subseteq Descends(s, c)
    /\ \A X \in SUBSET Sessions : s \in X /\ Lent(X, c) \subseteq X => Descends(s, c) \subseteq X

LEMMA LeastNatural ==
    ASSUME NEW S \in SUBSET Nat, S # {}
    PROVE  \E n \in S : \A m \in S : n <= m
<1>1. PICK n \in S : \A m \in S : ~ (<<m, n>> \in OpToRel(<, Nat))
    BY NatLessThanWellFounded, WFMin
<1>2. \A m \in S : ~ (m < n) BY <1>1 DEF OpToRel
<1> QED BY <1>2

LEMMA ChildrenFinite == IsFiniteSet(Children) /\ Cardinality(Children) \in Nat /\ Main \in Sessions
<1>1. Children \subseteq Sessions /\ IsFiniteSet(Sessions) BY ScopeAssumption DEF Sessions
<1>2. IsFiniteSet(Children) BY <1>1, FS_Subset
<1> QED BY <1>2, FS_CardinalityType DEF Sessions

(* The rounds of the search: f[n] is what n transfers reach.               *)
Rounds(f, m, s, c) ==
    /\ DOMAIN f = 0 .. m /\ f[0] = {s}
    /\ \A n \in 1 .. m : f[n] = f[n - 1] \cup Lent(f[n - 1], c)

LEMMA RoundsExist ==
    ASSUME NEW s \in Sessions, NEW c \in Comps, NEW m \in Nat
    PROVE  \E f : Rounds(f, m, s, c)
<1> DEFINE Bad == {n \in Nat : ~ \E f : Rounds(f, n, s, c)}
<1>1. SUFFICES ASSUME Bad # {} PROVE FALSE OBVIOUS
<1>2. PICK n \in Bad : \A l \in Bad : n <= l BY <1>1, LeastNatural
<1>3. n # 0
    <2>1. PICK f : f = [i \in 0 .. 0 |-> {s}] OBVIOUS
    <2>2. Rounds(f, 0, s, c) BY <2>1 DEF Rounds
    <2> QED BY <2>2
<1>4. n - 1 \in Nat /\ n - 1 \notin Bad BY <1>2, <1>3
<1>5. PICK g : Rounds(g, n - 1, s, c) BY <1>4
<1>6. PICK h : h = g[n - 1] \cup Lent(g[n - 1], c) OBVIOUS
<1>7. PICK f : f = [i \in 0 .. n |-> IF i = n THEN h ELSE g[i]] OBVIOUS
<1>8. DOMAIN f = 0 .. n /\ f[n] = h /\ \A i \in 0 .. n - 1 : f[i] = g[i] BY <1>4, <1>7
<1>9. f[0] = {s} BY <1>4, <1>5, <1>8 DEF Rounds
<1>10. \A i \in 1 .. n : f[i] = f[i - 1] \cup Lent(f[i - 1], c)
    <2> SUFFICES ASSUME NEW i \in 1 .. n PROVE f[i] = f[i - 1] \cup Lent(f[i - 1], c) OBVIOUS
    <2>1. i - 1 \in 0 .. n - 1 BY <1>4
    <2>2. f[i - 1] = g[i - 1] BY <1>8, <2>1
    <2>3. CASE i = n BY <1>6, <1>8, <2>2, <2>3
    <2>4. CASE i # n
        <3>1. i \in 1 .. n - 1 /\ i \in 0 .. n - 1 BY <2>4, <1>4
        <3> QED BY <1>5, <1>8, <2>2, <3>1 DEF Rounds
    <2> QED BY <2>3, <2>4
<1>11. Rounds(f, n, s, c) BY <1>8, <1>9, <1>10 DEF Rounds
<1> QED BY <1>11, <1>2

LEMMA DescendsRounds ==
    ASSUME NEW s \in Sessions, NEW c \in Comps
    PROVE  \E f : Rounds(f, Cardinality(Children), s, c) /\ Descends(s, c) = f[Cardinality(Children)]
<1> DEFINE N == Cardinality(Children)
<1> DEFINE D(f) == [n \in 0 .. N |->
               IF n = 0 THEN {s}
               ELSE f[n - 1] \cup {k \in Children : StatusRunning(k)
                                      /\ \E t \in f[n - 1] : <<k, t, c>> \in moved}]
<1> DEFINE g == CHOOSE f : f = D(f)
<1>1. N \in Nat BY ChildrenFinite
<1>2. Descends(s, c) = g[N] BY Zenon DEF Descends
<1>3. g = D(g)
    <2>1. PICK f : Rounds(f, N, s, c) BY <1>1, RoundsExist
    <2> HIDE DEF N
    <2>2. PICK e : e = [n \in 0 .. N |-> f[n]] OBVIOUS
    <2>3. DOMAIN e = 0 .. N /\ \A n \in 0 .. N : e[n] = f[n] BY <2>2
    <2>4. \A n \in 0 .. N : e[n] = D(e)[n]
        <3> SUFFICES ASSUME NEW n \in 0 .. N PROVE e[n] = D(e)[n] OBVIOUS
        <3>1. CASE n = 0 BY <1>1, <2>1, <2>3, <3>1 DEF Rounds
        <3>2. CASE n # 0
            <4>1. n \in 1 .. N /\ n - 1 \in 0 .. N BY <1>1, <3>2
            <4>2. f[n] = f[n - 1] \cup Lent(f[n - 1], c) BY <2>1, <4>1 DEF Rounds
            <4>3. e[n] = e[n - 1] \cup Lent(e[n - 1], c) BY <2>3, <4>1, <4>2
            <4> QED BY <3>2, <4>3 DEF Lent
        <3> QED BY <3>1, <3>2
    <2>5. e = D(e) BY <2>2, <2>3, <2>4
    <2>6. \E x : x = D(x) BY <2>5
    <2> HIDE DEF D
    <2> QED BY <2>6
<1> HIDE DEF g, N
<1>4. Rounds(g, N, s, c)
    <2>1. DOMAIN g = 0 .. N BY <1>3
    <2>2. g[0] = {s} BY <1>1, <1>3
    <2>3. ASSUME NEW n \in 1 .. N PROVE g[n] = g[n - 1] \cup Lent(g[n - 1], c)
        <3>1. n \in 0 .. N /\ n # 0 BY <1>1
        <3>2. g[n] = D(g)[n] BY <1>3
        <3> HIDE DEF D
        <3>3. D(g)[n] = g[n - 1] \cup Lent(g[n - 1], c) BY <3>1 DEF D, Lent
        <3> QED BY <3>2, <3>3
    <2> QED BY <2>1, <2>2, <2>3 DEF Rounds
<1> QED BY <1>2, <1>4 DEF N

LEMMA LentGrows == ASSUME NEW c, NEW X, NEW Y, X \subseteq Y PROVE Lent(X, c) \subseteq Lent(Y, c)
BY DEF Lent

LEMMA Reachable == Reach
<1> SUFFICES ASSUME NEW s \in Sessions, NEW c \in Comps
             PROVE  /\ s \in Descends(s, c) /\ Descends(s, c) \subseteq Sessions
                    /\ Lent(Descends(s, c), c) \subseteq Descends(s, c)
                    /\ \A X \in SUBSET Sessions : s \in X /\ Lent(X, c) \subseteq X => Descends(s, c) \subseteq X
    BY DEF Reach
<1>1. PICK N : N = Cardinality(Children) /\ N \in Nat BY ChildrenFinite
<1>2. PICK f : Rounds(f, N, s, c) /\ Descends(s, c) = f[N] BY <1>1, DescendsRounds
<1> DEFINE All == Children \cup {s}
<1>3. IsFiniteSet(All) /\ Cardinality(All) <= N + 1 /\ Cardinality(All) \in Nat
    <2>1. IsFiniteSet(Children) BY ChildrenFinite
    <2>2. IsFiniteSet(All) /\ (Cardinality(All) = N \/ Cardinality(All) = N + 1)
        BY <1>1, <2>1, FS_AddElement
    <2> HIDE DEF All
    <2> QED BY <1>1, <2>2
<1> HIDE DEF All
<1>4. All \subseteq Sessions /\ \A X : Lent(X, c) \subseteq All BY DEF All, Sessions, Lent
<1>5. ASSUME NEW X, s \in X, Lent(X, c) \subseteq X
      PROVE  \A n \in 0 .. N : f[n] \subseteq X
    <2> DEFINE Bad == {n \in 0 .. N : ~ (f[n] \subseteq X)}
    <2>1. SUFFICES ASSUME Bad # {} PROVE FALSE OBVIOUS
    <2>2. Bad \in SUBSET Nat BY <1>1
    <2>3. PICK n \in Bad : \A l \in Bad : n <= l BY <2>1, <2>2, LeastNatural
    <2>4. n # 0 BY <1>2, <1>5, <2>3 DEF Rounds
    <2>5. n \in 1 .. N /\ n - 1 \in 0 .. N /\ n - 1 \notin Bad BY <1>1, <2>3, <2>4
    <2>6. f[n - 1] \subseteq X BY <2>5
    <2>7. Lent(f[n - 1], c) \subseteq X BY <2>6, <1>5, LentGrows
    <2>8. f[n] = f[n - 1] \cup Lent(f[n - 1], c) BY <1>2, <2>5 DEF Rounds
    <2> QED BY <2>3, <2>6, <2>7, <2>8
<1>6. \A n \in 0 .. N : f[n] \subseteq All
    <2>1. s \in All /\ Lent(All, c) \subseteq All BY <1>4 DEF All
    <2> QED BY <2>1, <1>5
<1>7. \A n \in 0 .. N : IsFiniteSet(f[n]) /\ Cardinality(f[n]) \in Nat
    BY <1>3, <1>6, FS_Subset, FS_CardinalityType
<1> DEFINE Grown(n) == Lent(f[n], c) \subseteq f[n] \/ Cardinality(f[n]) >= n + 1
<1>8. \A n \in 0 .. N : s \in f[n] /\ Grown(n)
    <2> DEFINE Bad == {n \in 0 .. N : ~ (s \in f[n] /\ Grown(n))}
    <2>1. SUFFICES ASSUME Bad # {} PROVE FALSE OBVIOUS
    <2>2. Bad \in SUBSET Nat BY <1>1
    <2>3. PICK n \in Bad : \A l \in Bad : n <= l BY <2>1, <2>2, LeastNatural
    <2>4. n # 0
        <3>1. f[0] = {s} BY <1>2 DEF Rounds
        <3>2. Cardinality({s}) = 1 BY FS_Singleton
        <3> QED BY <3>1, <3>2, <2>3
    <2>5. n \in 1 .. N /\ n - 1 \in 0 .. N /\ n - 1 \notin Bad BY <1>1, <2>3, <2>4
    <2>6. PICK m : m = n - 1 /\ m \in 0 .. N /\ m \in Nat BY <2>5
    <2>7. s \in f[m] /\ Grown(m) BY <2>5, <2>6
    <2>8. f[n] = f[m] \cup Lent(f[m], c) BY <1>2, <2>5, <2>6 DEF Rounds
    <2>9. CASE Lent(f[m], c) \subseteq f[m]
        <3>1. f[n] = f[m] BY <2>8, <2>9
        <3> QED BY <2>3, <2>7, <2>9, <3>1
    <2>10. CASE ~ (Lent(f[m], c) \subseteq f[m])
        <3>1. f[m] \subseteq f[n] /\ f[m] # f[n] BY <2>8, <2>10
        <3>2. Cardinality(f[m]) >= m + 1 BY <2>7, <2>10
        <3>3. IsFiniteSet(f[n]) /\ Cardinality(f[n]) \in Nat /\ Cardinality(f[m]) \in Nat BY <1>7, <2>3, <2>6
        <3>4. Cardinality(f[m]) < Cardinality(f[n])
            <4>1. Cardinality(f[m]) <= Cardinality(f[n]) /\ (Cardinality(f[n]) = Cardinality(f[m]) => f[n] = f[m])
                BY <3>1, <3>3, FS_Subset
            <4> QED BY <3>1, <3>3, <4>1
        <3>5. Cardinality(f[n]) >= n + 1 BY <2>5, <2>6, <3>2, <3>3, <3>4
        <3> QED BY <2>3, <2>7, <2>8, <3>5
    <2> QED BY <2>9, <2>10
<1>9. N \in 0 .. N BY <1>1
<1>10. Lent(f[N], c) \subseteq f[N]
    <2>1. SUFFICES ASSUME Cardinality(f[N]) >= N + 1 PROVE f[N] = All BY <1>4, <1>8, <1>9
    <2>2. f[N] \subseteq All /\ Cardinality(f[N]) \in Nat BY <1>6, <1>7, <1>9
    <2>3. Cardinality(f[N]) <= Cardinality(All) /\ (Cardinality(All) = Cardinality(f[N]) => All = f[N])
        BY <1>3, <2>2, FS_Subset
    <2> QED BY <1>1, <1>3, <2>1, <2>2, <2>3
<1>11. s \in f[N] /\ f[N] \subseteq Sessions BY <1>4, <1>6, <1>8, <1>9
<1>12. \A X \in SUBSET Sessions : s \in X /\ Lent(X, c) \subseteq X => f[N] \subseteq X BY <1>5, <1>9
<1> QED BY <1>2, <1>10, <1>11, <1>12

LEMMA ReachableNext == Reach'
BY Reachable, PTL

(***************************************************************************)
(* Types.                                                                  *)
(***************************************************************************)
ExecOK ==
    /\ exec \in [Jobs -> Attempts]
    /\ \A j \in Jobs : exec[j].gen \in 0 .. gen[j]
    /\ \A j \in Jobs : IF exec[j].at = "none" THEN exec[j] = Idle ELSE exec[j].by \in Sessions
JobTypes ==
    /\ job \in [Jobs -> {"absent", "queued", "running", "done", "failed"}] /\ gen \in [Jobs -> Nat]
    /\ restarts \in 0 .. MaxRestarts /\ ExecOK
CompTypes ==
    /\ life \in [Comps -> {"queued", "running", "done", "failed"}]
    /\ begun \in [Comps -> Sessions \cup {None}]
SessTypes ==
    /\ sess \in [Sessions -> {"none", "running", "dead", "ended"}] /\ broken \subseteq Sessions
    /\ owner \in [Comps -> Sessions \cup {None}] /\ moved \subseteq Children \X Sessions \X Comps
PauseTypes ==
    /\ adm \in [Children -> {"none", "admitted", "frozen", "settled"}]
    /\ asks \subseteq Children \X Sessions \X Comps /\ rows \subseteq PauseRows
    /\ hold \in [Comps -> Children \cup {None}] /\ over \subseteq Children
FenceTypes == fences \subseteq Comps \X Children /\ may \in [Sessions -> SUBSET (Comps \X Children)]

LEMMA TypesSplit == Types <=> JobTypes /\ CompTypes /\ SessTypes /\ PauseTypes /\ FenceTypes
<1>1. ASSUME Types PROVE JobTypes /\ CompTypes /\ SessTypes /\ PauseTypes /\ FenceTypes
    BY <1>1 DEF Types, TypeOK, JobTypes, CompTypes, SessTypes, PauseTypes, FenceTypes, ExecOK
<1>2. ASSUME JobTypes /\ CompTypes /\ SessTypes /\ PauseTypes /\ FenceTypes PROVE Types
    <2>1. \A j \in Jobs : exec[j].by \in Sessions \cup {None} /\ exec[j].at \in {"none", "work", "read", "paused"}
        BY <1>2 DEF JobTypes, ExecOK, Attempts
    <2> QED BY <1>2, <2>1 DEF Types, TypeOK, JobTypes, CompTypes, SessTypes, PauseTypes, FenceTypes, ExecOK
<1> QED BY <1>1, <1>2

LEMMA TypesSplitNext ==
    JobTypes' /\ CompTypes' /\ SessTypes' /\ PauseTypes' /\ FenceTypes' => Types'
BY TypesSplit, PTL

LEMMA Constants ==
    /\ Children \subseteq Sessions /\ Main \in Sessions /\ None \notin Sessions
    /\ \A j \in Jobs : Home[j] \in Comps
    /\ \A s \in Sessions : Scope[s] \subseteq Comps
    /\ \A k \in Children : Target[k] \in Comps
BY ScopeAssumption DEF Sessions

LEMMA IdleTyped == Idle \in Attempts /\ Idle.at = "none" /\ Idle.gen = 0 /\ Idle.by = None
BY DEF Idle, Attempts

(* A thread goes to another place of its checkpoint.                       *)
LEMMA Placed ==
    ASSUME Types, NEW j \in Jobs, exec[j].at # "none", NEW p \in {"work", "read", "paused"},
           exec' = [exec EXCEPT ![j].at = p], UNCHANGED gen
    PROVE  /\ ExecOK' /\ exec'[j].by = exec[j].by /\ exec'[j].gen = exec[j].gen /\ exec'[j].at = p
           /\ \A i \in Jobs \ {j} : exec'[i] = exec[i]
<1>1. ExecOK /\ gen \in [Jobs -> Nat] BY TypesSplit DEF JobTypes
<1>2. PICK e : e = [exec[j] EXCEPT !.at = p] OBVIOUS
<1>3. e \in Attempts /\ e.by = exec[j].by /\ e.gen = exec[j].gen /\ e.at = p
    <2>1. exec[j] \in Attempts BY <1>1 DEF ExecOK
    <2> QED BY <1>2, <2>1 DEF Attempts
<1>4. exec' = [exec EXCEPT ![j] = e] BY <1>2
<1>5. /\ exec' \in [Jobs -> Attempts] /\ exec'[j] = e /\ \A i \in Jobs \ {j} : exec'[i] = exec[i]
    BY <1>1, <1>3, <1>4 DEF ExecOK
<1> QED BY <1>1, <1>3, <1>5 DEF ExecOK

(* A thread begins or ends.                                                *)
LEMMA Assigned ==
    ASSUME Types, NEW j \in Jobs, NEW e \in Attempts, exec' = [exec EXCEPT ![j] = e], UNCHANGED gen,
           e.gen \in 0 .. gen[j], IF e.at = "none" THEN e = Idle ELSE e.by \in Sessions
    PROVE  ExecOK' /\ exec'[j] = e /\ \A i \in Jobs \ {j} : exec'[i] = exec[i]
<1>1. ExecOK BY TypesSplit DEF JobTypes
<1>2. exec' \in [Jobs -> Attempts] /\ exec'[j] = e /\ \A i \in Jobs \ {j} : exec'[i] = exec[i]
    BY <1>1 DEF ExecOK
<1> QED BY <1>1, <1>2 DEF ExecOK

LEMMA Ended ==
    ASSUME Types, NEW j \in Jobs, exec' = [exec EXCEPT ![j] = Idle], UNCHANGED gen
    PROVE  ExecOK' /\ exec'[j] = Idle /\ \A i \in Jobs \ {j} : exec'[i] = exec[i]
<1>1. gen[j] \in Nat BY TypesSplit DEF JobTypes
<1>2. 0 \in 0 .. gen[j] BY <1>1
<1>3. PICK e : e = Idle OBVIOUS
<1> QED BY <1>2, <1>3, IdleTyped, Assigned

LEMMA Quiet ==
    /\ (JobTypes /\ UNCHANGED <<job, gen, exec, restarts>> => JobTypes')
    /\ (CompTypes /\ UNCHANGED <<life, begun>> => CompTypes')
    /\ (SessTypes /\ UNCHANGED scopeVars => SessTypes')
    /\ (PauseTypes /\ UNCHANGED <<adm, asks, rows, hold, over>> => PauseTypes')
    /\ (FenceTypes /\ UNCHANGED fenceVars => FenceTypes')
<1>1. ASSUME JobTypes, UNCHANGED <<job, gen, exec, restarts>> PROVE JobTypes'
    BY <1>1 DEF JobTypes, ExecOK
<1>2. ASSUME CompTypes, UNCHANGED <<life, begun>> PROVE CompTypes' BY <1>2 DEF CompTypes
<1>3. ASSUME SessTypes, UNCHANGED scopeVars PROVE SessTypes' BY <1>3 DEF SessTypes, scopeVars
<1>4. ASSUME PauseTypes, UNCHANGED <<adm, asks, rows, hold, over>> PROVE PauseTypes' BY <1>4 DEF PauseTypes
<1>5. ASSUME FenceTypes, UNCHANGED fenceVars PROVE FenceTypes' BY <1>5 DEF FenceTypes, fenceVars
<1> QED BY <1>1, <1>2, <1>3, <1>4, <1>5

(***************************************************************************)
(* What a step may do to a job without disturbing an interrupt: finish or  *)
(* restart it, claim it where nobody has asked for a pause, and let it go  *)
(* on when no pause is left.                                               *)
(***************************************************************************)
Calm(i) ==
    /\ gen'[i] >= gen[i]
    /\ gen'[i] = gen[i] /\ job[i] \notin Waiting4Claim => job'[i] \notin Waiting4Claim
    /\ Current(i)' =>
          /\ gen'[i] = gen[i]
          /\ \/ /\ Current(i) /\ exec'[i].by = exec[i].by
                /\ exec[i].at = "paused" => exec'[i].at = "paused" \/ Pauses(i) = {}
             \/ job[i] = "queued" /\ Blockers(exec'[i].by, Home[i]) = {}

LEMMA StillCalm ==
    ASSUME Types, NEW i \in Jobs, exec'[i] = exec[i], job'[i] = job[i], gen'[i] = gen[i]
    PROVE  Calm(i)
<1>1. gen[i] \in Nat BY TypesSplit DEF JobTypes
<1>2. Current(i)' <=> Current(i) BY DEF Current
<1> QED BY <1>1, <1>2 DEF Calm

LEMMA PauseOnward ==
    ASSUME SInv, Types', UNCHANGED rows, \A i \in Jobs : Calm(i), asks' \subseteq asks,
           \A k \in Children : sess'[k] = "none" => sess[k] = "none" /\ adm'[k] = adm[k],
           \A k \in Children : Open(k)' => adm'[k] = adm[k] /\ \A a \in asks : a[1] = k => a \in asks',
           \A k \in Children : adm'[k] = "frozen" => hold'[Target[k]] = hold[Target[k]]
    PROVE  PauseInv'
<1>1. \A k \in Children : Open(k)' => Open(k) BY DEF Open
<1>2. \A r \in rows : r.child \in Children /\ r.job \in Jobs /\ r.gen \in Nat BY DEF SInv, Types, PauseRows
<1>3. \A i \in Jobs : gen[i] \in Nat /\ gen'[i] \in Nat /\ gen'[i] >= gen[i] BY DEF SInv, Types, TypeOK, Calm
<1>4. Fresh' BY DEF SInv, PauseInv, Fresh
<1>5. Asked' BY <1>1, <1>2 DEF SInv, PauseInv, Asked
<1>6. Recorded'
    <2> SUFFICES ASSUME NEW k \in Children, NEW j \in Jobs, Open(k)', Current(j)',
                        <<k, exec'[j].by, Home[j]>> \in asks
                 PROVE  \E r \in rows : r.child = k /\ r.job = j /\ r.gen = gen'[j]
        BY DEF Recorded
    <2>1. Open(k) /\ gen'[j] = gen[j] BY <1>1 DEF Calm
    <2>2. Blockers(exec'[j].by, Home[j]) # {} BY <2>1 DEF Blockers
    <2>3. Current(j) /\ exec'[j].by = exec[j].by BY <2>2 DEF Calm
    <2> QED BY <2>1, <2>3 DEF SInv, PauseInv, Recorded
<1>7. Claimed'
    <2> SUFFICES ASSUME NEW r \in rows
                 PROVE  r.gen <= gen'[r.job] /\ (r.gen = gen'[r.job] => job'[r.job] \notin Waiting4Claim)
        BY DEF Claimed
    <2>1. r.gen <= gen[r.job] /\ (r.gen = gen[r.job] => job[r.job] \notin Waiting4Claim)
        BY DEF SInv, PauseInv, Claimed
    <2>2. gen'[r.job] = gen[r.job] /\ job[r.job] \notin Waiting4Claim => job'[r.job] \notin Waiting4Claim
        BY <1>2 DEF Calm
    <2> QED BY <1>2, <1>3, <2>1, <2>2
<1>8. Stopped'
    <2> SUFFICES ASSUME NEW r \in rows, r.acked, Open(r.child)', r.gen = gen'[r.job], Current(r.job)'
                 PROVE  exec'[r.job].at = "paused"
        BY DEF Stopped
    <2>1. r.child \in Children /\ r.job \in Jobs /\ Open(r.child) /\ gen'[r.job] = gen[r.job]
        BY <1>1, <1>2 DEF Calm
    <2>2. job[r.job] # "queued" BY <2>1 DEF SInv, PauseInv, Claimed, Waiting4Claim
    <2>3. Current(r.job) /\ (exec[r.job].at = "paused" => exec'[r.job].at = "paused" \/ Pauses(r.job) = {})
        BY <2>1, <2>2 DEF Calm
    <2>4. exec[r.job].at = "paused" BY <2>1, <2>3 DEF SInv, PauseInv, Stopped
    <2>5. r \in Pauses(r.job)
        <3>1. <<r.child, r.owner, Home[r.job]>> \in asks BY <2>1 DEF SInv, PauseInv, Asked
        <3> QED BY <2>1, <2>3, <3>1 DEF Pauses, Current
    <2> QED BY <2>3, <2>4, <2>5
<1>9. AllAcked' BY <1>2 DEF SInv, PauseInv, AllAcked, Open
<1>10. Holds' BY DEF SInv, PauseInv, Holds, Open
<1> QED BY <1>4, <1>5, <1>6, <1>7, <1>8, <1>9, <1>10 DEF PauseInv

(***************************************************************************)
(* What leaves the scopes alone.                                           *)
(***************************************************************************)
LEMMA ReachGrows ==
    ASSUME NEW s \in Sessions, NEW c \in Comps,
           \A k \in Children, t \in Sessions :
               <<k, t, c>> \in moved /\ StatusRunning(k) => <<k, t, c>> \in moved' /\ StatusRunning(k)'
    PROVE  Descends(s, c) \subseteq Descends(s, c)'
<1>1. PICK X : X = Descends(s, c)' OBVIOUS
<1>2. s \in X /\ X \in SUBSET Sessions /\ Lent(X, c)' \subseteq X BY <1>1, ReachableNext DEF Reach
<1>3. Lent(X, c) \subseteq Lent(X, c)' BY <1>2 DEF Lent
<1> QED BY <1>1, <1>2, <1>3, Reachable DEF Reach

SameStanding ==
    \A s \in Sessions : sess'[s] = sess[s] \/ (sess[s] = "running" /\ sess'[s] = "dead")

LEMMA ScopeFramed ==
    ASSUME SInv, Types', UNCHANGED <<owner, moved>>, SameStanding, asks' \subseteq asks,
           \A c \in Comps : hold'[c] \in {None, hold[c]} \/ sess'[hold'[c]] = "running"
    PROVE  Chained' /\ Kept'
<1>1. \A s \in Sessions : /\ StatusRunning(s)' <=> StatusRunning(s)
                          /\ sess'[s] = "none" <=> sess[s] = "none"
                          /\ sess'[s] = "ended" <=> sess[s] = "ended"
    BY DEF SameStanding, StatusRunning
<1>2. \A t \in moved : t[1] \in Sessions /\ t[2] \in Sessions /\ t[3] \in Comps
    BY Constants DEF SInv, Types, TypeOK
<1>3. Chained' BY <1>1, <1>2 DEF SInv, ScopeInv, Chained
<1>4. ASSUME NEW s \in Sessions, StatusRunning(s)' PROVE ScopeExact(s)'
    <2>1. ScopeExact(s) BY <1>1, <1>4 DEF SInv, ScopeInv, Kept
    <2>2. \A c \in Scope[s] : Descends(s, c) \subseteq Descends(s, c)'
        <3> SUFFICES ASSUME NEW c \in Scope[s] PROVE Descends(s, c) \subseteq Descends(s, c)' OBVIOUS
        <3>1. c \in Comps BY Constants
        <3>2. \A k \in Children : StatusRunning(k) => StatusRunning(k)' BY <1>1, Constants
        <3> QED BY <3>1, <3>2, ReachGrows
    <2> QED BY <2>1, <2>2 DEF ScopeExact
<1>5. ASSUME NEW c \in Comps
      PROVE  /\ owner'[c] # None => sess'[owner'[c]] \in {"running", "dead"}
             /\ hold'[c] # None => sess'[hold'[c]] \in {"running", "dead"}
    <2>1. owner[c] # None => owner[c] \in Sessions /\ StatusRunning(owner[c])
        BY DEF SInv, ScopeInv, Kept, Types, TypeOK
    <2>2. hold[c] # None => hold[c] \in Sessions /\ StatusRunning(hold[c])
        BY Constants DEF SInv, ScopeInv, Kept, Types, TypeOK
    <2>3. \A s \in Sessions : StatusRunning(s) => sess'[s] \in {"running", "dead"}
        BY <1>1 DEF StatusRunning
    <2> QED BY <2>1, <2>2, <2>3
<1>6. \A k \in Children, a \in asks' : sess'[k] = "ended" => a[1] # k
    BY <1>1, Constants DEF SInv, ScopeInv, Kept
<1>7. Kept' BY <1>4, <1>5, <1>6 DEF Kept, StatusRunning
<1> QED BY <1>3, <1>7

(* A running job keeps its thread and the owner of its component.          *)
Steady(i) ==
    /\ job[i] = "running" /\ gen'[i] = gen[i] /\ owner'[Home[i]] = owner[Home[i]]
    /\ \/ exec'[i] = exec[i]
       \/ /\ exec[i].at # "none" /\ exec'[i].at # "none"
          /\ exec'[i].by = exec[i].by /\ exec'[i].gen = exec[i].gen
    /\ sess[owner[Home[i]]] = "dead" => sess'[owner[Home[i]]] = "dead"

LEMMA OwnedOnward ==
    ASSUME SInv, \A i \in Jobs : job'[i] = "running" => Steady(i)
    PROVE  Owned'
<1> SUFFICES ASSUME NEW i \in Jobs, job'[i] = "running"
             PROVE  /\ owner'[Home[i]] \in Sessions
                    /\ \/ Current(i)' /\ exec'[i].by = owner'[Home[i]]
                       \/ exec'[i] = Idle /\ sess'[owner'[Home[i]]] = "dead"
    BY DEF Owned
<1>1. Steady(i) OBVIOUS
<1>2. /\ owner[Home[i]] \in Sessions
      /\ \/ Current(i) /\ exec[i].by = owner[Home[i]]
         \/ exec[i] = Idle /\ sess[owner[Home[i]]] = "dead"
    BY <1>1 DEF Steady, SInv, ScopeInv, Owned
<1>3. CASE Current(i) /\ exec[i].by = owner[Home[i]]
    <2>1. Current(i)' BY <1>1, <1>3 DEF Current, Steady
    <2> QED BY <1>1, <1>2, <1>3, <2>1 DEF Steady
<1>4. CASE exec[i] = Idle /\ sess[owner[Home[i]]] = "dead"
    <2>1. exec[i].at = "none" BY <1>4, IdleTyped
    <2> QED BY <1>1, <1>2, <1>4, <2>1 DEF Steady
<1> QED BY <1>2, <1>3, <1>4

(* A step of a job or a session that touches no interrupt.                 *)
LEMMA JobMove ==
    ASSUME SInv, Types', UNCHANGED <<adm, asks, rows, hold, owner, moved>>, SameStanding,
           \A i \in Jobs : Calm(i), Owned'
    PROVE  SInv'
<1>1. \A k \in Children : sess'[k] = "none" => sess[k] = "none" BY Constants DEF SameStanding
<1>2. PauseInv' BY <1>1, PauseOnward
<1>3. Chained' /\ Kept' BY ScopeFramed
<1> QED BY <1>2, <1>3 DEF SInv, ScopeInv


(***************************************************************************)
(* The steps of jobs and sessions.                                         *)
(***************************************************************************)
StillAt(i) == exec'[i] = exec[i] /\ job'[i] = job[i] /\ gen'[i] = gen[i]

LEMMA StillSteady ==
    ASSUME SInv, NEW i \in Jobs, StillAt(i), UNCHANGED owner, SameStanding, job'[i] = "running"
    PROVE  Steady(i)
<1>1. owner[Home[i]] \in Sessions BY DEF SInv, ScopeInv, Owned, StillAt
<1>2. sess[owner[Home[i]]] = "dead" => sess'[owner[Home[i]]] = "dead" BY <1>1 DEF SameStanding
<1> QED BY <1>2 DEF Steady, StillAt

LEMMA OneJob ==
    ASSUME SInv, NEW j \in Jobs, \A i \in Jobs \ {j} : StillAt(i), UNCHANGED owner, SameStanding,
           Calm(j), job'[j] = "running" => Steady(j)
    PROVE  (\A i \in Jobs : Calm(i)) /\ Owned'
<1>1. ASSUME NEW i \in Jobs \ {j} PROVE Calm(i) BY StillCalm DEF StillAt, SInv
<1>2. ASSUME NEW i \in Jobs \ {j}, job'[i] = "running" PROVE Steady(i) BY <1>2, StillSteady
<1>3. Owned' BY <1>2, OwnedOnward
<1> QED BY <1>1, <1>3

LEMMA NoJob ==
    ASSUME SInv, UNCHANGED <<job, gen, exec, owner>>, SameStanding
    PROVE  (\A i \in Jobs : Calm(i)) /\ Owned'
<1>1. \A i \in Jobs : StillAt(i) BY DEF StillAt
<1>2. ASSUME NEW i \in Jobs PROVE Calm(i) BY <1>1, StillCalm DEF StillAt, SInv
<1>3. ASSUME NEW i \in Jobs, job'[i] = "running" PROVE Steady(i) BY <1>1, <1>3, StillSteady
<1>4. Owned' BY <1>3, OwnedOnward
<1> QED BY <1>2, <1>4

LEMMA BeginStep ==
    ASSUME SInv, NEW s \in Sessions, NEW c \in Comps, BeginComponent(s, c)
    PROVE  SInv'
<1>1. CompTypes'
    <2>1. CompTypes BY TypesSplit DEF SInv
    <2> QED BY <2>1 DEF BeginComponent, CompTypes
<1>2. Types'
    BY <1>1, TypesSplit, TypesSplitNext, Quiet DEF SInv, BeginComponent, pauseVars
<1>3. UNCHANGED <<adm, asks, rows, hold, owner, moved>> /\ SameStanding /\ UNCHANGED <<job, gen, exec>>
    BY DEF BeginComponent, pauseVars, scopeVars, SameStanding
<1>4. (\A i \in Jobs : Calm(i)) /\ Owned' BY <1>3, NoJob
<1> QED BY <1>2, <1>3, <1>4, JobMove

LEMMA ClaimStep ==
    ASSUME SInv, NEW s \in Sessions, NEW j \in Jobs, Claim(s, j)
    PROVE  SInv'
<1>1. JobTypes /\ gen[j] \in Nat BY TypesSplit DEF SInv, JobTypes
<1>2. PICK e : e = [by |-> s, gen |-> gen[j], at |-> "work"] OBVIOUS
<1>3. e \in Attempts /\ e.by = s /\ e.gen = gen[j] /\ e.at = "work" BY <1>1, <1>2 DEF Attempts
<1>4. ExecOK' /\ exec'[j] = e /\ \A i \in Jobs \ {j} : exec'[i] = exec[i]
    <2>1. exec' = [exec EXCEPT ![j] = e] /\ UNCHANGED gen BY <1>2 DEF Claim
    <2>2. e.gen \in 0 .. gen[j] /\ (IF e.at = "none" THEN e = Idle ELSE e.by \in Sessions) BY <1>1, <1>3
    <2> QED BY <1>3, <2>1, <2>2, Assigned DEF SInv
<1>5. JobTypes' /\ job'[j] = "running" /\ \A i \in Jobs \ {j} : job'[i] = job[i]
    BY <1>1, <1>4 DEF Claim, JobTypes
<1>6. UNCHANGED <<life, begun, gen, adm, asks, rows, hold, over, owner, moved, sess, scopeVars, fenceVars>>
    BY DEF Claim, pauseVars, scopeVars
<1>7. Types' BY <1>5, <1>6, TypesSplit, TypesSplitNext, Quiet DEF SInv
<1>8. SameStanding BY <1>6 DEF SameStanding
<1>9. job[j] = "queued" /\ owner[Home[j]] = s /\ Blockers(s, Home[j]) = {} BY DEF Claim, MayClaim
<1>10. Calm(j)
    <2>1. gen'[j] = gen[j] /\ gen[j] \in Nat /\ job'[j] \notin Waiting4Claim BY <1>1, <1>5, <1>6 DEF Waiting4Claim
    <2> QED BY <1>3, <1>4, <1>9, <2>1 DEF Calm
<1>11. \A i \in Jobs \ {j} : StillAt(i) BY <1>4, <1>5, <1>6 DEF StillAt
<1>12. \A i \in Jobs : Calm(i)
    <2>1. ASSUME NEW i \in Jobs \ {j} PROVE Calm(i) BY <1>11, StillCalm DEF StillAt, SInv
    <2> QED BY <1>10, <2>1
<1>13. Owned'
    <2>1. Current(j)' BY <1>3, <1>4, <1>5, <1>6 DEF Current
    <2> SUFFICES ASSUME NEW i \in Jobs, job'[i] = "running", i # j
                 PROVE  /\ owner'[Home[i]] \in Sessions
                        /\ \/ Current(i)' /\ exec'[i].by = owner'[Home[i]]
                           \/ exec'[i] = Idle /\ sess'[owner'[Home[i]]] = "dead"
        BY <1>3, <1>4, <1>6, <1>9, <2>1 DEF Owned
    <2>2. Current(i)' <=> Current(i) BY <1>11 DEF StillAt, Current
    <2> QED BY <1>6, <1>11, <2>2 DEF StillAt, SInv, ScopeInv, Owned
<1> QED BY <1>6, <1>7, <1>8, <1>12, <1>13, JobMove

LEMMA BrokenStep ==
    ASSUME SInv, NEW s \in Sessions, broken' = broken \cup {s},
           UNCHANGED <<workVars, pauseVars, sess, owner, moved, fenceVars>>
    PROVE  SInv'
<1>1. SessTypes'
    <2>1. SessTypes BY TypesSplit DEF SInv
    <2> QED BY <2>1 DEF SessTypes
<1>2. UNCHANGED <<life, begun, job, gen, exec, restarts, adm, asks, rows, hold, over, sess, owner, moved, fenceVars>>
    BY DEF workVars, pauseVars
<1>3. Types' BY <1>1, <1>2, TypesSplit, TypesSplitNext, Quiet DEF SInv
<1>4. SameStanding BY <1>2 DEF SameStanding
<1>5. (\A i \in Jobs : Calm(i)) /\ Owned' BY <1>2, <1>4, NoJob
<1> QED BY <1>2, <1>3, <1>4, <1>5, JobMove

LEMMA RefusedStep ==
    ASSUME SInv, NEW s \in Sessions, ExitRefused(s)
    PROVE  SInv'
<1>1. SessTypes' /\ SameStanding
    <2>1. SessTypes BY TypesSplit DEF SInv
    <2> QED BY <2>1 DEF SessTypes, ExitRefused, SameStanding
<1>2. UNCHANGED <<life, begun, job, gen, exec, restarts, adm, asks, rows, hold, over, owner, moved, fenceVars>>
    BY DEF ExitRefused, workVars, pauseVars
<1>3. Types' BY <1>1, <1>2, TypesSplit, TypesSplitNext, Quiet DEF SInv
<1>4. (\A i \in Jobs : Calm(i)) /\ Owned' BY <1>1, <1>2, NoJob
<1> QED BY <1>1, <1>2, <1>3, <1>4, JobMove

LEMMA DieStep ==
    ASSUME SInv, NEW s \in Sessions, Die(s)
    PROVE  SInv'
<1>1. SessTypes' /\ SameStanding
    <2>1. SessTypes BY TypesSplit DEF SInv
    <2> QED BY <2>1 DEF SessTypes, Die, SameStanding
<1>2. UNCHANGED <<life, begun, job, gen, restarts, adm, asks, rows, hold, over, owner, moved, fenceVars>>
    BY DEF Die, pauseVars
<1>3. JobTypes BY TypesSplit DEF SInv
<1>4. \A i \in Jobs : exec'[i] = IF exec[i].by = s THEN Idle ELSE exec[i] BY DEF Die
<1>5. ExecOK'
    <2>1. exec' \in [Jobs -> Attempts]
        BY <1>3, IdleTyped DEF Die, JobTypes, ExecOK
    <2>2. \A i \in Jobs : 0 \in 0 .. gen[i] BY <1>3 DEF JobTypes
    <2>3. \A i \in Jobs : /\ exec'[i].gen \in 0 .. gen[i]
                          /\ IF exec'[i].at = "none" THEN exec'[i] = Idle ELSE exec'[i].by \in Sessions
        BY <1>3, <1>4, <2>2, IdleTyped DEF JobTypes, ExecOK
    <2> QED BY <1>2, <2>1, <2>3 DEF ExecOK
<1>6. JobTypes' BY <1>2, <1>3, <1>5 DEF JobTypes
<1>7. Types' BY <1>1, <1>2, <1>6, TypesSplit, TypesSplitNext, Quiet DEF SInv
<1>8. ASSUME NEW i \in Jobs PROVE Calm(i)
    <2>1. CASE exec[i].by = s
        <3>1. ~Current(i)' BY <1>4, <2>1, IdleTyped DEF Current
        <3>2. gen[i] \in Nat BY <1>3 DEF JobTypes
        <3> QED BY <1>2, <3>1, <3>2 DEF Calm
    <2>2. CASE exec[i].by # s BY <1>2, <1>4, <2>2, StillCalm DEF SInv
    <2> QED BY <2>1, <2>2
<1>9. Owned'
    <2> SUFFICES ASSUME NEW i \in Jobs, job'[i] = "running"
                 PROVE  /\ owner'[Home[i]] \in Sessions
                        /\ \/ Current(i)' /\ exec'[i].by = owner'[Home[i]]
                           \/ exec'[i] = Idle /\ sess'[owner'[Home[i]]] = "dead"
        BY DEF Owned
    <2>1. /\ owner[Home[i]] \in Sessions
          /\ \/ Current(i) /\ exec[i].by = owner[Home[i]]
             \/ exec[i] = Idle /\ sess[owner[Home[i]]] = "dead"
        BY <1>2 DEF SInv, ScopeInv, Owned
    <2>2. CASE exec[i].by = s
        <3>1. exec[i] # Idle BY <2>2, Constants, IdleTyped
        <3>2. sess'[s] = "dead"
            <4>1. SessTypes BY TypesSplit DEF SInv
            <4> QED BY <4>1 DEF SessTypes, Die
        <3> QED BY <1>2, <1>4, <2>1, <2>2, <3>1, <3>2
    <2>3. CASE exec[i].by # s
        <3>1. exec'[i] = exec[i] BY <1>4, <2>3
        <3>2. Current(i)' <=> Current(i) BY <1>2, <3>1 DEF Current
        <3>3. sess[owner[Home[i]]] = "dead" => sess'[owner[Home[i]]] = "dead" BY <1>1, <2>1 DEF SameStanding
        <3> QED BY <1>2, <2>1, <3>1, <3>2, <3>3
    <2> QED BY <2>2, <2>3
<1> QED BY <1>1, <1>2, <1>7, <1>8, <1>9, JobMove

(* A thread at its checkpoint.                                             *)
LEMMA PlaceStep ==
    ASSUME SInv, NEW j \in Jobs, Current(j), NEW p \in {"work", "read", "paused"},
           exec' = [exec EXCEPT ![j].at = p], exec[j].at = "paused" => Pauses(j) = {},
           UNCHANGED <<life, begun, job, gen, restarts, pauseVars, scopeVars, fenceVars>>
    PROVE  SInv'
<1>1. UNCHANGED <<life, begun, job, gen, restarts, adm, asks, rows, hold, over, sess, owner, moved, scopeVars, fenceVars>>
    BY DEF pauseVars, scopeVars
<1>2. exec[j].at # "none" BY DEF Current
<1>3. /\ ExecOK' /\ exec'[j].by = exec[j].by /\ exec'[j].gen = exec[j].gen /\ exec'[j].at = p
      /\ \A i \in Jobs \ {j} : exec'[i] = exec[i]
    BY <1>1, <1>2, Placed DEF SInv
<1>4. JobTypes' 
    <2>1. JobTypes BY TypesSplit DEF SInv
    <2> QED BY <1>1, <1>3, <2>1 DEF JobTypes
<1>5. Types' BY <1>1, <1>4, TypesSplit, TypesSplitNext, Quiet DEF SInv
<1>6. SameStanding BY <1>1 DEF SameStanding
<1>7. Calm(j)
    <2>1. gen[j] \in Nat BY TypesSplit DEF SInv, JobTypes
    <2> QED BY <1>1, <1>3, <2>1 DEF Calm
<1>8. job'[j] = "running" => Steady(j)
    BY <1>1, <1>2, <1>3 DEF Steady
<1>9. (\A i \in Jobs : Calm(i)) /\ Owned'
    BY <1>1, <1>3, <1>6, <1>7, <1>8, OneJob DEF StillAt
<1> QED BY <1>1, <1>5, <1>6, <1>9, JobMove

LEMMA UnwindStep ==
    ASSUME SInv, NEW j \in Jobs, Unwind(j)
    PROVE  SInv'
<1>1. UNCHANGED <<life, begun, job, gen, restarts, adm, asks, rows, hold, over, sess, owner, moved, scopeVars, fenceVars>>
    BY DEF Unwind, pauseVars, scopeVars
<1>2. ExecOK' /\ exec'[j] = Idle /\ \A i \in Jobs \ {j} : exec'[i] = exec[i]
    BY <1>1, Ended DEF Unwind, SInv
<1>3. JobTypes'
    <2>1. JobTypes BY TypesSplit DEF SInv
    <2> QED BY <1>1, <1>2, <2>1 DEF JobTypes
<1>4. Types' BY <1>1, <1>3, TypesSplit, TypesSplitNext, Quiet DEF SInv
<1>5. SameStanding BY <1>1 DEF SameStanding
<1>6. Calm(j)
    <2>1. gen[j] \in Nat BY TypesSplit DEF SInv, JobTypes
    <2>2. ~Current(j)' BY <1>2, IdleTyped DEF Current
    <2> QED BY <1>1, <2>1, <2>2 DEF Calm
<1>7. job[j] # "running"
    <2>1. ~Current(j) /\ exec[j] # Idle BY IdleTyped DEF Unwind
    <2> QED BY <2>1 DEF SInv, ScopeInv, Owned
<1>8. (\A i \in Jobs : Calm(i)) /\ Owned' BY <1>1, <1>2, <1>5, <1>6, <1>7, OneJob DEF StillAt
<1> QED BY <1>1, <1>4, <1>5, <1>8, JobMove

LEMMA PublishStep ==
    ASSUME SInv, NEW j \in Jobs, Publish(j)
    PROVE  SInv'
<1>1. UNCHANGED <<life, begun, exec, gen, restarts, adm, asks, rows, hold, over, sess, owner, moved, scopeVars, fenceVars>>
    BY DEF Publish, pauseVars, scopeVars
<1>2. PICK n \in Feeds[j] : job[n] = "absent" /\ job' = [job EXCEPT ![n] = "queued"] BY DEF Publish
<1>3. n \in Jobs BY ScopeAssumption
<1>4. JobTypes' /\ job'[n] = "queued" /\ \A i \in Jobs \ {n} : job'[i] = job[i]
    <2>1. JobTypes BY TypesSplit DEF SInv
    <2> QED BY <1>1, <1>2, <1>3, <2>1 DEF JobTypes, ExecOK
<1>5. Types' BY <1>1, <1>4, TypesSplit, TypesSplitNext, Quiet DEF SInv
<1>6. SameStanding BY <1>1 DEF SameStanding
<1>7. Calm(n)
    <2>1. gen[n] \in Nat BY <1>3, TypesSplit DEF SInv, JobTypes
    <2>2. ~Current(n)' BY <1>4 DEF Current
    <2> QED BY <1>1, <1>2, <2>1, <2>2 DEF Calm, Waiting4Claim
<1>8. (\A i \in Jobs : Calm(i)) /\ Owned' BY <1>1, <1>3, <1>4, <1>6, <1>7, OneJob DEF StillAt
<1> QED BY <1>1, <1>5, <1>6, <1>8, JobMove

LEMMA EndStep ==
    ASSUME SInv, NEW j \in Jobs, NEW status \in {"done", "failed"}, JobEnds(j, status),
           broken' \subseteq broken \cup {exec[j].by}
    PROVE  SInv'
<1>1. UNCHANGED <<life, begun, gen, restarts, adm, asks, rows, hold, over, sess, owner, moved, fenceVars>>
    BY DEF JobEnds, pauseVars
<1>2. ExecOK' /\ exec'[j] = Idle /\ \A i \in Jobs \ {j} : exec'[i] = exec[i]
    BY <1>1, Ended DEF JobEnds, SInv
<1>3. JobTypes' /\ job'[j] = status /\ \A i \in Jobs \ {j} : job'[i] = job[i]
    <2>1. JobTypes BY TypesSplit DEF SInv
    <2> QED BY <1>1, <1>2, <2>1 DEF JobTypes, JobEnds
<1>4. SessTypes'
    <2>1. SessTypes BY TypesSplit DEF SInv
    <2>2. exec[j].by \in Sessions BY DEF SInv, Types, JobEnds
    <2> QED BY <1>1, <2>1, <2>2 DEF SessTypes
<1>5. Types' BY <1>1, <1>3, <1>4, TypesSplit, TypesSplitNext, Quiet DEF SInv
<1>6. SameStanding BY <1>1 DEF SameStanding
<1>7. Calm(j)
    <2>1. gen[j] \in Nat BY TypesSplit DEF SInv, JobTypes
    <2>2. ~Current(j)' /\ job'[j] \notin Waiting4Claim BY <1>3 DEF Current, Waiting4Claim
    <2> QED BY <1>1, <2>1, <2>2 DEF Calm
<1>8. (\A i \in Jobs : Calm(i)) /\ Owned' BY <1>1, <1>2, <1>3, <1>6, <1>7, OneJob DEF StillAt
<1> QED BY <1>1, <1>5, <1>6, <1>8, JobMove

LEMMA RestartStep ==
    ASSUME SInv, NEW j \in Jobs, RestartJob(j)
    PROVE  SInv'
<1>1. UNCHANGED <<life, begun, exec, adm, asks, rows, hold, over, sess, owner, moved, scopeVars, fenceVars>>
    BY DEF RestartJob, pauseVars, scopeVars
<1>2. JobTypes /\ gen[j] \in Nat BY TypesSplit DEF SInv, JobTypes
<1>3. /\ job' = [job EXCEPT ![j] = "queued"] /\ gen' = [gen EXCEPT ![j] = gen[j] + 1]
      /\ restarts' = restarts + 1 /\ restarts < MaxRestarts
    BY DEF RestartJob
<1>4. /\ job' \in [Jobs -> {"absent", "queued", "running", "done", "failed"}] /\ gen' \in [Jobs -> Nat]
      /\ job'[j] = "queued" /\ gen'[j] = gen[j] + 1
      /\ \A i \in Jobs \ {j} : job'[i] = job[i] /\ gen'[i] = gen[i]
    BY <1>2, <1>3 DEF JobTypes
<1>5. JobTypes'
    <2>1. restarts' \in 0 .. MaxRestarts BY <1>2, <1>3, ScopeAssumption DEF JobTypes
    <2>2. ASSUME NEW i \in Jobs PROVE exec'[i].gen \in 0 .. gen'[i]
        <3>1. exec[i].gen \in 0 .. gen[i] /\ gen[i] \in Nat BY <1>2 DEF JobTypes, ExecOK
        <3>2. gen'[i] \in Nat /\ gen'[i] >= gen[i] BY <1>4, <3>1
        <3> QED BY <1>1, <3>1, <3>2
    <2>3. ExecOK' BY <1>1, <1>2, <2>2 DEF JobTypes, ExecOK
    <2> QED BY <1>4, <2>1, <2>3 DEF JobTypes
<1>6. Types' BY <1>1, <1>5, TypesSplit, TypesSplitNext, Quiet DEF SInv
<1>7. SameStanding BY <1>1 DEF SameStanding
<1>8. Calm(j)
    <2>1. ~Current(j)' BY <1>4 DEF Current
    <2> QED BY <1>2, <1>4, <2>1 DEF Calm
<1>9. (\A i \in Jobs : Calm(i)) /\ Owned' BY <1>1, <1>4, <1>7, <1>8, OneJob DEF StillAt
<1> QED BY <1>1, <1>6, <1>7, <1>9, JobMove

(* The freeze loop reads the parents, or begins again.                     *)
LEMMA LoopStep ==
    ASSUME SInv, UNCHANGED <<workVars, adm, asks, rows, hold, over, scopeVars, fenceVars>>
    PROVE  SInv'
<1>1. UNCHANGED <<life, begun, job, gen, exec, restarts, adm, asks, rows, hold, over, sess, owner, moved, scopeVars, fenceVars>>
    BY DEF workVars, scopeVars
<1>2. Types' BY <1>1, TypesSplit, TypesSplitNext, Quiet DEF SInv
<1>3. SameStanding BY <1>1 DEF SameStanding
<1>4. (\A i \in Jobs : Calm(i)) /\ Owned' BY <1>1, <1>3, NoJob
<1> QED BY <1>1, <1>2, <1>3, <1>4, JobMove

(***************************************************************************)
(* The acknowledgement and the freeze mark rows.                           *)
(***************************************************************************)
Alike(q, r) == q.child = r.child /\ q.owner = r.owner /\ q.job = r.job /\ q.gen = r.gen

LEMMA Marked ==
    ASSUME rows \subseteq PauseRows, NEW S,
           rows' = {IF r \in S THEN [r EXCEPT !.acked = TRUE] ELSE r : r \in rows}
    PROVE  /\ rows' \subseteq PauseRows
           /\ \A q \in rows' : \E r \in rows : Alike(q, r) /\ (q.acked <=> r.acked \/ r \in S)
           /\ \A r \in rows : \E q \in rows' : Alike(q, r)
<1> DEFINE Mark(r) == IF r \in S THEN [r EXCEPT !.acked = TRUE] ELSE r
<1>1. ASSUME NEW r \in rows
      PROVE  Mark(r) \in PauseRows /\ Alike(Mark(r), r) /\ (Mark(r).acked <=> r.acked \/ r \in S)
    <2>1. r \in PauseRows OBVIOUS
    <2>2. CASE r \in S
        <3>1. Mark(r) = [r EXCEPT !.acked = TRUE] BY <2>2
        <3> QED BY <2>1, <2>2, <3>1 DEF PauseRows, Alike
    <2>3. CASE r \notin S BY <2>1, <2>3 DEF Alike
    <2> QED BY <2>2, <2>3
<1>2. rows' = {Mark(r) : r \in rows} OBVIOUS
<1> HIDE DEF Mark
<1> QED BY <1>1, <1>2

(* What the marks need: who is marked waits, or runs no more, and a frozen *)
(* interrupt has marked its own.                                           *)
LEMMA RowsOnward ==
    ASSUME SInv, Types', NEW S,
           rows' = {IF r \in S THEN [r EXCEPT !.acked = TRUE] ELSE r : r \in rows},
           UNCHANGED <<job, gen, asks, sess>>,
           \A k \in Children : (Open(k)' <=> Open(k)) /\ (sess[k] = "none" => adm'[k] = adm[k]),
           \A i \in Jobs : /\ exec'[i].by = exec[i].by /\ (Current(i)' <=> Current(i))
                           /\ exec[i].at = "paused" => exec'[i].at = "paused",
           \A r \in rows : r \in S /\ Current(r.job) /\ r.gen = gen[r.job] /\ ~r.acked =>
               exec'[r.job].at = "paused",
           \A r \in rows : adm'[r.child] = "frozen" => adm[r.child] = "frozen" \/ r \in S,
           Holds'
    PROVE  PauseInv'
<1>1. /\ \A q \in rows' : \E r \in rows : Alike(q, r) /\ (q.acked <=> r.acked \/ r \in S)
      /\ \A r \in rows : \E q \in rows' : Alike(q, r)
    BY Marked DEF SInv, Types
<1>2. \A r \in rows : r.child \in Children /\ r.job \in Jobs BY DEF SInv, Types, PauseRows
<1>3. Fresh' BY <1>1 DEF SInv, PauseInv, Fresh, Alike
<1>4. Asked'
    <2> SUFFICES ASSUME NEW q \in rows', Open(q.child)' PROVE <<q.child, q.owner, Home[q.job]>> \in asks
        BY DEF Asked
    <2>1. PICK r \in rows : Alike(q, r) BY <1>1
    <2>2. Open(r.child) BY <1>2, <2>1 DEF Alike, Open
    <2> QED BY <2>1, <2>2 DEF SInv, PauseInv, Asked, Alike
<1>5. Recorded'
    <2> SUFFICES ASSUME NEW k \in Children, NEW j \in Jobs, Open(k)', Current(j)',
                        <<k, exec'[j].by, Home[j]>> \in asks
                 PROVE  \E q \in rows' : q.child = k /\ q.job = j /\ q.gen = gen'[j]
        BY ZenonT(40) DEF Recorded
    <2>1. Open(k) /\ Current(j) /\ <<k, exec[j].by, Home[j]>> \in asks OBVIOUS
    <2>2. PICK r \in rows : r.child = k /\ r.job = j /\ r.gen = gen[j] BY <2>1 DEF SInv, PauseInv, Recorded
    <2>3. PICK q \in rows' : Alike(q, r) BY <1>1
    <2> QED BY <2>2, <2>3 DEF Alike
<1>6. Claimed'
    <2> SUFFICES ASSUME NEW q \in rows'
                 PROVE  q.gen <= gen'[q.job] /\ (q.gen = gen'[q.job] => job'[q.job] \notin Waiting4Claim)
        BY DEF Claimed
    <2>1. PICK r \in rows : Alike(q, r) BY <1>1
    <2>2. r.gen <= gen[r.job] /\ (r.gen = gen[r.job] => job[r.job] \notin Waiting4Claim)
        BY DEF SInv, PauseInv, Claimed
    <2> QED BY <2>1, <2>2 DEF Alike
<1>7. Stopped'
    <2> SUFFICES ASSUME NEW q \in rows', q.acked, Open(q.child)', q.gen = gen[q.job], Current(q.job)'
                 PROVE  exec'[q.job].at = "paused"
        BY DEF Stopped
    <2>1. PICK r \in rows : Alike(q, r) /\ (q.acked <=> r.acked \/ r \in S) BY <1>1
    <2>2. r.job = q.job /\ r.child = q.child /\ r.job \in Jobs /\ r.child \in Children /\ r.gen = gen[r.job]
        BY <1>2, <2>1 DEF Alike
    <2>3. Current(r.job) /\ Open(r.child) BY <2>2 DEF Current, Open
    <2>4. CASE r.acked BY <2>2, <2>3, <2>4 DEF SInv, PauseInv, Stopped
    <2>5. CASE ~r.acked BY <2>1, <2>2, <2>3, <2>5
    <2> QED BY <2>4, <2>5
<1>8. AllAcked'
    <2> SUFFICES ASSUME NEW q \in rows', adm'[q.child] = "frozen" PROVE q.acked BY DEF AllAcked
    <2>1. PICK r \in rows : Alike(q, r) /\ (q.acked <=> r.acked \/ r \in S) BY <1>1
    <2> QED BY <2>1 DEF SInv, PauseInv, AllAcked, Alike
<1> QED BY <1>3, <1>4, <1>5, <1>6, <1>7, <1>8 DEF PauseInv

LEMMA AcknowledgeStep ==
    ASSUME SInv, NEW j \in Jobs, AcknowledgePauses(j)
    PROVE  SInv'
<1>1. UNCHANGED <<life, begun, job, gen, restarts, adm, asks, hold, over, sess, owner, moved, scopeVars, fenceVars>>
    BY DEF AcknowledgePauses, scopeVars
<1> DEFINE S == {r \in rows : r.job = j /\ r.gen = exec[j].gen /\ Open(r.child)}
<1>2. rows' = {IF r \in S THEN [r EXCEPT !.acked = TRUE] ELSE r : r \in rows}
    BY DEF AcknowledgePauses, Acked
<1>3. exec[j].at # "none" /\ exec[j].at # "paused" /\ Current(j) BY DEF AcknowledgePauses
<1>4. /\ ExecOK' /\ exec'[j].by = exec[j].by /\ exec'[j].gen = exec[j].gen /\ exec'[j].at = "paused"
      /\ \A i \in Jobs \ {j} : exec'[i] = exec[i]
    BY <1>1, <1>3, Placed DEF SInv, AcknowledgePauses
<1>5. Types'
    <2>1. JobTypes /\ PauseTypes BY TypesSplit DEF SInv
    <2>2. JobTypes' BY <1>1, <1>4, <2>1 DEF JobTypes
    <2>3. rows' \subseteq PauseRows
        <3>1. rows \subseteq PauseRows BY <2>1 DEF PauseTypes
        <3> HIDE DEF S
        <3> QED BY <1>2, <3>1, Marked
    <2>4. PauseTypes' BY <1>1, <2>1, <2>3 DEF PauseTypes
    <2> QED BY <1>1, <2>2, <2>4, TypesSplit, TypesSplitNext, Quiet DEF SInv
<1>6. SameStanding BY <1>1 DEF SameStanding
<1>7. PauseInv'
    <2>1. \A k \in Children : (Open(k)' <=> Open(k)) /\ (sess[k] = "none" => adm'[k] = adm[k]) BY <1>1 DEF Open
    <2>2. \A i \in Jobs : /\ exec'[i].by = exec[i].by /\ (Current(i)' <=> Current(i))
                          /\ exec[i].at = "paused" => exec'[i].at = "paused"
        BY <1>1, <1>3, <1>4 DEF Current
    <2>3. \A r \in rows : r \in S => exec'[r.job].at = "paused" BY <1>4
    <2>4. \A r \in rows : adm'[r.child] = "frozen" => adm[r.child] = "frozen" BY <1>1
    <2>5. Holds' BY <1>1 DEF SInv, PauseInv, Holds
    <2> HIDE DEF S
    <2> QED BY <1>1, <1>2, <1>5, <2>1, <2>2, <2>3, <2>4, <2>5, RowsOnward
<1>8. Owned'
    <2>1. ASSUME NEW i \in Jobs, job'[i] = "running" PROVE Steady(i)
        <3>1. CASE i = j BY <1>1, <1>3, <1>4, <2>1, <3>1 DEF Steady
        <3>2. CASE i # j BY <1>1, <1>4, <1>6, <2>1, <3>2, StillSteady DEF StillAt
        <3> QED BY <3>1, <3>2
    <2> QED BY <2>1, OwnedOnward
<1>9. Chained' /\ Kept' BY <1>1, <1>5, <1>6, ScopeFramed
<1> QED BY <1>5, <1>7, <1>8, <1>9 DEF SInv, ScopeInv

LEMMA FreezeMove ==
    ASSUME SInv, NEW k \in Children, Freeze(k)
    PROVE  SInv'
<1>1. UNCHANGED <<life, begun, job, gen, exec, restarts, asks, sess, owner, moved, scopeVars, fenceVars>>
    BY DEF Freeze, scopeVars, workVars
<1>2. rows' = {IF r \in RowsOf(k) THEN [r EXCEPT !.acked = TRUE] ELSE r : r \in rows}
    BY DEF Freeze, RowsOf
<1>3. PauseTypes BY TypesSplit DEF SInv
<1>4. /\ sess[k] = "running" /\ adm[k] = "admitted" /\ adm'[k] = "frozen"
      /\ \A i \in Children \ {k} : adm'[i] = adm[i]
    BY <1>3 DEF Freeze, Awaiting, PauseTypes
<1>5. Target[k] \in Comps /\ hold[Target[k]] = None /\ hold'[Target[k]] = k
        /\ \A c \in Comps \ {Target[k]} : hold'[c] = hold[c]
    BY <1>3, Constants DEF Freeze, PauseTypes
<1>6. Types'
    <2>1. rows' \subseteq PauseRows BY <1>2, <1>3, Marked DEF PauseTypes
    <2>2. adm' \in [Children -> {"none", "admitted", "frozen", "settled"}] BY <1>3 DEF Freeze, PauseTypes
    <2>3. hold' \in [Comps -> Children \cup {None}] /\ over' \subseteq Children BY <1>3 DEF Freeze, PauseTypes
    <2>4. PauseTypes' BY <1>1, <1>3, <2>1, <2>2, <2>3 DEF PauseTypes
    <2> QED BY <1>1, <2>4, TypesSplit, TypesSplitNext, Quiet DEF SInv
<1>7. SameStanding BY <1>1 DEF SameStanding
<1>8. PauseInv'
    <2>1. \A i \in Children : (Open(i)' <=> Open(i)) /\ (sess[i] = "none" => adm'[i] = adm[i])
        BY <1>4 DEF Open
    <2>2. \A i \in Jobs : /\ exec'[i].by = exec[i].by /\ (Current(i)' <=> Current(i))
                          /\ exec[i].at = "paused" => exec'[i].at = "paused"
        BY <1>1 DEF Current
    <2>3. ASSUME NEW r \in rows, r \in RowsOf(k), Current(r.job) PROVE r.acked
        <3>1. Same(r) BY <2>3 DEF Freeze, Ready2Freeze, Replaced
        <3>2. job[r.job] = "running" BY <2>3 DEF Current
        <3> QED BY <2>3, <3>1, <3>2 DEF Freeze, Ready2Freeze, Pending
    <2>4. \A r \in rows : adm'[r.child] = "frozen" => adm[r.child] = "frozen" \/ r \in RowsOf(k)
        <3>1. \A r \in rows : r.child \in Children BY <1>3 DEF PauseTypes, PauseRows
        <3> QED BY <1>4, <3>1 DEF RowsOf
    <2>5. Holds'
        <3> SUFFICES ASSUME NEW i \in Children, adm'[i] = "frozen" PROVE hold'[Target[i]] = i BY DEF Holds
        <3>1. CASE i = k BY <1>5, <3>1
        <3>2. CASE i # k
            <4>1. hold[Target[i]] = i /\ Target[i] \in Comps
                BY <1>4, <3>2, Constants DEF SInv, PauseInv, Holds
            <4>2. i # None BY Constants
            <4> QED BY <1>5, <4>1, <4>2
        <3> QED BY <3>1, <3>2
    <2> QED BY <1>1, <1>2, <1>6, <2>1, <2>2, <2>3, <2>4, <2>5, RowsOnward
<1>9. Owned' BY <1>1, <1>7, NoJob
<1>10. Chained' /\ Kept'
    <2>1. \A c \in Comps : hold'[c] \in {None, hold[c]} \/ sess'[hold'[c]] = "running" BY <1>1, <1>4, <1>5
    <2> QED BY <1>1, <1>6, <1>7, <2>1, ScopeFramed
<1> QED BY <1>6, <1>8, <1>9, <1>10 DEF SInv, ScopeInv

LEMMA FinishStep ==
    ASSUME SInv, NEW s \in Sessions, NEW c \in Comps, FinishComponent(s, c)
    PROVE  SInv'
<1>1. UNCHANGED <<begun, job, gen, exec, restarts, rows, over, sess, owner, moved, scopeVars, may>>
    BY DEF FinishComponent, scopeVars
<1>2. CompTypes /\ PauseTypes /\ FenceTypes BY TypesSplit DEF SInv
<1>3. CompTypes' BY <1>1, <1>2 DEF CompTypes, FinishComponent
<1>4. SameStanding BY <1>1 DEF SameStanding
<1>5. (\A i \in Jobs : Calm(i)) /\ Owned' BY <1>1, <1>4, NoJob
<1>6. CASE s \in Children /\ c = Target[s]
    <2>1. /\ adm' = [adm EXCEPT ![s] = "settled"] /\ hold' = Unheld(s) /\ asks' = Unasked(s)
          /\ fences' = IF s \in over THEN fences \cup {<<c, s>>} ELSE fences
        BY <1>6 DEF FinishComponent
    <2>2. PauseTypes' BY <1>1, <1>2, <1>6, <2>1 DEF PauseTypes, Unheld, Unasked
    <2>3. FenceTypes' BY <1>1, <1>2, <1>6, <2>1 DEF FenceTypes
    <2>4. Types' BY <1>1, <1>3, <2>2, <2>3, TypesSplit, TypesSplitNext, Quiet DEF SInv
    <2>5. adm'[s] = "settled" /\ \A k \in Children \ {s} : adm'[k] = adm[k] BY <1>2, <1>6, <2>1 DEF PauseTypes
    <2>6. \A k \in Children : sess'[k] = "none" => sess[k] = "none" /\ adm'[k] = adm[k]
        <3>1. sess[s] = "running" BY DEF FinishComponent
        <3> QED BY <1>1, <2>5, <3>1
    <2>7. \A k \in Children : Open(k)' => adm'[k] = adm[k] /\ \A a \in asks : a[1] = k => a \in asks'
        BY <2>1, <2>5 DEF Open, Unasked
    <2>8. ASSUME NEW k \in Children, adm'[k] = "frozen" PROVE hold'[Target[k]] = hold[Target[k]]
        <3>1. k # s /\ adm[k] = "frozen" BY <2>5, <2>8
        <3>2. hold[Target[k]] = k /\ Target[k] \in Comps BY <3>1, Constants DEF SInv, PauseInv, Holds
        <3> QED BY <2>1, <3>1, <3>2 DEF Unheld
    <2>9. asks' \subseteq asks /\ \A d \in Comps : hold'[d] \in {None, hold[d]}
        BY <2>1 DEF Unasked, Unheld
    <2>10. PauseInv' BY <1>1, <1>5, <2>4, <2>6, <2>7, <2>8, <2>9, PauseOnward
    <2>11. Chained' /\ Kept' BY <1>1, <1>4, <2>4, <2>9, ScopeFramed
    <2> QED BY <1>5, <2>4, <2>10, <2>11 DEF SInv, ScopeInv
<1>7. CASE ~(s \in Children /\ c = Target[s])
    <2>1. UNCHANGED <<adm, hold, asks, fences>> BY <1>7 DEF FinishComponent
    <2>2. Types' BY <1>1, <1>3, <2>1, TypesSplit, TypesSplitNext, Quiet DEF SInv, fenceVars
    <2> QED BY <1>1, <1>4, <1>5, <2>1, <2>2, JobMove
<1> QED BY <1>6, <1>7

(***************************************************************************)
(* The admission borrows.                                                  *)
(***************************************************************************)
LEMMA AdmitStep ==
    ASSUME SInv, NEW k \in Children, Admit(k)
    PROVE  SInv'
<1> DEFINE NewRows == {Row(k, ExecutionOwner(j), j, gen[j], FALSE) : j \in PredecessorExecutions(k)}
           NewAsks == {<<k, ExecutionOwner(j), Home[j]>> : j \in PredecessorExecutions(k)}
           NewMoved == {<<k, owner[c], c>> : c \in {d \in Scope[k] : owner[d] # None}}
<1>1. /\ asks' = asks \cup NewAsks /\ rows' = rows \cup NewRows /\ moved' = moved \cup NewMoved
      /\ owner' = [c \in Comps |-> IF c \in Scope[k] THEN k ELSE owner[c]]
      /\ may' = [may EXCEPT ![k] = UNION {FencesFor(k, c) : c \in Scope[k]}]
      /\ adm' = [adm EXCEPT ![k] = "admitted"] /\ sess' = [sess EXCEPT ![k] = "running"]
    BY DEF Admit
<1>2. UNCHANGED <<life, begun, job, gen, exec, restarts, broken, hold, over, fences>> BY DEF Admit, workVars
<1>3. SessTypes /\ PauseTypes /\ FenceTypes /\ JobTypes BY TypesSplit DEF SInv
<1>4. k \in Sessions /\ k # None BY Constants
<1>5. /\ sess[k] = "none" /\ sess'[k] = "running" /\ \A s \in Sessions \ {k} : sess'[s] = sess[s]
      /\ adm'[k] = "admitted" /\ \A i \in Children \ {k} : adm'[i] = adm[i]
    BY <1>1, <1>3, <1>4 DEF SessTypes, PauseTypes, Admit
<1>6. /\ \A c \in Scope[k] : c \in Comps /\ owner'[c] = k /\ \A j \in JobsOf(c) : job[j] # "running"
      /\ \A c \in Comps \ Scope[k] : owner'[c] = owner[c]
    BY <1>1, <1>4, Constants DEF Admit
<1>7. \A j \in PredecessorExecutions(k) :
          j \in Jobs /\ Home[j] \in Comps /\ job[j] = "running" /\ ExecutionOwner(j) \in Sessions /\ gen[j] \in Nat
    BY <1>3, Constants DEF PredecessorExecutions, ExecutionOwner, SInv, ScopeInv, Owned, JobTypes
<1>8. \A c \in Comps : owner[c] # None => owner[c] \in Sessions /\ StatusRunning(owner[c]) /\ owner[c] # k
    BY <1>3, <1>5 DEF SInv, ScopeInv, Kept, SessTypes, StatusRunning
<1>9. \A r \in NewRows : \E j \in PredecessorExecutions(k) :
          r.child = k /\ r.owner = ExecutionOwner(j) /\ r.job = j /\ r.gen = gen[j] /\ r.acked = FALSE
    BY DEF Row
<1>10. \A t \in NewMoved : t[1] = k /\ t[3] \in Scope[k] /\ t[2] = owner[t[3]] /\ owner[t[3]] # None
                           /\ t = <<k, owner[t[3]], t[3]>>
    OBVIOUS
<1>11. \A c \in Scope[k] : owner[c] # None => <<k, owner[c], c>> \in NewMoved OBVIOUS
<1>12. \A a \in NewAsks : a[1] = k OBVIOUS
<1>13. Types'
    <2>1. NewRows \subseteq PauseRows
        <3>1. ASSUME NEW j \in PredecessorExecutions(k)
              PROVE  Row(k, ExecutionOwner(j), j, gen[j], FALSE) \in PauseRows
            <4>1. j \in Jobs /\ ExecutionOwner(j) \in Sessions /\ gen[j] \in Nat BY <1>7
            <4>2. PICK o, g : o = ExecutionOwner(j) /\ g = gen[j] OBVIOUS
            <4>3. Row(k, o, j, g, FALSE) \in PauseRows BY <4>1, <4>2 DEF Row, PauseRows
            <4> QED BY <4>2, <4>3
        <3> QED BY <3>1
    <2>2. NewAsks \subseteq Children \X Sessions \X Comps BY <1>7
    <2>3. NewMoved \subseteq Children \X Sessions \X Comps BY <1>6, <1>8
    <2> HIDE DEF NewRows, NewAsks, NewMoved
    <2>4. rows' \subseteq PauseRows /\ asks' \subseteq Children \X Sessions \X Comps
        BY <1>1, <1>3, <2>1, <2>2 DEF PauseTypes
    <2>5. adm' \in [Children -> {"none", "admitted", "frozen", "settled"}] BY <1>1, <1>3 DEF PauseTypes
    <2>6. PauseTypes' BY <1>2, <1>3, <2>4, <2>5 DEF PauseTypes
    <2>7. moved' \subseteq Children \X Sessions \X Comps BY <1>1, <1>3, <2>3 DEF SessTypes
    <2>8. /\ sess' \in [Sessions -> {"none", "running", "dead", "ended"}]
          /\ owner' \in [Comps -> Sessions \cup {None}]
        BY <1>1, <1>3, <1>4 DEF SessTypes
    <2>9. SessTypes' BY <1>2, <1>3, <2>7, <2>8 DEF SessTypes
    <2>10. FenceTypes'
        <3>1. PICK F : F = UNION {FencesFor(k, c) : c \in Scope[k]} OBVIOUS
        <3>2. F \subseteq fences BY <3>1 DEF FencesFor
        <3>3. may' = [may EXCEPT ![k] = F] BY <1>1, <3>1
        <3>4. F \in SUBSET (Comps \X Children) BY <1>3, <3>2 DEF FenceTypes
        <3> QED BY <1>2, <1>3, <1>4, <3>3, <3>4 DEF FenceTypes
    <2> QED BY <1>2, <2>6, <2>9, <2>10, TypesSplit, TypesSplitNext, Quiet DEF SInv
<1>14. \A j \in Jobs : Current(j)' <=> Current(j) BY <1>2 DEF Current
<1>15. (\A r \in rows : r.child # k) /\ (\A a \in asks : a[1] # k) BY <1>5 DEF SInv, PauseInv, Fresh
<1>16. \A r \in rows : r.child \in Children /\ r.job \in Jobs BY <1>3 DEF PauseTypes, PauseRows
<1>17. \A i \in Children \ {k} : Open(i)' <=> Open(i) BY <1>5 DEF Open
<1>18. PauseInv'
    <2>1. Fresh'
        <3>1. ASSUME NEW i \in Children, sess'[i] = "none"
              PROVE  adm'[i] = "none" /\ (\A r \in rows' : r.child # i) /\ (\A a \in asks' : a[1] # i)
            <4>1. i # k /\ sess[i] = "none" BY <1>5, <3>1, Constants
            <4> HIDE DEF NewRows, NewAsks
            <4> QED BY <1>1, <1>5, <1>9, <1>12, <4>1 DEF SInv, PauseInv, Fresh
        <3> QED BY <3>1 DEF Fresh
    <2>2. Asked'
        <3> SUFFICES ASSUME NEW r \in rows', Open(r.child)' PROVE <<r.child, r.owner, Home[r.job]>> \in asks'
            BY DEF Asked
        <3>1. CASE r \in rows
            <4>1. Open(r.child) BY <1>15, <1>16, <1>17, <3>1 DEF Open
            <4> QED BY <1>1, <3>1, <4>1 DEF SInv, PauseInv, Asked
        <3>2. CASE r \in NewRows BY <1>1, <1>9, <3>2
        <3> HIDE DEF NewRows
        <3> QED BY <1>1, <3>1, <3>2
    <2>3. Recorded'
        <3> SUFFICES ASSUME NEW i \in Children, NEW j \in Jobs, Open(i)', Current(j)',
                            <<i, exec'[j].by, Home[j]>> \in asks'
                     PROVE  \E r \in rows' : r.child = i /\ r.job = j /\ r.gen = gen'[j]
            BY Zenon DEF Recorded
        <3>1. Current(j) /\ <<i, exec[j].by, Home[j]>> \in asks' BY <1>2, <1>14
        <3>2. CASE i = k
            <4>1. <<k, exec[j].by, Home[j]>> \in NewAsks BY <1>1, <1>15, <3>1, <3>2
            <4>2. j \in PredecessorExecutions(k) BY <3>1, <4>1 DEF PredecessorExecutions, Current
            <4>3. Row(k, ExecutionOwner(j), j, gen[j], FALSE) \in rows' BY <1>1, <4>2
            <4> QED BY <1>2, <3>2, <4>3 DEF Row
        <3>3. CASE i # k
            <4>1. <<i, exec[j].by, Home[j]>> \in asks BY <1>1, <3>1, <3>3
            <4>2. Open(i) BY <1>17, <3>3 DEF Open
            <4>3. PICK r \in rows : r.child = i /\ r.job = j /\ r.gen = gen[j]
                BY <3>1, <4>1, <4>2 DEF SInv, PauseInv, Recorded
            <4> QED BY <1>1, <1>2, <4>3
        <3> QED BY <3>2, <3>3
    <2> HIDE DEF NewRows, NewAsks, NewMoved
    <2>4. ASSUME NEW r \in NewRows
          PROVE  /\ r.job \in Jobs /\ r.gen \in Nat /\ r.gen = gen[r.job] /\ job[r.job] = "running"
                 /\ r.acked = FALSE /\ adm'[r.child] = "admitted"
        BY <1>5, <1>7, <1>9
    <2>5. Claimed'
        <3> SUFFICES ASSUME NEW r \in rows'
                     PROVE  r.gen <= gen'[r.job] /\ (r.gen = gen'[r.job] => job'[r.job] \notin Waiting4Claim)
            BY DEF Claimed
        <3>1. CASE r \in rows BY <1>2, <3>1 DEF SInv, PauseInv, Claimed
        <3>2. CASE r \in NewRows
            <4>1. r.gen \in Nat /\ r.gen = gen[r.job] /\ job[r.job] = "running" BY <2>4, <3>2
            <4>2. r.gen <= gen[r.job] BY <4>1
            <4> QED BY <1>2, <4>1, <4>2 DEF Waiting4Claim
        <3> QED BY <1>1, <3>1, <3>2
    <2>6. Stopped'
        <3> SUFFICES ASSUME NEW r \in rows', r.acked, Open(r.child)', r.gen = gen'[r.job], Current(r.job)'
                     PROVE  exec'[r.job].at = "paused"
            BY DEF Stopped
        <3>1. r \in rows BY <1>1, <2>4
        <3>2. Open(r.child) BY <1>15, <1>16, <1>17, <3>1 DEF Open
        <3>3. Current(r.job) BY <1>14, <1>16, <3>1 DEF Current
        <3> QED BY <1>2, <3>1, <3>2, <3>3 DEF SInv, PauseInv, Stopped
    <2>7. AllAcked'
        <3> SUFFICES ASSUME NEW r \in rows', adm'[r.child] = "frozen" PROVE r.acked BY DEF AllAcked
        <3>1. r \in rows BY <1>1, <2>4
        <3>2. adm[r.child] = "frozen" BY <1>5, <1>15, <1>16, <3>1
        <3> QED BY <3>1, <3>2 DEF SInv, PauseInv, AllAcked
    <2>8. Holds' BY <1>2, <1>5 DEF SInv, PauseInv, Holds
    <2> QED BY <2>1, <2>2, <2>3, <2>5, <2>6, <2>7, <2>8 DEF PauseInv
<1>19. Owned'
    <2>1. ASSUME NEW i \in Jobs, job'[i] = "running" PROVE Steady(i)
        <3>1. job[i] = "running" /\ Home[i] \in Comps BY <1>2, <2>1, Constants
        <3>2. Home[i] \notin Scope[k] BY <1>6, <3>1 DEF JobsOf
        <3>3. owner[Home[i]] \in Sessions BY <3>1 DEF SInv, ScopeInv, Owned
        <3>4. sess[owner[Home[i]]] = "dead" => sess'[owner[Home[i]]] = "dead" BY <1>5, <3>3
        <3> QED BY <1>2, <1>6, <3>1, <3>2, <3>4 DEF Steady
    <2> QED BY <2>1, OwnedOnward
<1> HIDE DEF NewRows, NewAsks, NewMoved
<1>20. \A t \in moved : t[1] \in Children /\ t[2] \in Sessions /\ t[3] \in Comps BY <1>3 DEF SessTypes
<1>21. \A t \in moved : StatusRunning(t[1]) /\ sess[t[2]] # "none" /\ owner[t[3]] # t[2] /\ t[1] # k /\ t[2] # k
    BY <1>5 DEF SInv, ScopeInv, Chained, StatusRunning
<1>22. \A s \in Sessions : StatusRunning(s) => StatusRunning(s)' BY <1>5 DEF StatusRunning
<1>23. Chained'
    <2>1. ASSUME NEW t \in moved'
          PROVE  StatusRunning(t[1])' /\ sess'[t[2]] # "none" /\ owner'[t[3]] # t[2]
        <3>1. CASE t \in moved
            <4>1. owner'[t[3]] # t[2] BY <1>6, <1>20, <1>21, <3>1
            <4>2. sess'[t[2]] # "none" BY <1>5, <1>20, <1>21, <3>1
            <4>3. sess'[t[1]] = sess[t[1]] /\ StatusRunning(t[1]) BY <1>5, <1>20, <1>21, <3>1, Constants
            <4> QED BY <4>1, <4>2, <4>3 DEF StatusRunning
        <3>2. CASE t \in NewMoved
            <4>1. t[1] = k /\ t[3] \in Scope[k] /\ t[2] = owner[t[3]] /\ owner[t[3]] # None /\ t[3] \in Comps
                BY <1>6, <1>10, <3>2
            <4>2. t[2] \in Sessions /\ StatusRunning(t[2]) /\ t[2] # k BY <1>8, <4>1
            <4>3. sess'[t[2]] # "none" BY <1>5, <4>2 DEF StatusRunning
            <4>4. owner'[t[3]] # t[2] BY <1>6, <4>1, <4>2
            <4>5. StatusRunning(t[1])' BY <1>5, <4>1 DEF StatusRunning
            <4> QED BY <4>3, <4>4, <4>5
        <3> QED BY <1>1, <3>1, <3>2
    <2>2. ASSUME NEW t \in moved', NEW u \in moved', t[3] = u[3], t[1] = u[1] \/ t[2] = u[2] PROVE t = u
        <3>1. CASE t \in moved /\ u \in moved BY <2>2, <3>1 DEF SInv, ScopeInv, Chained
        <3>2. CASE t \in NewMoved /\ u \in NewMoved BY <1>10, <2>2, <3>2
        <3>3. CASE t \in moved /\ u \in NewMoved
            <4>1. u[1] = k /\ u[2] = owner[u[3]] BY <1>10, <3>3
            <4> QED BY <1>21, <2>2, <3>3, <4>1
        <3>4. CASE t \in NewMoved /\ u \in moved
            <4>1. t[1] = k /\ t[2] = owner[t[3]] BY <1>10, <3>4
            <4> QED BY <1>21, <2>2, <3>4, <4>1
        <3> QED BY <1>1, <3>1, <3>2, <3>3, <3>4
    <2> QED BY <2>1, <2>2 DEF Chained
<1>24. Kept'
    <2>1. ASSUME NEW s \in Sessions, StatusRunning(s)' PROVE ScopeExact(s)'
        <3> SUFFICES ASSUME NEW c \in Scope[s] PROVE owner'[c] \in Descends(s, c)' BY DEF ScopeExact
        <3>1. c \in Comps BY Constants
        <3>2. PICK X : X = Descends(s, c)' OBVIOUS
        <3>3. s \in X /\ Lent(X, c)' \subseteq X BY <3>1, <3>2, ReachableNext DEF Reach
        <3>4. CASE s = k BY <1>6, <3>2, <3>3, <3>4
        <3>5. CASE s # k
            <4>1. StatusRunning(s) BY <1>5, <2>1, <3>5 DEF StatusRunning
            <4>2. owner[c] \in Descends(s, c) BY <4>1 DEF SInv, ScopeInv, Kept, ScopeExact
            <4>3. owner[c] \in Sessions BY <3>1, <4>2, Reachable DEF Reach
            <4>4. Descends(s, c) \subseteq X
                <5>1. \A i \in Children, t \in Sessions : <<i, t, c>> \in moved /\ StatusRunning(i) =>
                          <<i, t, c>> \in moved' /\ StatusRunning(i)'
                    BY <1>1, <1>22, Constants
                <5> QED BY <3>1, <3>2, <5>1, ReachGrows
            <4>5. CASE c \notin Scope[k] BY <1>6, <3>1, <3>2, <4>2, <4>4, <4>5
            <4>6. CASE c \in Scope[k]
                <5>1. owner[c] # None BY <4>3, Constants
                <5>2. <<k, owner[c], c>> \in moved' BY <1>1, <1>11, <4>6, <5>1
                <5>3. k \in Lent(X, c)' BY <1>5, <4>2, <4>4, <5>2 DEF Lent, StatusRunning
                <5> QED BY <1>6, <3>2, <3>3, <4>6, <5>3
            <4> QED BY <4>5, <4>6
        <3> QED BY <3>4, <3>5
    <2>2. ASSUME NEW c \in Comps
          PROVE  /\ owner'[c] # None => sess'[owner'[c]] \in {"running", "dead"}
                 /\ hold'[c] # None => sess'[hold'[c]] \in {"running", "dead"}
        <3>1. hold[c] # None => hold[c] \in Sessions /\ StatusRunning(hold[c])
            BY <1>3, Constants DEF SInv, ScopeInv, Kept, PauseTypes
        <3>2. \A s \in Sessions : StatusRunning(s) => sess'[s] \in {"running", "dead"}
            BY <1>5 DEF StatusRunning
        <3>3. owner'[c] = k \/ owner'[c] = owner[c] BY <1>6
        <3> QED BY <1>2, <1>5, <1>8, <3>1, <3>2, <3>3
    <2>3. ASSUME NEW i \in Children, NEW a \in asks', sess'[i] = "ended" PROVE a[1] # i
        <3>1. i # k /\ sess[i] = "ended" BY <1>5, <2>3, Constants
        <3> QED BY <1>1, <1>12, <3>1 DEF SInv, ScopeInv, Kept
    <2> QED BY <2>1, <2>2, <2>3 DEF Kept, StatusRunning
<1> QED BY <1>13, <1>18, <1>19, <1>23, <1>24 DEF SInv, ScopeInv

(***************************************************************************)
(* The settlement returns.  What a session has borrowed goes to the one it *)
(* has it from, and nobody further up the chain misses it.                 *)
(***************************************************************************)
LEMMA Returning ==
    ASSUME SInv, NEW s \in Sessions, NEW c \in Comps, NEW t, <<s, t, c>> \in moved, sess[t] = "running"
    PROVE  Returned(s, c) = t
<1>1. PICK u : u = <<s, t, c>> OBVIOUS
<1>2. u \in Borrowed(s) /\ u[3] = c /\ u[2] = t BY <1>1 DEF Borrowed
<1>3. \A v \in Borrowed(s) : v[3] = c => v = u
    BY <1>1 DEF Borrowed, SInv, ScopeInv, Chained
<1>4. PICK w : w = CHOOSE v \in Borrowed(s) : v[3] = c OBVIOUS
<1>5. w \in Borrowed(s) /\ w[3] = c BY <1>2, <1>4
<1>6. w = u BY <1>3, <1>5
<1>7. \E v \in Borrowed(s) : v[3] = c /\ sess[v[2]] = "running" BY <1>2
<1> QED BY <1>2, <1>4, <1>6, <1>7 DEF Returned

LEMMA ReturnedTo ==
    ASSUME SInv, NEW s \in Sessions, NEW c \in Comps, Returned(s, c) # None
    PROVE  /\ <<s, Returned(s, c), c>> \in moved /\ sess[Returned(s, c)] = "running"
           /\ Returned(s, c) \in Sessions
<1>1. PICK v \in Borrowed(s) : v[3] = c /\ sess[v[2]] = "running" BY DEF Returned
<1>2. v \in moved /\ v \in Children \X Sessions \X Comps /\ v[1] = s
    BY <1>1 DEF Borrowed, SInv, Types, TypeOK
<1>3. v = <<s, v[2], c>> /\ v[2] \in Sessions BY <1>1, <1>2
<1>4. PICK t : t = v[2] OBVIOUS
<1>5. Returned(s, c) = t BY <1>1, <1>2, <1>3, <1>4, Returning
<1> QED BY <1>1, <1>2, <1>3, <1>4, <1>5

LEMMA AllRunning ==
    ASSUME SInv, NEW p \in Sessions, NEW c \in Comps, StatusRunning(p)
    PROVE  \A t \in Descends(p, c) : StatusRunning(t)
<1>1. PICK X : X = {q \in Sessions : StatusRunning(q)} OBVIOUS
<1>2. Lent(X, c) \subseteq X BY <1>1, Constants DEF Lent
<1>3. Descends(p, c) \subseteq X BY <1>1, <1>2, Reachable DEF Reach
<1> QED BY <1>1, <1>3

(* Who has borrowed the component has it from one further up.              *)
LEMMA LentBy ==
    ASSUME SInv, NEW p \in Sessions, NEW s \in Sessions, NEW c \in Comps, p # s, s \in Descends(p, c)
    PROVE  s \in Children /\ \E t \in Descends(p, c) \ {s} : <<s, t, c>> \in moved
<1>1. PICK X : X = Descends(p, c) \ {s} OBVIOUS
<1>2. p \in X /\ X \in SUBSET Sessions /\ Lent(Descends(p, c), c) \subseteq Descends(p, c)
    BY <1>1, Reachable DEF Reach
<1>3. s \in Lent(X, c)
    <2>1. SUFFICES ASSUME s \notin Lent(X, c) PROVE FALSE OBVIOUS
    <2>2. Lent(X, c) \subseteq X
        <3>1. Lent(X, c) \subseteq Lent(Descends(p, c), c) BY <1>1, LentGrows
        <3> QED BY <1>1, <1>2, <2>1, <3>1
    <2>3. Descends(p, c) \subseteq X BY <1>2, <2>2, Reachable DEF Reach
    <2> QED BY <1>1, <2>3
<1> QED BY <1>1, <1>3 DEF Lent

LEMMA SettleStep ==
    ASSUME SInv, NEW s \in Sessions, StatusRunning(s), SettleAllowed(s), Settle(s), JobTypes',
           \A i \in Jobs : Calm(i),
           \A i \in Jobs : job'[i] = "running" => owner[Home[i]] # s /\ StillAt(i)
    PROVE  SInv'
<1>1. /\ sess' = [sess EXCEPT ![s] = "ended"] /\ moved' = moved \ Borrowed(s)
      /\ owner' = [c \in Comps |-> IF owner[c] = s THEN Returned(s, c) ELSE owner[c]]
      /\ hold' = Unheld(s) /\ asks' = Unasked(s)
      /\ adm' = IF s \in Children THEN [adm EXCEPT ![s] = "settled"] ELSE adm
      /\ life' = [c \in Comps |-> IF owner[c] = s /\ life[c] = "running" THEN "failed" ELSE life[c]]
      /\ UNCHANGED <<begun, broken, rows, over, fenceVars>>
    BY DEF Settle, TransfersAfter
<1>2. SessTypes /\ PauseTypes /\ CompTypes BY TypesSplit DEF SInv
<1>3. sess'[s] = "ended" /\ \A q \in Sessions \ {s} : sess'[q] = sess[q] BY <1>1, <1>2 DEF SessTypes
<1>4. /\ \A k \in Children \ {s} : adm'[k] = adm[k]
      /\ s \in Children => adm'[s] = "settled"
    BY <1>1, <1>2 DEF PauseTypes
<1>5. \A c \in Comps : /\ owner[c] = s => owner'[c] = Returned(s, c)
                       /\ owner[c] # s => owner'[c] = owner[c]
    BY <1>1
<1>6. \A c \in Comps : Returned(s, c) # None =>
          <<s, Returned(s, c), c>> \in moved /\ sess[Returned(s, c)] = "running" /\ Returned(s, c) \in Sessions
    BY ReturnedTo
<1>7. \A t \in moved : t[1] # s => t \in moved' BY <1>1 DEF Borrowed
<1>8. \A t \in moved' : t \in moved /\ t[1] # s BY <1>1 DEF Borrowed
<1>9. \A t \in moved : /\ t[1] \in Children /\ t[2] \in Sessions /\ t[3] \in Comps /\ t = <<t[1], t[2], t[3]>>
                       /\ StatusRunning(t[1]) /\ sess[t[2]] # "none" /\ owner[t[3]] # t[2]
    BY <1>2 DEF SInv, ScopeInv, Chained, SessTypes
<1>10. \A c \in Comps, t \in Sessions : <<s, t, c>> \in moved => owner[c] = s /\ sess[t] # "dead"
    BY DEF SettleAllowed, Borrowed
<1>11. Types'
    <2>1. CompTypes' BY <1>1, <1>2 DEF CompTypes
    <2>2. owner' \in [Comps -> Sessions \cup {None}]
        <3>1. \A c \in Comps : owner'[c] \in Sessions \cup {None} BY <1>2, <1>5, <1>6 DEF SessTypes
        <3> QED BY <1>1, <3>1
    <2>3. SessTypes' BY <1>1, <1>2, <2>2 DEF SessTypes
    <2>4. adm' \in [Children -> {"none", "admitted", "frozen", "settled"}] BY <1>1, <1>2 DEF PauseTypes
    <2>5. hold' \in [Comps -> Children \cup {None}] BY <1>1, <1>2 DEF PauseTypes, Unheld
    <2>6. PauseTypes' BY <1>1, <1>2, <2>4, <2>5 DEF PauseTypes, Unasked
    <2> QED BY <1>1, <2>1, <2>3, <2>6, TypesSplit, TypesSplitNext, Quiet DEF SInv
<1>12. PauseInv'
    <2>1. \A k \in Children : sess'[k] = "none" => sess[k] = "none" /\ adm'[k] = adm[k]
        BY <1>3, <1>4, Constants
    <2>2. \A k \in Children : Open(k)' => adm'[k] = adm[k] /\ \A a \in asks : a[1] = k => a \in asks'
        BY <1>1, <1>4 DEF Open, Unasked
    <2>3. ASSUME NEW k \in Children, adm'[k] = "frozen" PROVE hold'[Target[k]] = hold[Target[k]]
        <3>1. k # s /\ adm[k] = "frozen" BY <1>4, <2>3
        <3>2. hold[Target[k]] = k /\ Target[k] \in Comps BY <3>1, Constants DEF SInv, PauseInv, Holds
        <3> QED BY <1>1, <3>1, <3>2 DEF Unheld
    <2>4. asks' \subseteq asks BY <1>1 DEF Unasked
    <2> QED BY <1>1, <1>11, <2>1, <2>2, <2>3, <2>4, PauseOnward
<1>13. Owned'
    <2>1. ASSUME NEW i \in Jobs, job'[i] = "running" PROVE Steady(i)
        <3>1. owner[Home[i]] # s /\ StillAt(i) /\ job[i] = "running" /\ Home[i] \in Comps
            BY <2>1, Constants DEF StillAt
        <3>2. owner[Home[i]] \in Sessions BY <3>1 DEF SInv, ScopeInv, Owned
        <3>3. sess'[owner[Home[i]]] = sess[owner[Home[i]]] BY <1>3, <3>1, <3>2
        <3> QED BY <1>5, <3>1, <3>3 DEF Steady, StillAt
    <2> QED BY <2>1, OwnedOnward
<1>14. Chained'
    <2>1. ASSUME NEW t \in moved'
          PROVE  StatusRunning(t[1])' /\ sess'[t[2]] # "none" /\ owner'[t[3]] # t[2]
        <3>1. t \in moved /\ t[1] # s /\ t[1] \in Sessions /\ t[2] \in Sessions /\ t[3] \in Comps
            BY <1>8, <1>9, Constants
        <3>2. StatusRunning(t[1]) /\ sess[t[2]] # "none" /\ owner[t[3]] # t[2] BY <1>9, <3>1
        <3>3. StatusRunning(t[1])' BY <1>3, <3>1, <3>2 DEF StatusRunning
        <3>4. sess'[t[2]] # "none" BY <1>3, <3>1, <3>2
        <3>5. CASE owner[t[3]] # s BY <1>5, <3>1, <3>2, <3>3, <3>4, <3>5
        <3>6. CASE owner[t[3]] = s
            <4>1. SUFFICES ASSUME Returned(s, t[3]) = t[2] PROVE FALSE BY <1>5, <3>1, <3>3, <3>4, <3>6
            <4>2. t[2] # None BY <3>1, Constants
            <4>3. PICK u : u = <<s, t[2], t[3]>> OBVIOUS
            <4>4. u \in moved BY <1>6, <3>1, <4>1, <4>2, <4>3
            <4>5. u[1] = s /\ u[2] = t[2] /\ u[3] = t[3] BY <4>3
            <4>6. t = u BY <3>1, <4>4, <4>5 DEF SInv, ScopeInv, Chained
            <4> QED BY <3>1, <4>5, <4>6
        <3> QED BY <3>5, <3>6
    <2>2. \A t, u \in moved' : t[3] = u[3] /\ (t[1] = u[1] \/ t[2] = u[2]) => t = u
        BY <1>8 DEF SInv, ScopeInv, Chained
    <2> QED BY <2>1, <2>2 DEF Chained
<1>15. Kept'
    <2>1. ASSUME NEW p \in Sessions, StatusRunning(p)' PROVE ScopeExact(p)'
        <3> SUFFICES ASSUME NEW c \in Scope[p] PROVE owner'[c] \in Descends(p, c)' BY DEF ScopeExact
        <3>1. c \in Comps BY Constants
        <3>2. p # s /\ StatusRunning(p) BY <1>3, <2>1 DEF StatusRunning
        <3>3. owner[c] \in Descends(p, c) /\ owner[c] \in Sessions
            <4>1. owner[c] \in Descends(p, c) BY <3>2 DEF SInv, ScopeInv, Kept, ScopeExact
            <4> QED BY <3>1, <4>1, Reachable DEF Reach
        <3>4. CASE owner[c] # s
            <4>1. ASSUME NEW k \in Children, NEW t \in Sessions, <<k, t, c>> \in moved, StatusRunning(k)
                  PROVE  <<k, t, c>> \in moved' /\ StatusRunning(k)'
                <5>1. k # s /\ k \in Sessions BY <1>10, <3>1, <3>4, <4>1, Constants
                <5> QED BY <1>3, <1>7, <4>1, <5>1 DEF StatusRunning
            <4>2. Descends(p, c) \subseteq Descends(p, c)' BY <3>1, <4>1, ReachGrows
            <4> QED BY <1>5, <3>1, <3>3, <3>4, <4>2
        <3>5. CASE owner[c] = s
            <4>1. PICK t \in Descends(p, c) \ {s} : <<s, t, c>> \in moved BY <3>1, <3>2, <3>3, <3>5, LentBy
            <4>2. t \in Sessions BY <3>1, <4>1, Reachable DEF Reach
            <4>3. sess[t] = "running"
                <5>1. StatusRunning(t) BY <3>1, <3>2, <4>1, AllRunning
                <5> QED BY <1>10, <3>1, <4>1, <4>2, <5>1 DEF StatusRunning
            <4>4. owner'[c] = t BY <1>5, <3>1, <3>5, <4>1, <4>3, Returning
            <4>5. PICK X : X = Descends(p, c)' OBVIOUS
            <4>6. p \in X /\ X \in SUBSET Sessions /\ Lent(X, c)' \subseteq X BY <3>1, <4>5, ReachableNext DEF Reach
            <4>7. PICK Y : Y = X \cup {s} OBVIOUS
            <4>8. ASSUME NEW k \in Lent(Y, c) PROVE k \in Y
                <5>1. k \in Children /\ StatusRunning(k) BY DEF Lent
                <5>2. PICK u \in Y : <<k, u, c>> \in moved BY DEF Lent
                <5>3. CASE k = s BY <4>7, <5>3
                <5>4. CASE k # s
                    <6>1. PICK v : v = <<k, u, c>> OBVIOUS
                    <6>2. v \in moved /\ v[1] = k /\ v[2] = u /\ v[3] = c BY <5>2, <6>1
                    <6>3. u # s BY <1>9, <3>5, <6>2
                    <6>4. <<k, u, c>> \in moved' BY <1>7, <5>4, <6>1, <6>2
                    <6>5. StatusRunning(k)' BY <1>3, <5>1, <5>4, Constants DEF StatusRunning
                    <6>6. k \in Lent(X, c)' BY <4>7, <5>1, <5>2, <6>3, <6>4, <6>5 DEF Lent
                    <6> QED BY <4>6, <4>7, <6>6
                <5> QED BY <5>3, <5>4
            <4>9. Descends(p, c) \subseteq Y
                <5>1. p \in Y /\ Y \in SUBSET Sessions /\ Lent(Y, c) \subseteq Y BY <4>6, <4>7, <4>8
                <5> QED BY <3>1, <5>1, Reachable DEF Reach
            <4> QED BY <4>1, <4>4, <4>5, <4>7, <4>9
        <3> QED BY <3>4, <3>5
    <2>2. ASSUME NEW c \in Comps
          PROVE  /\ owner'[c] # None => sess'[owner'[c]] \in {"running", "dead"}
                 /\ hold'[c] # None => sess'[hold'[c]] \in {"running", "dead"}
        <3>1. \A q \in Sessions \ {s} : StatusRunning(q) => sess'[q] \in {"running", "dead"}
            BY <1>3 DEF StatusRunning
        <3>2. ASSUME owner'[c] # None PROVE sess'[owner'[c]] \in {"running", "dead"}
            <4>1. CASE owner[c] # s
                <5>1. owner'[c] = owner[c] /\ owner[c] \in Sessions /\ StatusRunning(owner[c])
                    BY <1>2, <1>5, <3>2, <4>1 DEF SInv, ScopeInv, Kept, SessTypes
                <5> QED BY <3>1, <4>1, <5>1
            <4>2. CASE owner[c] = s
                <5>1. PICK t : t = Returned(s, c) OBVIOUS
                <5>2. owner'[c] = t /\ <<s, t, c>> \in moved /\ sess[t] = "running" /\ t \in Sessions
                    BY <1>5, <1>6, <3>2, <4>2, <5>1
                <5>3. t # s
                    <6>1. PICK v : v = <<s, t, c>> OBVIOUS
                    <6>2. v \in moved /\ v[2] = t /\ v[3] = c BY <5>2, <6>1
                    <6> QED BY <1>9, <4>2, <6>2
                <5> QED BY <1>3, <5>2, <5>3
            <4> QED BY <4>1, <4>2
        <3>3. ASSUME hold'[c] # None PROVE sess'[hold'[c]] \in {"running", "dead"}
            <4>1. hold'[c] = hold[c] /\ hold[c] # s BY <1>1, <3>3 DEF Unheld
            <4>2. hold[c] \in Sessions /\ StatusRunning(hold[c])
                BY <1>2, <3>3, <4>1, Constants DEF SInv, ScopeInv, Kept, PauseTypes
            <4> QED BY <3>1, <4>1, <4>2
        <3> QED BY <3>2, <3>3
    <2>3. ASSUME NEW k \in Children, NEW a \in asks', sess'[k] = "ended" PROVE a[1] # k
        <3>1. CASE k = s BY <1>1, <3>1 DEF Unasked
        <3>2. CASE k # s
            <4>1. sess[k] = "ended" /\ a \in asks BY <1>1, <1>3, <2>3, <3>2, Constants DEF Unasked
            <4> QED BY <4>1 DEF SInv, ScopeInv, Kept
        <3> QED BY <3>1, <3>2
    <2> QED BY <2>1, <2>2, <2>3 DEF Kept, StatusRunning
<1> QED BY <1>11, <1>12, <1>13, <1>14, <1>15 DEF SInv, ScopeInv

LEMMA ExitStep ==
    ASSUME SInv, NEW s \in Sessions, Exit(s)
    PROVE  SInv'
<1>1. UNCHANGED <<job, gen, exec, restarts>> /\ Settle(s) /\ SettleAllowed(s) /\ sess[s] = "running"
    BY DEF Exit, Settle
<1>2. JobTypes' BY <1>1, TypesSplit, Quiet DEF SInv
<1>3. ASSUME NEW i \in Jobs PROVE Calm(i) BY <1>1, StillCalm DEF SInv
<1>4. ASSUME NEW i \in Jobs, job'[i] = "running" PROVE owner[Home[i]] # s /\ StillAt(i)
    <2>1. job[i] = "running" BY <1>1, <1>4
    <2>2. exec[i].by # s BY DEF Exit, Ending
    <2> QED BY <1>1, <2>1, <2>2 DEF StillAt, SInv, ScopeInv, Owned
<1>5. StatusRunning(s) BY <1>1 DEF StatusRunning
<1> QED BY <1>1, <1>2, <1>3, <1>4, <1>5, SettleStep

LEMMA RecoverStep ==
    ASSUME SInv, NEW s \in Sessions, Recover(s)
    PROVE  SInv'
<1>1. UNCHANGED <<exec, restarts>> /\ Settle(s) /\ SettleAllowed(s) /\ sess[s] = "dead"
    BY DEF Recover, Settle
<1>2. JobTypes BY TypesSplit DEF SInv
<1>3. \A i \in Jobs : IF i \in Abandoned(s) THEN job'[i] = "queued" /\ gen'[i] = gen[i] + 1
                      ELSE job'[i] = job[i] /\ gen'[i] = gen[i]
    BY DEF Recover
<1>4. JobTypes'
    <2>1. job' \in [Jobs -> {"absent", "queued", "running", "done", "failed"}] BY <1>2 DEF Recover, JobTypes
    <2>2. gen' \in [Jobs -> Nat] BY <1>2 DEF Recover, JobTypes
    <2>3. ASSUME NEW i \in Jobs PROVE exec'[i].gen \in 0 .. gen'[i]
        <3>1. exec[i].gen \in 0 .. gen[i] /\ gen[i] \in Nat BY <1>2 DEF JobTypes, ExecOK
        <3>2. gen'[i] \in Nat /\ gen'[i] >= gen[i] BY <1>3, <3>1
        <3> QED BY <1>1, <3>1, <3>2
    <2>4. ExecOK' BY <1>1, <1>2, <2>3 DEF JobTypes, ExecOK
    <2> QED BY <1>1, <1>2, <2>1, <2>2, <2>4 DEF JobTypes
<1>5. ASSUME NEW i \in Jobs PROVE Calm(i)
    <2>1. CASE i \in Abandoned(s)
        <3>1. job'[i] = "queued" /\ gen'[i] = gen[i] + 1 /\ gen[i] \in Nat BY <1>2, <1>3, <2>1 DEF JobTypes
        <3>2. ~Current(i)' BY <3>1 DEF Current
        <3> QED BY <3>1, <3>2 DEF Calm
    <2>2. CASE i \notin Abandoned(s) BY <1>1, <1>3, <2>2, StillCalm DEF SInv
    <2> QED BY <2>1, <2>2
<1>6. ASSUME NEW i \in Jobs, job'[i] = "running" PROVE owner[Home[i]] # s /\ StillAt(i)
    <2>1. i \notin Abandoned(s) BY <1>3, <1>6
    <2>2. StillAt(i) /\ job[i] = "running" BY <1>1, <1>3, <1>6, <2>1 DEF StillAt
    <2> QED BY <2>1, <2>2 DEF Abandoned
<1>7. StatusRunning(s) BY <1>1 DEF StatusRunning
<1> QED BY <1>1, <1>4, <1>5, <1>6, <1>7, SettleStep

(***************************************************************************)
(* The theorems.                                                           *)
(***************************************************************************)
LEMMA SInvInit == Init => SInv
<1> SUFFICES ASSUME Init PROVE SInv OBVIOUS
<1> USE DEF Init
<1>1. JobTypes
    <2>1. \A j \in Jobs : exec[j] = Idle OBVIOUS
    <2>2. exec \in [Jobs -> Attempts] BY IdleTyped
    <2>3. ExecOK BY <2>1, <2>2, IdleTyped DEF ExecOK
    <2> QED BY <2>3, ScopeAssumption DEF JobTypes
<1>2. CompTypes /\ SessTypes /\ PauseTypes /\ FenceTypes
    BY Constants DEF CompTypes, SessTypes, PauseTypes, FenceTypes
<1>3. Types BY <1>1, <1>2, TypesSplit
<1>4. PauseInv
    BY DEF PauseInv, Fresh, Asked, Recorded, Claimed, Stopped, AllAcked, Holds, Open
<1>5. Owned BY DEF Owned
<1>6. Chained BY DEF Chained
<1>7. Kept
    <2>1. \A s \in Sessions : StatusRunning(s) => s = Main BY DEF StatusRunning
    <2>2. ScopeExact(Main)
        <3> SUFFICES ASSUME NEW c \in Scope[Main] PROVE owner[c] \in Descends(Main, c) BY DEF ScopeExact
        <3>1. c \in Comps /\ Main \in Sessions BY Constants
        <3> QED BY <3>1, Reachable DEF Reach
    <2>3. \A c \in Comps : owner[c] # None => owner[c] = Main OBVIOUS
    <2>4. StatusRunning(Main) BY Constants DEF StatusRunning
    <2> QED BY <2>1, <2>2, <2>3, <2>4 DEF Kept
<1> QED BY <1>3, <1>4, <1>5, <1>6, <1>7 DEF SInv, ScopeInv

LEMMA SInvNext == SInv /\ [Next]_vars => SInv'
<1> SUFFICES ASSUME SInv, [Next]_vars PROVE SInv' OBVIOUS
<1>1. ASSUME NEW s \in Sessions, SessionStep(s) PROVE SInv'
    <2>1. ASSUME NEW c \in Comps, BeginComponent(s, c) PROVE SInv' BY <2>1, BeginStep
    <2>2. ASSUME NEW c \in Comps, FinishComponent(s, c) PROVE SInv' BY <2>2, FinishStep
    <2>3. ASSUME NEW j \in Jobs, Claim(s, j) PROVE SInv' BY <2>3, ClaimStep
    <2>4. ASSUME NEW j \in Jobs, ClaimRefused(s, j) PROVE SInv' BY <2>4, BrokenStep DEF ClaimRefused
    <2>5. ASSUME Exit(s) PROVE SInv' BY <2>5, ExitStep
    <2>6. ASSUME ExitRefused(s) PROVE SInv' BY <2>6, RefusedStep
    <2> QED BY <1>1, <2>1, <2>2, <2>3, <2>4, <2>5, <2>6 DEF SessionStep
<1>2. ASSUME NEW s \in Sessions, Recover(s) PROVE SInv' BY <1>2, RecoverStep
<1>3. ASSUME NEW j \in Jobs, JobStep(j) PROVE SInv'
    <2>1. ASSUME ReadPauses(j) PROVE SInv' BY <2>1, PlaceStep DEF ReadPauses
    <2>2. ASSUME AcknowledgePauses(j) PROVE SInv' BY <2>2, AcknowledgeStep
    <2>3. ASSUME LeavePause(j) PROVE SInv' BY <2>3, PlaceStep DEF LeavePause, Waiting
    <2>4. ASSUME Unwind(j) PROVE SInv' BY <2>4, UnwindStep
    <2>5. ASSUME Publish(j) PROVE SInv' BY <2>5, PublishStep
    <2>6. ASSUME FinishJob(j) PROVE SInv' BY <2>6, EndStep DEF FinishJob
    <2>7. ASSUME FailJob(j) PROVE SInv' BY <2>7, EndStep DEF FailJob
    <2> QED BY <1>3, <2>1, <2>2, <2>3, <2>4, <2>5, <2>6, <2>7 DEF JobStep
<1>4. ASSUME NEW s \in Sessions, Die(s) PROVE SInv' BY <1>4, DieStep
<1>5. ASSUME NEW k \in Children, Admit(k) PROVE SInv' BY <1>5, AdmitStep
<1>6. ASSUME NEW k \in Children, FreezeStep(k) PROVE SInv'
    <2>1. ASSUME ObserveParents(k) PROVE SInv' BY <2>1, LoopStep DEF ObserveParents
    <2>2. ASSUME FreezeRetry(k) PROVE SInv' BY <2>2, LoopStep DEF FreezeRetry
    <2>3. ASSUME FreezeRefused(k) PROVE SInv' BY <2>3, BrokenStep, Constants DEF FreezeRefused
    <2>4. ASSUME Freeze(k) PROVE SInv' BY <2>4, FreezeMove
    <2> QED BY <1>6, <2>1, <2>2, <2>3, <2>4 DEF FreezeStep
<1>7. ASSUME NEW j \in Jobs, RestartJob(j) PROVE SInv' BY <1>7, RestartStep
<1>8. ASSUME UNCHANGED vars PROVE SInv' BY <1>8, LoopStep DEF vars, pauseVars
<1> QED BY <1>1, <1>2, <1>3, <1>4, <1>5, <1>6, <1>7, <1>8 DEF Next, WorkStep

(* The inductive invariant holds: what is asked is recorded, what is       *)
(* acknowledged waits, and the transfers are chains that account for every *)
(* component of every session (interrupt_coordination.py,                  *)
(* interrupt_scope_transfers).                                             *)
THEOREM InterruptInvariance == Spec => []SInv
BY SInvInit, SInvNext, PTL DEF Spec

(* While a target is frozen, the attempts of its predecessors that it      *)
(* asked to pause stand at their checkpoints, whatever is restarted,       *)
(* claimed, recovered or released meanwhile (freeze_interrupt_target).     *)
THEOREM PauseSafety == Spec => []PausedStandStill
<1>1. ASSUME SInv PROVE PausedStandStill
    <2> SUFFICES ASSUME NEW k \in Children, NEW j \in Jobs, adm[k] = "frozen", Current(j),
                        <<k, exec[j].by, Home[j]>> \in asks
                 PROVE  exec[j].at = "paused"
        BY DEF PausedStandStill
    <2>1. Open(k) BY DEF Open
    <2>2. PICK r \in rows : r.child = k /\ r.job = j /\ r.gen = gen[j] BY <1>1, <2>1 DEF SInv, PauseInv, Recorded
    <2>3. r.acked BY <1>1, <2>2 DEF SInv, PauseInv, AllAcked
    <2> QED BY <1>1, <2>1, <2>2, <2>3 DEF SInv, PauseInv, Stopped
<1> QED BY <1>1, InterruptInvariance, PTL

(* No reservation is lost or kept too long: every session that is recorded *)
(* as running has its scope, itself or through those it was lent to, for   *)
(* any depth of nesting (require_admitted_reservation_scope), and one that *)
(* has ended has left nothing behind.                                      *)
THEOREM ScopeSafety == Spec => []ScopeAccounted
<1>1. ASSUME SInv PROVE ScopeAccounted
    <2>1. \A k \in Children : sess[k] = "ended" => \A t \in moved : t[1] # k
        BY <1>1 DEF SInv, ScopeInv, Chained, StatusRunning
    <2> QED BY <1>1, <2>1 DEF SInv, ScopeInv, Kept, Types, ScopeAccounted
<1> QED BY <1>1, InterruptInvariance, PTL

(* What an interrupt froze stays frozen: until it lets go, a job is added  *)
(* to its target by its own attempts alone                                 *)
(* (_refuse_interrupt_held_publication).                                   *)
THEOREM FrozenSafety == Spec => FrozenInput
<1> DEFINE Own == \A k \in Children : adm[k] = "frozen" /\ adm'[k] = "frozen" =>
                     \A j \in JobsOf(Target[k]) : job[j] = "absent" /\ job'[j] # "absent" =>
                         \E i \in Jobs : j \in Feeds[i] /\ exec[i].by = k
<1>1. ASSUME SInv, [Next]_vars PROVE Own
    <2> SUFFICES ASSUME NEW k \in Children, adm[k] = "frozen", NEW j \in JobsOf(Target[k]),
                        job[j] = "absent", job'[j] # "absent"
                 PROVE  \E i \in Jobs : j \in Feeds[i] /\ exec[i].by = k
        OBVIOUS
    <2>1. j \in Jobs /\ Home[j] = Target[k] BY DEF JobsOf
    <2>2. job' # job OBVIOUS
    <2>3. JobTypes BY <1>1, TypesSplit DEF SInv
    <2>4. ASSUME NEW i \in Jobs, Publish(i) PROVE j \in Feeds[i] /\ exec[i].by = k
        <3>1. PICK n \in Feeds[i] : ~Held(i, n) /\ job' = [job EXCEPT ![n] = "queued"] BY <2>4 DEF Publish
        <3>2. n = j BY <2>1, <2>3, <3>1 DEF JobTypes
        <3>3. hold[Target[k]] = k BY <1>1 DEF SInv, PauseInv, Holds
        <3>4. k # None BY Constants
        <3> QED BY <2>1, <3>1, <3>2, <3>3, <3>4 DEF Held
    <2>5. ASSUME NEW i \in Jobs, job[i] # "absent", NEW v, job' = [job EXCEPT ![i] = v] PROVE FALSE
        BY <2>1, <2>3, <2>5 DEF JobTypes
    <2>6. ASSUME NEW s \in Sessions, NEW i \in Jobs, Claim(s, i) PROVE FALSE
        BY <2>5, <2>6 DEF Claim, MayClaim
    <2>7. ASSUME NEW i \in Jobs, NEW v, JobEnds(i, v) PROVE FALSE BY <2>5, <2>7 DEF JobEnds, Current
    <2>8. ASSUME NEW i \in Jobs, RestartJob(i) PROVE FALSE BY <2>5, <2>8 DEF RestartJob, Current
    <2>9. ASSUME NEW s \in Sessions, Recover(s) PROVE FALSE BY <2>1, <2>9 DEF Recover, Abandoned
    <2>10. CASE UNCHANGED vars BY <2>2, <2>10 DEF vars, workVars
    <2>11. ASSUME NEW s \in Sessions, SessionStep(s) PROVE FALSE
        BY <2>2, <2>6, <2>11
           DEF SessionStep, BeginComponent, FinishComponent, ClaimRefused, Exit, ExitRefused, workVars
    <2>12. ASSUME NEW i \in Jobs, JobStep(i), ~Publish(i) PROVE FALSE
        BY <2>2, <2>7, <2>12
           DEF JobStep, ReadPauses, AcknowledgePauses, LeavePause, Unwind, FinishJob, FailJob
    <2>13. ASSUME NEW s \in Sessions, Die(s) PROVE FALSE BY <2>2, <2>13 DEF Die
    <2>14. ASSUME NEW i \in Children, Admit(i) \/ FreezeStep(i) PROVE FALSE
        BY <2>2, <2>14 DEF Admit, FreezeStep, ObserveParents, FreezeRetry, FreezeRefused, Freeze, workVars
    <2> QED BY <1>1, <2>4, <2>8, <2>9, <2>10, <2>11, <2>12, <2>13, <2>14 DEF Next, WorkStep
<1>2. ASSUME SInv, [Next]_vars PROVE [Own]_vars BY <1>1, <1>2
<1>3. SInv /\ [Next]_vars => [Own]_vars BY <1>2
<1> QED BY <1>3, InterruptInvariance, PTL DEF Spec, FrozenInput
=============================================================================
