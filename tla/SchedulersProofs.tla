-------------------------- MODULE SchedulersProofs --------------------------
(***************************************************************************)
(* Proofs for Schedulers: what a coordinator concludes from a snapshot of  *)
(* the rows stays true, nothing of a unit runs on when it has ended, the   *)
(* waves keep the pump budget and a pass without a refusal completes every *)
(* unit, for any graph, any jobs and any limits.                           *)
(***************************************************************************)
EXTENDS Schedulers, TLAPS, FiniteSetTheorems, NaturalsInduction, WellFoundedInduction

(***************************************************************************)
(* The inductive invariant.                                                *)
(***************************************************************************)
Working == {"first", "attach", "reap", "observe", "decide", "join", "finish"}
Still == {"idle", "begin", "first", "finish", "ended"}

(* How far a unit is, according to its coordinator, its lifecycle and the  *)
(* result of its Future.                                                   *)
Stage(U) ==
    /\ coord[U] = "idle" => life[U] = "queued" /\ outcome[U] \in {"none", "paused"}
    /\ coord[U] = "begin" => life[U] = "queued" /\ outcome[U] = "none"
    /\ coord[U] \in Working => life[U] = "running" /\ outcome[U] = "none"
    /\ coord[U] = "ended" => <<outcome[U], life[U]>> \in {<<"ok", "done">>, <<"error", "running">>,
                                                          <<"paused", "queued">>}
    /\ why[U] # "none" => coord[U] \in {"join", "finish", "ended"} /\ life[U] # "queued"
    /\ life[U] # "queued" => ComponentReady(U)
    /\ seen[U].queued \subseteq U
Stages == \A U \in Units : Stage(U)

(* The units in flight are those that were launched and not collected.     *)
Aloft(U) ==
    /\ U \in flight => coord[U] # "idle" /\ U \notin ready
    /\ U \notin flight /\ coord[U] # "idle" => coord[U] = "ended" /\ (outcome[U] = "ok" \/ dag = "raised")
Flights == (\A U \in Units : Aloft(U)) /\ (dag \in {"returned", "raised"} => flight = {})

(* A unit has pumps while its coordinator is in the loop; only a live one  *)
(* waits for its release.                                                  *)
PumpsStill ==
    \A n \in Nodes : /\ coord[UnitOf[n]] \in Still => pump[n] = "none"
                     /\ pump[n] = "ready" => IsLive(n)

(* Where a job is, its row, the pump that has it and the cursor.           *)
Carried(j) ==
    /\ place[j] # "none" => pump[Home[j]] \in {"open", "unwinding"} /\ j \in passed
    /\ place[j] \in {"taken", "cleared"} =>
          row[j] = IF Home[j] \in Preclaiming THEN "running" ELSE "queued"
    /\ place[j] \in {"running", "published"} => row[j] = "running"
    /\ place[j] = "failing" => row[j] \in {"failed", "running"}
    /\ row[j] = "running" /\ place[j] = "none" => pump[Home[j]] \in {"unwinding", "raised"}
    /\ pump[Home[j]] = "open" /\ ~Refreshable(Home[j]) /\ j \notin passed => row[j] = "queued"
JobsCarried == \A j \in Jobs : Carried(j)

(* What a snapshot that decides is worth until the unit ends.              *)
Idle(U) == \A j \in JobsOf(U) : row[j] \notin {"queued", "running"}
ConcludesQuiet(U) == (coord[U] = "decide" /\ Quiescent(U)) \/ why[U] = "quiet"
QuietHolds == \A U \in Units : ConcludesQuiet(U) => Idle(U)

Waits(j, U) == \E k \in JobsOf(U) : Home[k] \in WaitFor[Home[j]] /\ row[k] \in {"queued", "failed"}
Stuck(j, U) ==
    /\ row[j] # "running" /\ place[j] \in {"none", "failing"}
    /\ row[j] = "queued" => pump[Home[j]] = "none" /\ Waits(j, U)
Dead(U) == \A j \in JobsOf(U) : Stuck(j, U)
ConcludesDead(U) == (coord[U] = "decide" /\ Deadlocked(U)) \/ why[U] = "deadlock"
DeadHolds == \A U \in Units : ConcludesDead(U) => Dead(U)

DoneHolds == \A U \in Units : life[U] = "done" => Complete(U)

(* The pumps are held by the units in flight, and by no other.             *)
SharesHeld == \A n \in Preclaiming : share[n] >= 1 <=> UnitOf[n] \in flight

(* While nothing is in flight, a pass over the units misses none.          *)
Looked == {UnitOrder[i] : i \in 1 .. Cardinality(Units) - scan}
Undisturbed == dag \in {"scan", "launch"} /\ flight = {} /\ ~stopped /\ pauses = 0
ScanExact ==
    /\ pauses = 0 => paused = {}
    /\ dag = "launch" => scan = 0
    /\ Undisturbed => ready = {U \in Looked : UnitReady(U)}

IndInv ==
    /\ TypeOK /\ Stages /\ Flights /\ PumpsStill /\ JobsCarried /\ QuietHolds /\ DeadHolds
    /\ DoneHolds /\ SharesHeld /\ ScanExact /\ PumpBudgetKept /\ ReturnsComplete

-----------------------------------------------------------------------------
(***************************************************************************)
(* The units are the strongly connected components: they partition the     *)
(* nodes, and a parent is another unit.                                    *)
(***************************************************************************)
LEMMA UnitsPartition ==
    /\ \A n \in Nodes : n \in UnitOf[n] /\ UnitOf[n] \in Units
    /\ \A U \in Units : U \subseteq Nodes /\ \A n \in U : UnitOf[n] = U
<1>1. ASSUME NEW n \in Nodes PROVE n \in UnitOf[n] /\ UnitOf[n] \in Units
    BY DEF UnitOf, Units, ComponentFor, Reaches
<1>2. ASSUME NEW n \in Nodes, NEW m \in Nodes, NEW p \in Nodes, Reaches(n, m), Reaches(m, p)
      PROVE  Reaches(n, p)
    BY <1>2 DEF Reaches
<1>3. ASSUME NEW n \in Nodes, NEW m \in ComponentFor(n) PROVE ComponentFor(m) = ComponentFor(n)
    <2>1. m \in Nodes /\ Reaches(n, m) /\ Reaches(m, n) BY DEF ComponentFor
    <2>2. ASSUME NEW p \in Nodes PROVE p \in ComponentFor(m) <=> p \in ComponentFor(n)
        BY <1>2, <2>1 DEF ComponentFor
    <2> QED BY <2>2 DEF ComponentFor
<1>4. ASSUME NEW U \in Units PROVE U \subseteq Nodes /\ \A n \in U : UnitOf[n] = U
    <2>1. PICK m \in Nodes : U = ComponentFor(m) BY DEF Units
    <2>2. U \subseteq Nodes BY <2>1 DEF ComponentFor
    <2> QED BY <1>3, <2>1, <2>2 DEF UnitOf
<1> QED BY <1>1, <1>4

LEMMA UnitsFinite == IsFiniteSet(Units) /\ Cardinality(Units) \in Nat
<1>1. UnitOf \in Surjection(Nodes, Units)
    <2>1. UnitOf \in [Nodes -> Units] BY DEF UnitOf, Units
    <2>2. ASSUME NEW U \in Units PROVE \E n \in Nodes : UnitOf[n] = U BY DEF UnitOf, Units
    <2> QED BY <2>1, <2>2 DEF Surjection
<1>2. IsFiniteSet(Units) BY <1>1, FS_Surjection, GraphAssumption
<1> QED BY <1>2, FS_CardinalityType

LEMMA ParentIsUnit ==
    ASSUME NEW U \in Units, NEW V \in Parents[U]
    PROVE  /\ V \in Units /\ V # U
           /\ \E n \in V, m \in U : <<n, m>> \in Edges
<1>1. PICK d \in Edges : d[2] \in U /\ d[1] \notin U /\ V = UnitOf[d[1]] BY DEF Parents
<1>2. d[1] \in Nodes /\ d = <<d[1], d[2]>> BY GraphAssumption
<1>3. V \in Units /\ d[1] \in V BY <1>1, <1>2, UnitsPartition
<1> QED BY <1>1, <1>2, <1>3

LEMMA JobHome ==
    ASSUME NEW j \in Jobs
    PROVE  /\ Home[j] \in Nodes /\ UnitOf[Home[j]] \in Units
           /\ \A U \in Units : j \in JobsOf(U) <=> UnitOf[Home[j]] = U
<1>1. Home[j] \in Nodes BY GraphAssumption
<1> QED BY <1>1, UnitsPartition DEF JobsOf

-----------------------------------------------------------------------------
(***************************************************************************)
(* The graph of the units has no cycle, so UnitOrder exists.               *)
(***************************************************************************)
LEMMA LeastNatural ==
    ASSUME NEW S \in SUBSET Nat, S # {}
    PROVE  \E n \in S : \A m \in S : n <= m
<1>1. PICK n \in S : \A m \in S : ~ (<<m, n>> \in OpToRel(<, Nat))
    BY NatLessThanWellFounded, WFMin
<1>2. \A m \in S : ~ (m < n) BY <1>1 DEF OpToRel
<1> QED BY <1>2

Before(U) == {V \in Units : \E n \in V, m \in U : Reaches(n, m)}
Depth(U) == Cardinality(Before(U))

LEMMA DepthNat == \A U \in Units : IsFiniteSet(Before(U)) /\ Depth(U) \in 0 .. Cardinality(Units)
<1> SUFFICES ASSUME NEW U \in Units
             PROVE  IsFiniteSet(Before(U)) /\ Depth(U) \in 0 .. Cardinality(Units)
    OBVIOUS
<1>1. Before(U) \in SUBSET Units BY DEF Before
<1> QED BY <1>1, UnitsFinite, FS_Subset, FS_CardinalityType DEF Depth

LEMMA ParentsBefore ==
    ASSUME NEW U \in Units, NEW V \in Parents[U]
    PROVE  V \in Units /\ Depth(V) < Depth(U)
<1>1. V \in Units /\ V # U BY ParentIsUnit
<1>2. PICK n \in V, m \in U : <<n, m>> \in Edges BY ParentIsUnit
<1>3. n \in Nodes /\ m \in Nodes /\ UnitOf[n] = V /\ UnitOf[m] = U BY <1>1, UnitsPartition
<1>4. Reaches(n, m)
    <2>1. <<n, m>> \in HoefleinGraph /\ <<n, m>>[1] = n /\ <<n, m>>[2] = m BY <1>2 DEF HoefleinGraph
    <2> QED BY <2>1 DEF Reaches, Closed
<1>5. ASSUME NEW p \in Nodes, NEW q \in Nodes, NEW r \in Nodes, Reaches(p, q), Reaches(q, r)
      PROVE  Reaches(p, r)
    BY <1>5 DEF Reaches
<1>6. ASSUME NEW W \in Units, NEW p \in W, NEW q \in W PROVE Reaches(p, q)
    <2>1. p \in Nodes /\ UnitOf[p] = W BY UnitsPartition
    <2>2. q \in ComponentFor(p) BY <2>1 DEF UnitOf
    <2> QED BY <2>2 DEF ComponentFor
<1>7. Before(V) \subseteq Before(U)
    <2> SUFFICES ASSUME NEW W \in Units, NEW p \in W, NEW q \in V, Reaches(p, q) PROVE W \in Before(U)
        BY DEF Before
    <2>1. p \in Nodes /\ q \in Nodes BY <1>1, UnitsPartition
    <2>2. Reaches(q, n) BY <1>1, <1>6
    <2>3. Reaches(p, m) BY <1>3, <1>4, <1>5, <2>1, <2>2
    <2> QED BY <2>3 DEF Before
<1>8. U \in Before(U)
    <2>1. Reaches(m, m) BY DEF Reaches
    <2> QED BY <2>1 DEF Before
<1>9. U \notin Before(V)
    <2> SUFFICES ASSUME NEW p \in U, NEW q \in V, Reaches(p, q) PROVE FALSE BY DEF Before
    <2>1. p \in Nodes /\ q \in Nodes BY <1>1, UnitsPartition
    <2>2. Reaches(m, p) /\ Reaches(q, n) BY <1>1, <1>6
    <2>3. Reaches(m, n) BY <1>3, <1>5, <2>1, <2>2
    <2>4. m \in ComponentFor(n) BY <1>3, <1>4, <2>3 DEF ComponentFor
    <2>5. m \in V BY <1>3, <2>4 DEF UnitOf
    <2> QED BY <1>1, <1>3, <2>5, UnitsPartition
<1>10. Before(V) \in SUBSET Before(U) /\ Before(V) # Before(U) BY <1>7, <1>8, <1>9
<1>11. Cardinality(Before(V)) <= Cardinality(Before(U)) /\ Cardinality(Before(V)) # Cardinality(Before(U))
    BY <1>10, DepthNat, FS_Subset
<1> QED BY <1>1, <1>11, DepthNat DEF Depth

Sorted(q, S) ==
    /\ q \in [1 .. Cardinality(S) -> S]
    /\ \A i, k \in 1 .. Cardinality(S) : i # k => q[i] # q[k]
    /\ \A i, k \in 1 .. Cardinality(S) : i < k => Depth(q[i]) <= Depth(q[k])

LEMMA SortedExists == \A S \in SUBSET Units : \E q : Sorted(q, S)
<1> DEFINE Bad == {n \in Nat : \E S \in SUBSET Units : Cardinality(S) = n /\ ~ \E q : Sorted(q, S)}
<1>1. SUFFICES ASSUME Bad # {} PROVE FALSE
    <2>1. SUFFICES ASSUME NEW S \in SUBSET Units, ~ \E q : Sorted(q, S) PROVE FALSE OBVIOUS
    <2>2. Cardinality(S) \in Nat BY UnitsFinite, FS_Subset, FS_CardinalityType
    <2> QED BY <1>1, <2>1, <2>2
<1>2. PICK n \in Bad : \A m \in Bad : n <= m BY <1>1, LeastNatural
<1>3. PICK S \in SUBSET Units : Cardinality(S) = n /\ ~ \E q : Sorted(q, S) BY <1>2
<1>4. IsFiniteSet(S) /\ n \in Nat BY <1>3, UnitsFinite, FS_Subset
<1>5. S # {}
    <2>1. SUFFICES ASSUME S = {} PROVE FALSE OBVIOUS
    <2>2. Cardinality(S) = 0 BY <2>1, FS_EmptySet
    <2>3. PICK q : q = [i \in 1 .. 0 |-> i] OBVIOUS
    <2>4. 1 .. 0 = {} OBVIOUS
    <2>5. Sorted(q, S) BY <2>2, <2>3, <2>4 DEF Sorted
    <2> QED BY <1>3, <2>5
<1>6. PICK U \in S : \A V \in S : Depth(V) <= Depth(U)
    <2> DEFINE C == Cardinality(Units)
               D == {C - Depth(V) : V \in S}
    <2>1. D \in SUBSET Nat BY DepthNat, UnitsFinite
    <2>2. D # {} BY <1>5
    <2>3. PICK d \in D : \A e \in D : d <= e BY <2>1, <2>2, LeastNatural
    <2>4. PICK U \in S : d = C - Depth(U) BY <2>3
    <2>5. ASSUME NEW V \in S PROVE Depth(V) <= Depth(U)
        <3>1. C - Depth(U) <= C - Depth(V) BY <2>3, <2>4
        <3> QED BY <3>1, DepthNat, UnitsFinite
    <2> QED BY <2>5
<1>7. PICK T : T = S \ {U} OBVIOUS
<1>8. T \in SUBSET Units /\ Cardinality(T) = n - 1 /\ n - 1 \in Nat
    <2>1. Cardinality(T) = n - 1 BY <1>3, <1>4, <1>6, <1>7, FS_RemoveElement
    <2>2. n # 0 BY <1>3, <1>4, <1>5, FS_EmptySet
    <2> QED BY <1>4, <1>7, <2>1, <2>2
<1>9. n - 1 \notin Bad BY <1>2, <1>8
<1>10. PICK r : Sorted(r, T) BY <1>8, <1>9
<1>11. PICK q : q = [i \in 1 .. n |-> IF i = n THEN U ELSE r[i]] OBVIOUS
<1>12. DOMAIN r = 1 .. n - 1 /\ \A i \in 1 .. n - 1 : r[i] \in T BY <1>8, <1>10 DEF Sorted
<1>13. q[n] = U /\ \A i \in 1 .. n - 1 : q[i] = r[i] BY <1>8, <1>11
<1>14. q \in [1 .. n -> S] BY <1>6, <1>7, <1>8, <1>11, <1>12
<1>15. ASSUME NEW i \in 1 .. n, NEW k \in 1 .. n, i < k PROVE q[i] # q[k] /\ Depth(q[i]) <= Depth(q[k])
    <2>1. i \in 1 .. n - 1 /\ q[i] = r[i] /\ r[i] \in T BY <1>8, <1>12, <1>13, <1>15
    <2>2. CASE k = n BY <1>6, <1>7, <1>13, <2>1, <2>2
    <2>3. CASE k # n
        <3>1. k \in 1 .. n - 1 /\ q[k] = r[k] BY <1>8, <1>13, <2>3
        <3> QED BY <1>8, <1>10, <1>15, <2>1, <3>1 DEF Sorted
    <2> QED BY <2>2, <2>3
<1>16. Sorted(q, S)
    <2>1. ASSUME NEW i \in 1 .. n, NEW k \in 1 .. n, i # k PROVE q[i] # q[k]
        <3>1. i < k \/ k < i BY <2>1, <1>4
        <3> QED BY <1>15, <3>1
    <2> QED BY <1>3, <1>14, <1>15, <2>1 DEF Sorted
<1> QED BY <1>3, <1>16

(* UnitOrder lists every unit once, parents first.                         *)
LEMMA UnitOrderFacts ==
    LET C == Cardinality(Units) IN
    /\ UnitOrder \in [1 .. C -> Units]
    /\ \A i, k \in 1 .. C : i # k => UnitOrder[i] # UnitOrder[k]
    /\ \A i, k \in 1 .. C : UnitOrder[i] \in Parents[UnitOrder[k]] => i < k
    /\ \A U \in Units : \E i \in 1 .. C : U = UnitOrder[i]
<1> DEFINE C == Cardinality(Units)
           Fits(q) == \A i, k \in 1 .. C : /\ i # k => q[i] # q[k]
                                           /\ q[i] \in Parents[q[k]] => i < k
<1>1. PICK q : Sorted(q, Units) BY SortedExists
<1>2. q \in [1 .. C -> Units] BY <1>1 DEF Sorted
<1>3. Fits(q)
    <2> SUFFICES ASSUME NEW i \in 1 .. C, NEW k \in 1 .. C
                 PROVE  (i # k => q[i] # q[k]) /\ (q[i] \in Parents[q[k]] => i < k)
        OBVIOUS
    <2>1. i # k => q[i] # q[k] BY <1>1 DEF Sorted
    <2>2. ASSUME q[i] \in Parents[q[k]] PROVE i < k
        <3>1. q[k] \in Units /\ q[i] \in Units BY <1>2
        <3>2. Depth(q[i]) < Depth(q[k]) BY <2>2, <3>1, ParentsBefore
        <3>3. Depth(q[i]) \in Nat /\ Depth(q[k]) \in Nat BY <3>1, DepthNat
        <3>4. k < i => Depth(q[k]) <= Depth(q[i]) BY <1>1 DEF Sorted
        <3>5. i # k BY <3>2, <3>3
        <3> QED BY <3>2, <3>3, <3>4, <3>5
    <2> QED BY <2>1, <2>2
<1>4. UnitOrder \in [1 .. C -> Units] /\ Fits(UnitOrder)
    <2>1. UnitOrder = CHOOSE x \in [1 .. C -> Units] : Fits(x) BY DEF UnitOrder
    <2>2. \E x \in [1 .. C -> Units] : Fits(x) BY <1>2, <1>3
    <2> HIDE DEF Fits
    <2> QED BY <2>1, <2>2
<1>5. UnitOrder \in Injection(1 .. C, Units) BY <1>4 DEF Injection, IsInjective
<1>6. UnitOrder \in Surjection(1 .. C, Units)
    <2>1. C \in Nat /\ IsFiniteSet(Units) BY UnitsFinite
    <2>2. Cardinality(1 .. C) = C BY <2>1, FS_Interval
    <2> QED BY <1>5, <2>1, <2>2, FS_Injection
<1>7. \A U \in Units : \E i \in 1 .. C : U = UnitOrder[i] BY <1>6 DEF Surjection
<1> QED BY <1>4, <1>7

-----------------------------------------------------------------------------
(***************************************************************************)
(* SumOver is the sum: it satisfies its equation, and any element may be   *)
(* taken out first.                                                        *)
(***************************************************************************)
Some(T) == CHOOSE n \in T : TRUE
Part(g, f, T) == IF T = {} THEN 0 ELSE f[Some(T)] + g[T \ {Some(T)}]
Whole(f, S) == \A n \in S : f[n] \in Int
Smalls(S, k) == {T \in SUBSET S : Cardinality(T) <= k}
PartialTotal(g, k, S, f) == DOMAIN g = Smalls(S, k) /\ \A T \in Smalls(S, k) : g[T] = Part(g, f, T)
Total(g, S, f) == DOMAIN g = SUBSET S /\ \A T \in SUBSET S : g[T] = Part(g, f, T)

LEMMA SomeIn == ASSUME NEW T, T # {} PROVE Some(T) \in T
BY DEF Some

LEMMA Shrinks ==
    ASSUME NEW S, IsFiniteSet(S), NEW T \in SUBSET S
    PROVE  /\ IsFiniteSet(T) /\ Cardinality(T) \in Nat /\ Cardinality(T) <= Cardinality(S)
           /\ T = {} <=> Cardinality(T) = 0
           /\ \A x \in T : Cardinality(T \ {x}) = Cardinality(T) - 1 /\ T \ {x} \in SUBSET S
<1>1. IsFiniteSet(T) /\ Cardinality(T) <= Cardinality(S) BY FS_Subset
<1>2. Cardinality(T) \in Nat BY <1>1, FS_CardinalityType
<1>3. T = {} <=> Cardinality(T) = 0 BY <1>1, FS_EmptySet
<1>4. \A x \in T : Cardinality(T \ {x}) = Cardinality(T) - 1 BY <1>1, FS_RemoveElement
<1> QED BY <1>1, <1>2, <1>3, <1>4

LEMMA PartialTotalExists ==
    ASSUME NEW S, IsFiniteSet(S), NEW f
    PROVE  \A k \in Nat : \E g : PartialTotal(g, k, S, f)
<1> DEFINE Bad == {k \in Nat : ~ \E g : PartialTotal(g, k, S, f)}
<1>1. SUFFICES ASSUME Bad # {} PROVE FALSE OBVIOUS
<1>2. PICK k \in Bad : \A m \in Bad : k <= m BY <1>1, LeastNatural
<1>3. CASE k = 0
    <2>1. PICK g : g = [T \in Smalls(S, 0) |-> 0] OBVIOUS
    <2>2. ASSUME NEW T \in Smalls(S, 0) PROVE T = {} BY Shrinks DEF Smalls
    <2>3. PartialTotal(g, 0, S, f) BY <2>1, <2>2 DEF PartialTotal, Part
    <2> QED BY <1>2, <1>3, <2>3
<1>4. CASE k # 0
    <2>1. k - 1 \in Nat /\ k - 1 \notin Bad BY <1>2, <1>4
    <2>2. PICK h : PartialTotal(h, k - 1, S, f) BY <2>1
    <2>3. PICK g : g = [T \in Smalls(S, k) |-> Part(h, f, T)] OBVIOUS
    <2>4. ASSUME NEW T \in Smalls(S, k) PROVE g[T] = Part(g, f, T)
        <3>1. g[T] = Part(h, f, T) BY <2>3
        <3>2. CASE T = {} BY <3>1, <3>2 DEF Part
        <3>3. CASE T # {}
            <4>1. PICK R : R = T \ {Some(T)} OBVIOUS
            <4>2. Some(T) \in T BY <3>3, SomeIn
            <4>3. R \in SUBSET S /\ Cardinality(R) = Cardinality(T) - 1 /\ Cardinality(R) \in Nat
                BY <4>1, <4>2, Shrinks DEF Smalls
            <4>4. R \in Smalls(S, k - 1) /\ R \in Smalls(S, k) BY <2>1, <4>3, Shrinks DEF Smalls
            <4>5. h[R] = Part(h, f, R) BY <2>2, <4>4 DEF PartialTotal
            <4>6. g[R] = Part(h, f, R) BY <2>3, <4>4
            <4> QED BY <3>1, <3>3, <4>1, <4>5, <4>6 DEF Part
        <3> QED BY <3>2, <3>3
    <2>5. PartialTotal(g, k, S, f) BY <2>3, <2>4 DEF PartialTotal
    <2> QED BY <1>2, <2>5
<1> QED BY <1>3, <1>4

LEMMA SumIsTotal ==
    ASSUME NEW S, IsFiniteSet(S), NEW f
    PROVE  \E g : Total(g, S, f) /\ SumOver(S, f) = g[S]
<1> DEFINE D(g) == [T \in SUBSET S |->
                       IF T = {} THEN 0
                       ELSE LET n == CHOOSE n \in T : TRUE IN f[n] + g[T \ {n}]]
           t == CHOOSE g : g = D(g)
<1>1. SumOver(S, f) = t[S] BY Zenon DEF SumOver
<1>2. t = D(t)
    <2>1. PICK k \in Nat : k = Cardinality(S) BY FS_CardinalityType
    <2>2. PICK h : PartialTotal(h, k, S, f) BY PartialTotalExists
    <2>3. Smalls(S, k) = SUBSET S BY <2>1, Shrinks DEF Smalls
    <2>4. PICK g : g = [T \in SUBSET S |-> h[T]] OBVIOUS
    <2>5. ASSUME NEW T \in SUBSET S PROVE g[T] = D(g)[T]
        <3>1. g[T] = Part(h, f, T) BY <2>2, <2>3, <2>4 DEF PartialTotal
        <3>2. T # {} => g[T \ {Some(T)}] = h[T \ {Some(T)}] BY <2>4
        <3>3. g[T] = Part(g, f, T) BY <3>1, <3>2 DEF Part
        <3> QED BY <3>3 DEF Part, Some
    <2>6. g = D(g) BY <2>4, <2>5
    <2>7. \E x : x = D(x) BY <2>6
    <2> HIDE DEF D
    <2> QED BY <2>7
<1> HIDE DEF t
<1>3. Total(t, S, f)
    <2>1. DOMAIN t = SUBSET S BY <1>2
    <2>2. ASSUME NEW T \in SUBSET S PROVE t[T] = Part(t, f, T)
        <3>1. t[T] = D(t)[T] BY <1>2
        <3> HIDE DEF D
        <3>2. D(t)[T] = Part(t, f, T) BY DEF D, Part, Some
        <3> QED BY <3>1, <3>2
    <2> QED BY <2>1, <2>2 DEF Total
<1> QED BY <1>1, <1>3

LEMMA TotalTakesAny ==
    ASSUME NEW S, IsFiniteSet(S), NEW f, Whole(f, S), NEW g, Total(g, S, f)
    PROVE  \A T \in SUBSET S : g[T] \in Int /\ \A x \in T : g[T] = f[x] + g[T \ {x}]
<1> DEFINE Good(T) == g[T] \in Int /\ \A x \in T : g[T] = f[x] + g[T \ {x}]
           Bad == {k \in Nat : \E T \in SUBSET S : Cardinality(T) = k /\ ~Good(T)}
<1>1. SUFFICES ASSUME Bad # {} PROVE FALSE BY Shrinks
<1>2. PICK k \in Bad : \A m \in Bad : k <= m BY <1>1, LeastNatural
<1>3. PICK T \in SUBSET S : Cardinality(T) = k /\ ~Good(T) BY <1>2
<1>4. ASSUME NEW R \in SUBSET S, Cardinality(R) < k PROVE Good(R)
    <2>1. Cardinality(R) \in Nat BY Shrinks
    <2> QED BY <1>2, <1>4, <2>1
<1>5. T # {}
    <2>1. SUFFICES ASSUME T = {} PROVE FALSE OBVIOUS
    <2>2. g[T] = 0 BY <2>1 DEF Total, Part
    <2> QED BY <1>3, <2>1, <2>2
<1>6. PICK n \in T : n = Some(T) BY <1>5, SomeIn
<1>7. g[T] = f[n] + g[T \ {n}] BY <1>5, <1>6 DEF Total, Part
<1>8. ASSUME NEW x \in T PROVE Good(T \ {x})
    <2>1. T \ {x} \in SUBSET S /\ Cardinality(T \ {x}) = k - 1 BY <1>3, Shrinks
    <2> HIDE DEF Good
    <2> QED BY <1>2, <1>4, <2>1
<1>9. ASSUME NEW x \in T PROVE g[T] = f[x] + g[T \ {x}]
    <2>1. CASE x = n BY <1>7, <2>1
    <2>2. CASE x # n
        <3>1. PICK R : R = (T \ {n}) \ {x} /\ R = (T \ {x}) \ {n} OBVIOUS
        <3>2. g[T \ {n}] = f[x] + g[(T \ {n}) \ {x}] BY <1>8, <2>2
        <3>3. g[T \ {x}] = f[n] + g[(T \ {x}) \ {n}]
            <4>1. n \in T \ {x} BY <2>2
            <4> QED BY <1>8, <4>1
        <3>4. PICK Q : Q = T \ {n} OBVIOUS
        <3>5. Q \in SUBSET S /\ x \in Q /\ R = Q \ {x} BY <2>2, <3>1, <3>4
        <3>6. Cardinality(Q) = k - 1 BY <1>3, <3>4, Shrinks
        <3>7. Cardinality(R) = (k - 1) - 1 /\ R \in SUBSET S BY <3>5, <3>6, Shrinks
        <3>8. Good(R)
            <4> HIDE DEF Good
            <4> QED BY <1>2, <1>4, <3>7
        <3>9. g[R] \in Int BY <3>8
        <3>10. f[x] \in Int /\ f[n] \in Int BY DEF Whole
        <3>11. g[T \ {n}] = f[x] + g[R] /\ g[T \ {x}] = f[n] + g[R] BY <3>1, <3>2, <3>3, Zenon
        <3>12. ASSUME NEW p \in Int, NEW q \in Int, NEW r \in Int PROVE p + (q + r) = q + (p + r)
            OBVIOUS
        <3>13. g[T] = f[n] + (f[x] + g[R]) BY <1>7, <3>11, Zenon
        <3>14. f[n] + (f[x] + g[R]) = f[x] + (f[n] + g[R]) BY <3>9, <3>10, <3>12, Zenon
        <3> QED BY <3>11, <3>13, <3>14, Zenon
    <2> QED BY <2>1, <2>2
<1>10. g[T] \in Int BY <1>7, <1>8 DEF Whole
<1> QED BY <1>3, <1>9, <1>10

LEMMA TotalsAgree ==
    ASSUME NEW S, IsFiniteSet(S), NEW f, NEW g, Total(g, S, f),
           NEW R \in SUBSET S, NEW e, NEW h, Total(h, R, e), \A n \in R : e[n] = f[n]
    PROVE  \A T \in SUBSET R : g[T] = h[T]
<1> DEFINE Bad == {k \in Nat : \E T \in SUBSET R : Cardinality(T) = k /\ g[T] # h[T]}
<1>1. SUFFICES ASSUME Bad # {} PROVE FALSE BY Shrinks
<1>2. PICK k \in Bad : \A m \in Bad : k <= m BY <1>1, LeastNatural
<1>3. PICK T \in SUBSET R : Cardinality(T) = k /\ g[T] # h[T] BY <1>2
<1>4. T # {} BY <1>3 DEF Total, Part
<1>5. PICK n \in T : n = Some(T) BY <1>4, SomeIn
<1>6. g[T] = f[n] + g[T \ {n}] /\ h[T] = e[n] + h[T \ {n}] BY <1>4, <1>5 DEF Total, Part
<1>7. Cardinality(T \ {n}) = k - 1 /\ k - 1 \in Nat BY <1>3, Shrinks
<1>8. k - 1 \notin Bad BY <1>2, <1>7
<1>9. g[T \ {n}] = h[T \ {n}] BY <1>7, <1>8
<1> QED BY <1>3, <1>6, <1>9

LEMMA SumEmpty == ASSUME NEW f PROVE SumOver({}, f) = 0
<1>1. PICK g : Total(g, {}, f) /\ SumOver({}, f) = g[{}] BY FS_EmptySet, SumIsTotal
<1> QED BY <1>1 DEF Total, Part

LEMMA SumStep ==
    ASSUME NEW S, IsFiniteSet(S), NEW f, Whole(f, S)
    PROVE  SumOver(S, f) \in Int /\ \A x \in S : SumOver(S, f) = f[x] + SumOver(S \ {x}, f)
<1>1. PICK g : Total(g, S, f) /\ SumOver(S, f) = g[S] BY SumIsTotal
<1>2. g[S] \in Int /\ \A x \in S : g[S] = f[x] + g[S \ {x}]
    <2>1. \A T \in SUBSET S : g[T] \in Int /\ \A x \in T : g[T] = f[x] + g[T \ {x}]
        BY <1>1, TotalTakesAny
    <2> QED BY <2>1
<1>3. ASSUME NEW x \in S PROVE SumOver(S \ {x}, f) = g[S \ {x}]
    <2>1. PICK R \in SUBSET S : R = S \ {x} OBVIOUS
    <2>2. IsFiniteSet(R) BY FS_Subset
    <2>3. PICK h : Total(h, R, f) /\ SumOver(R, f) = h[R] BY <2>2, SumIsTotal
    <2>4. \A n \in R : f[n] = f[n] OBVIOUS
    <2>5. \A T \in SUBSET R : g[T] = h[T] BY <1>1, <2>3, <2>4, TotalsAgree
    <2> QED BY <2>1, <2>3, <2>5
<1> QED BY <1>1, <1>2, <1>3

LEMMA SumSame ==
    ASSUME NEW S, IsFiniteSet(S), NEW f, NEW e, \A n \in S : e[n] = f[n]
    PROVE  SumOver(S, e) = SumOver(S, f)
<1>1. PICK g : Total(g, S, f) /\ SumOver(S, f) = g[S] BY SumIsTotal
<1>2. PICK h : Total(h, S, e) /\ SumOver(S, e) = h[S] BY SumIsTotal
<1>3. S \in SUBSET S OBVIOUS
<1>4. \A T \in SUBSET S : g[T] = h[T] BY <1>1, <1>2, <1>3, TotalsAgree
<1> QED BY <1>1, <1>2, <1>3, <1>4

(* Term by term: at most, all ones, all zeros.                             *)
LEMMA SumMono ==
    ASSUME NEW S, IsFiniteSet(S), NEW f, Whole(f, S), NEW e, Whole(e, S), \A n \in S : f[n] <= e[n]
    PROVE  SumOver(S, f) <= SumOver(S, e)
<1> DEFINE Good(T) == SumOver(T, f) <= SumOver(T, e)
           Bad == {k \in Nat : \E T \in SUBSET S : Cardinality(T) = k /\ ~Good(T)}
<1>1. SUFFICES ASSUME Bad # {} PROVE FALSE
    <2>1. S \in SUBSET S /\ Cardinality(S) \in Nat BY Shrinks
    <2> QED BY <1>1, <2>1
<1>2. PICK k \in Bad : \A m \in Bad : k <= m BY <1>1, LeastNatural
<1>3. PICK T \in SUBSET S : Cardinality(T) = k /\ ~Good(T) BY <1>2
<1>4. T # {} BY <1>3, SumEmpty
<1>5. PICK x \in T : TRUE BY <1>4
<1>6. PICK R \in SUBSET S : R = T \ {x} OBVIOUS
<1>7. Cardinality(R) = k - 1 /\ Cardinality(R) \in Nat BY <1>3, <1>6, Shrinks
<1>8. Good(R)
    <2> HIDE DEF Good
    <2> QED BY <1>2, <1>7
<1>9. IsFiniteSet(T) /\ IsFiniteSet(R) BY Shrinks
<1>10. Whole(f, T) /\ Whole(e, T) /\ Whole(f, R) /\ Whole(e, R) BY DEF Whole
<1>11. SumOver(T, f) = f[x] + SumOver(R, f) /\ SumOver(T, e) = e[x] + SumOver(R, e)
    BY <1>6, <1>9, <1>10, SumStep
<1>12. SumOver(R, f) \in Int /\ SumOver(R, e) \in Int /\ f[x] \in Int /\ e[x] \in Int /\ f[x] <= e[x]
    BY <1>9, <1>10, SumStep DEF Whole
<1> QED BY <1>3, <1>8, <1>11, <1>12

LEMMA SumConst ==
    ASSUME NEW S, IsFiniteSet(S), NEW f, NEW c \in {0, 1}, \A n \in S : f[n] = c
    PROVE  SumOver(S, f) = c * Cardinality(S)
<1> DEFINE Good(T) == SumOver(T, f) = c * Cardinality(T)
           Bad == {k \in Nat : \E T \in SUBSET S : Cardinality(T) = k /\ ~Good(T)}
<1>1. SUFFICES ASSUME Bad # {} PROVE FALSE
    <2>1. S \in SUBSET S /\ Cardinality(S) \in Nat BY Shrinks
    <2> QED BY <1>1, <2>1
<1>2. PICK k \in Bad : \A m \in Bad : k <= m BY <1>1, LeastNatural
<1>3. PICK T \in SUBSET S : Cardinality(T) = k /\ ~Good(T) BY <1>2
<1>4. T # {} BY <1>3, SumEmpty, FS_EmptySet
<1>5. PICK x \in T : TRUE BY <1>4
<1>6. PICK R \in SUBSET S : R = T \ {x} OBVIOUS
<1>7. Cardinality(R) = k - 1 /\ Cardinality(R) \in Nat BY <1>3, <1>6, Shrinks
<1>8. Good(R)
    <2> HIDE DEF Good
    <2> QED BY <1>2, <1>7
<1>9. IsFiniteSet(T) BY Shrinks
<1>10. Whole(f, T) BY DEF Whole
<1>11. SumOver(T, f) = c + SumOver(R, f) BY <1>6, <1>9, <1>10, SumStep
<1>12. SumOver(T, f) = c + c * (k - 1) BY <1>7, <1>8, <1>11
<1>13. CASE c = 0 BY <1>2, <1>3, <1>7, <1>12, <1>13
<1>14. CASE c = 1 BY <1>2, <1>3, <1>7, <1>12, <1>14
<1> QED BY <1>13, <1>14

LEMMA SumUnion ==
    ASSUME NEW A, IsFiniteSet(A), NEW B, IsFiniteSet(B), A \cap B = {}, NEW f, Whole(f, A \cup B)
    PROVE  SumOver(A \cup B, f) = SumOver(A, f) + SumOver(B, f)
<1> DEFINE Good(T) == SumOver(T \cup B, f) = SumOver(T, f) + SumOver(B, f)
           Bad == {k \in Nat : \E T \in SUBSET A : Cardinality(T) = k /\ ~Good(T)}
<1>1. SUFFICES ASSUME Bad # {} PROVE FALSE
    <2>1. A \in SUBSET A /\ Cardinality(A) \in Nat BY Shrinks
    <2> QED BY <1>1, <2>1
<1>2. PICK k \in Bad : \A m \in Bad : k <= m BY <1>1, LeastNatural
<1>3. PICK T \in SUBSET A : Cardinality(T) = k /\ ~Good(T) BY <1>2
<1>4. Whole(f, B) /\ SumOver(B, f) \in Int
    <2>1. Whole(f, B) BY DEF Whole
    <2> QED BY <2>1, SumStep
<1>5. T # {}
    <2>1. SUFFICES ASSUME T = {} PROVE FALSE OBVIOUS
    <2>2. T \cup B = B /\ SumOver(T, f) = 0 BY <2>1, SumEmpty
    <2> QED BY <1>3, <1>4, <2>2
<1>6. PICK x \in T : TRUE BY <1>5
<1>7. PICK R \in SUBSET A : R = T \ {x} OBVIOUS
<1>8. Cardinality(R) = k - 1 /\ Cardinality(R) \in Nat BY <1>3, <1>7, Shrinks
<1>9. Good(R)
    <2> HIDE DEF Good
    <2> QED BY <1>2, <1>8
<1>10. PICK P, Q : P = T \cup B /\ Q = R \cup B OBVIOUS
<1>11. x \in P /\ Q = P \ {x} BY <1>7, <1>10
<1>12. IsFiniteSet(T) /\ IsFiniteSet(R) BY Shrinks
<1>13. IsFiniteSet(P) /\ IsFiniteSet(Q) BY <1>10, <1>12, FS_Union
<1>14. Whole(f, T) /\ Whole(f, R) /\ Whole(f, P) /\ Whole(f, Q) BY <1>10 DEF Whole
<1>15. SumOver(T, f) = f[x] + SumOver(R, f) /\ SumOver(R, f) \in Int BY <1>7, <1>12, <1>14, SumStep
<1>16. SumOver(P, f) = f[x] + SumOver(Q, f) /\ SumOver(Q, f) \in Int BY <1>11, <1>13, <1>14, SumStep
<1>17. SumOver(Q, f) = SumOver(R, f) + SumOver(B, f) BY <1>9, <1>10
<1>18. f[x] \in Int BY <1>14 DEF Whole
<1>19. SumOver(P, f) = SumOver(T, f) + SumOver(B, f) BY <1>4, <1>15, <1>16, <1>17, <1>18
<1> QED BY <1>3, <1>10, <1>19

LEMMA SumBump ==
    ASSUME NEW S, IsFiniteSet(S), NEW a \in [S -> Int], NEW x \in S
    PROVE  SumOver(S, [a EXCEPT ![x] = @ + 1]) = SumOver(S, a) + 1
<1>1. PICK b : b = [a EXCEPT ![x] = @ + 1] OBVIOUS
<1>2. b \in [S -> Int] /\ b[x] = a[x] + 1 /\ \A n \in S \ {x} : b[n] = a[n] BY <1>1
<1>3. Whole(a, S) /\ Whole(b, S) BY <1>2 DEF Whole
<1>4. PICK R : R = S \ {x} OBVIOUS
<1>5. IsFiniteSet(R) BY <1>4, FS_RemoveElement
<1>6. Whole(a, R) BY <1>4 DEF Whole
<1>7. SumOver(R, a) = SumOver(R, b) /\ SumOver(R, a) \in Int BY <1>2, <1>4, <1>5, <1>6, SumSame, SumStep
<1>8. SumOver(S, a) = a[x] + SumOver(R, a) /\ SumOver(S, b) = b[x] + SumOver(R, b)
    BY <1>3, <1>4, SumStep
<1>9. a[x] \in Int BY <1>3 DEF Whole
<1>10. SumOver(S, b) = SumOver(S, a) + 1 BY <1>2, <1>7, <1>8, <1>9
<1> QED BY <1>1, <1>10

-----------------------------------------------------------------------------
(***************************************************************************)
(* allocate_api_pumps: every node has a pump, none more than it can use,   *)
(* and together they have what the budget allows.                          *)
(***************************************************************************)
LEMMA ApiFinite ==
    ASSUME NEW S \in SUBSET Preclaiming
    PROVE  IsFiniteSet(S) /\ Cardinality(S) \in Nat
<1>1. S \in SUBSET Nodes BY GraphAssumption
<1> QED BY <1>1, GraphAssumption, FS_Subset, FS_CardinalityType

LEMMA IndependentRange == ASSUME NEW n \in Preclaiming PROVE Independent(n) \in 1 .. PumpCap
<1>1. Limit[n] \in Nat /\ PumpSize \in Nat \ {0} /\ PumpCap \in Nat \ {0} BY GraphAssumption
<1>2. (Limit[n] + PumpSize - 1) \div PumpSize \in Int BY <1>1
<1> QED BY <1>1, <1>2 DEF Independent, Smaller, Larger

(* One load per pump is above another: a ratio, compared by products.      *)
Above(l, w, k, v, r, s) == l * v > k * w \/ (l * v = k * w /\ r <= s)

LEMMA Cancel ==
    ASSUME NEW x \in Int, NEW y \in Int, NEW w \in Nat \ {0}
    PROVE  (x * w >= y * w <=> x >= y) /\ (x * w = y * w <=> x = y)
<1>1. ASSUME x > y PROVE x * w > y * w
    <2>1. PICK d \in Nat : d >= 1 /\ x = y + d
        <3>1. x - y \in Nat /\ x - y >= 1 /\ x = y + (x - y) BY <1>1
        <3> QED BY <3>1
    <2>2. x * w = y * w + d * w BY <2>1
    <2>3. d * w >= 1 BY <2>1
    <2>4. y * w \in Int /\ d * w \in Int BY <2>1
    <2> QED BY <2>2, <2>3, <2>4
<1>2. ASSUME y > x PROVE y * w > x * w
    <2>1. PICK d \in Nat : d >= 1 /\ y = x + d
        <3>1. y - x \in Nat /\ y - x >= 1 /\ y = x + (y - x) BY <1>2
        <3> QED BY <3>1
    <2>2. y * w = x * w + d * w BY <2>1
    <2>3. d * w >= 1 BY <2>1
    <2>4. x * w \in Int /\ d * w \in Int BY <2>1
    <2> QED BY <2>2, <2>3, <2>4
<1>3. x * w \in Int /\ y * w \in Int OBVIOUS
<1>4. x = y => x * w = y * w OBVIOUS
<1>5. x > y \/ y > x \/ x = y OBVIOUS
<1> QED BY <1>1, <1>2, <1>3, <1>4, <1>5

LEMMA AboveTransitive ==
    ASSUME NEW l \in Nat, NEW k \in Nat, NEW h \in Nat,
           NEW w \in Nat \ {0}, NEW v \in Nat \ {0}, NEW u \in Nat \ {0},
           NEW r \in Nat, NEW s \in Nat, NEW t \in Nat,
           Above(l, w, k, v, r, s), Above(k, v, h, u, s, t)
    PROVE  Above(l, w, h, u, r, t)
<1> DEFINE a == (l * u) * v
           b == (k * w) * u
           c == (h * w) * v
<1>1. a \in Int /\ b \in Int /\ c \in Int OBVIOUS
<1>2. l * u \in Int /\ h * w \in Int /\ l * v \in Int /\ k * w \in Int /\ k * u \in Int /\ h * v \in Int
    OBVIOUS
<1>3. a = (l * v) * u /\ b = (k * u) * w /\ c = (h * v) * w OBVIOUS
<1>4. (a >= b <=> l * v >= k * w) /\ (a = b <=> l * v = k * w) BY <1>2, <1>3, Cancel
<1>5. (b >= c <=> k * u >= h * v) /\ (b = c <=> k * u = h * v) BY <1>2, <1>3, Cancel
<1>6. (a >= c <=> l * u >= h * w) /\ (a = c <=> l * u = h * w) BY <1>2, Cancel
<1>7. a >= b /\ (a = b => r <= s) BY <1>2, <1>4 DEF Above
<1>8. b >= c /\ (b = c => s <= t) BY <1>2, <1>5 DEF Above
<1> HIDE DEF a, b, c
<1>9. a >= c /\ (a = c => r <= t) BY <1>1, <1>7, <1>8
<1> QED BY <1>1, <1>2, <1>6, <1>9 DEF Above

Weight(x) == x * (x + 1)
LEMMA GainsIsAbove ==
    ASSUME NEW S \in SUBSET Preclaiming, NEW a \in [S -> Nat \ {0}], NEW n \in S, NEW m \in S
    PROVE  /\ Gains(a, n, m) <=> Above(Limit[n], Weight(a[n]), Limit[m], Weight(a[m]), Rank[n], Rank[m])
           /\ Weight(a[n]) \in Nat \ {0} /\ Limit[n] \in Nat /\ Rank[n] \in Nat
<1>1. Limit[n] \in Nat /\ Limit[m] \in Nat /\ Rank[n] \in Nat BY GraphAssumption
<1>2. a[n] \in Nat \ {0} /\ a[m] \in Nat \ {0} OBVIOUS
<1>3. ASSUME NEW l \in Nat, NEW x \in Nat \ {0}
      PROVE  l * x * (x + 1) = l * Weight(x) /\ Weight(x) \in Nat \ {0}
    <2>1. x * (x + 1) = x * x + x /\ x * x \in Nat OBVIOUS
    <2> QED BY <2>1 DEF Weight
<1> QED BY <1>1, <1>2, <1>3 DEF Gains, Above

LEMMA BestExists ==
    ASSUME NEW S \in SUBSET Preclaiming, NEW a \in [S -> Nat \ {0}]
    PROVE  \A T \in SUBSET S : T # {} => \E n \in T : \A m \in T : Gains(a, n, m)
<1> DEFINE Good(T) == T # {} => \E n \in T : \A m \in T : Gains(a, n, m)
           Bad == {k \in Nat : \E T \in SUBSET S : Cardinality(T) = k /\ ~Good(T)}
<1>1. IsFiniteSet(S) BY ApiFinite
<1>2. SUFFICES ASSUME Bad # {} PROVE FALSE BY <1>1, Shrinks
<1>3. PICK k \in Bad : \A m \in Bad : k <= m BY <1>2, LeastNatural
<1>4. PICK T \in SUBSET S : Cardinality(T) = k /\ ~Good(T) BY <1>3
<1>5. PICK x \in T : TRUE BY <1>4
<1>6. PICK R \in SUBSET S : R = T \ {x} OBVIOUS
<1>7. Cardinality(R) = k - 1 /\ Cardinality(R) \in Nat BY <1>1, <1>4, <1>6, Shrinks
<1>8. Good(R)
    <2> HIDE DEF Good
    <2> QED BY <1>3, <1>7
<1>9. Gains(a, x, x)
    <2>1. ASSUME NEW l \in Nat, NEW w \in Nat, NEW r \in Nat PROVE Above(l, w, l, w, r, r)
        BY DEF Above
    <2>2. Limit[x] \in Nat /\ Weight(a[x]) \in Nat /\ Rank[x] \in Nat BY GainsIsAbove
    <2> QED BY <2>1, <2>2, GainsIsAbove
<1>10. CASE R = {} BY <1>4, <1>6, <1>9, <1>10
<1>11. CASE R # {}
    <2>1. PICK y \in R : \A m \in R : Gains(a, y, m) BY <1>8, <1>11
    <2>2. CASE Gains(a, y, x) BY <1>4, <1>6, <2>1, <2>2
    <2>3. CASE ~Gains(a, y, x)
        <3>1. Gains(a, x, y)
            <4>1. /\ Limit[x] \in Nat /\ Limit[y] \in Nat /\ Rank[x] \in Nat /\ Rank[y] \in Nat
                  /\ Weight(a[x]) \in Nat \ {0} /\ Weight(a[y]) \in Nat \ {0}
                BY GainsIsAbove
            <4>2. PICK p \in Nat : p = Limit[x] * Weight(a[y]) BY <4>1
            <4>3. PICK q \in Nat : q = Limit[y] * Weight(a[x]) BY <4>1
            <4>4. ~(q > p \/ (q = p /\ Rank[y] <= Rank[x])) BY <2>3, <4>2, <4>3, GainsIsAbove DEF Above
            <4>5. p > q \/ (p = q /\ Rank[x] <= Rank[y]) BY <4>1, <4>4
            <4> QED BY <4>2, <4>3, <4>5, GainsIsAbove DEF Above
        <3>2. ASSUME NEW m \in R PROVE Gains(a, x, m)
            <4>1. Gains(a, y, m) BY <2>1
            <4>2. /\ Limit[x] \in Nat /\ Limit[y] \in Nat /\ Limit[m] \in Nat
                  /\ Rank[x] \in Nat /\ Rank[y] \in Nat /\ Rank[m] \in Nat
                  /\ Weight(a[x]) \in Nat \ {0} /\ Weight(a[y]) \in Nat \ {0} /\ Weight(a[m]) \in Nat \ {0}
                BY GainsIsAbove
            <4>3. /\ Above(Limit[x], Weight(a[x]), Limit[y], Weight(a[y]), Rank[x], Rank[y])
                  /\ Above(Limit[y], Weight(a[y]), Limit[m], Weight(a[m]), Rank[y], Rank[m])
                BY <3>1, <4>1, GainsIsAbove
            <4>4. Above(Limit[x], Weight(a[x]), Limit[m], Weight(a[m]), Rank[x], Rank[m])
                BY <4>2, <4>3, AboveTransitive
            <4> QED BY <4>4, GainsIsAbove
        <3> QED BY <1>4, <1>6, <1>9, <3>2
    <2> QED BY <2>2, <2>3
<1> QED BY <1>10, <1>11

(* One more pump is given, or none is left to give.                        *)
Open(a, S) == {n \in S : a[n] < Independent(n)}
Given(a, S) ==
    IF Open(a, S) = {} THEN a
    ELSE [a EXCEPT ![CHOOSE n \in Open(a, S) : \A m \in Open(a, S) : Gains(a, n, m)] = @ + 1]
Gives(g, S, e) ==
    DOMAIN g = 0 .. e /\ g[0] = [n \in S |-> 1] /\ \A k \in 1 .. e : g[k] = Given(g[k - 1], S)
Extra(S, budget) ==
    Larger(Cardinality(S), Smaller(SumOver(S, [n \in S |-> Independent(n)]), budget)) - Cardinality(S)

LEMMA GivesExist == ASSUME NEW S PROVE \A e \in Nat : \E g : Gives(g, S, e)
<1> DEFINE Bad == {e \in Nat : ~ \E g : Gives(g, S, e)}
<1>1. SUFFICES ASSUME Bad # {} PROVE FALSE OBVIOUS
<1>2. PICK e \in Bad : \A k \in Bad : e <= k BY <1>1, LeastNatural
<1>3. e # 0
    <2>1. PICK a : a = [n \in S |-> 1] OBVIOUS
    <2>2. PICK g : g = [i \in 0 .. 0 |-> a] OBVIOUS
    <2>3. DOMAIN g = 0 .. 0 /\ g[0] = a /\ 1 .. 0 = {} BY <2>2
    <2>4. Gives(g, S, 0) BY <2>1, <2>3 DEF Gives
    <2> QED BY <2>4
<1>4. e - 1 \in Nat /\ e - 1 \notin Bad BY <1>2, <1>3
<1>5. PICK g : Gives(g, S, e - 1) BY <1>4
<1>6. PICK h : h = Given(g[e - 1], S) OBVIOUS
<1>7. PICK f : f = [i \in 0 .. e |-> IF i = e THEN h ELSE g[i]] OBVIOUS
<1>8. DOMAIN f = 0 .. e /\ f[e] = h /\ \A i \in 0 .. e - 1 : f[i] = g[i] BY <1>4, <1>7
<1>9. f[0] = [n \in S |-> 1] BY <1>4, <1>5, <1>8 DEF Gives
<1>10. ASSUME NEW k \in 1 .. e PROVE f[k] = Given(f[k - 1], S)
    <2>1. k - 1 \in 0 .. e - 1 /\ f[k - 1] = g[k - 1] BY <1>4, <1>8
    <2>2. CASE k = e BY <1>6, <1>8, <2>1, <2>2
    <2>3. CASE k # e
        <3>1. k \in 1 .. e - 1 /\ k \in 0 .. e - 1 BY <1>4, <2>3
        <3> QED BY <1>5, <1>8, <2>1, <3>1 DEF Gives
    <2> QED BY <2>2, <2>3
<1>11. Gives(f, S, e) BY <1>8, <1>9, <1>10 DEF Gives
<1> QED BY <1>2, <1>11

LEMMA ExtraNat ==
    ASSUME NEW S \in SUBSET Preclaiming, NEW budget \in Int
    PROVE  Extra(S, budget) \in Nat /\ Cardinality(S) + Extra(S, budget) <= Larger(Cardinality(S), budget)
<1>1. Cardinality(S) \in Nat /\ IsFiniteSet(S) BY ApiFinite
<1>2. PICK f : f = [n \in S |-> Independent(n)] OBVIOUS
<1>3. Whole(f, S) BY <1>2, IndependentRange DEF Whole
<1>4. SumOver(S, f) \in Int BY <1>1, <1>3, SumStep
<1> QED BY <1>1, <1>2, <1>4 DEF Extra, Larger, Smaller

LEMMA AllocateGives ==
    ASSUME NEW S \in SUBSET Preclaiming, NEW budget \in Int
    PROVE  \E g : Gives(g, S, Extra(S, budget)) /\ Allocate(S, budget) = g[Extra(S, budget)]
<1> DEFINE e == Extra(S, budget)
           D(f) == [k \in 0 .. e |->
               IF k = 0 THEN [n \in S |-> 1]
               ELSE LET a == f[k - 1]
                        open == {n \in S : a[n] < Independent(n)}
                    IN  IF open = {} THEN a
                        ELSE [a EXCEPT ![CHOOSE n \in open : \A m \in open : Gains(a, n, m)] = @ + 1]]
           g == CHOOSE f : f = D(f)
<1>1. e \in Nat BY ExtraNat
<1>2. Allocate(S, budget) = g[e] BY Zenon DEF Allocate, Extra
<1>3. ASSUME NEW f, NEW k \in 0 .. e, k # 0 PROVE D(f)[k] = Given(f[k - 1], S)
    BY <1>3 DEF Given, Open
<1>4. ASSUME NEW f PROVE DOMAIN D(f) = 0 .. e /\ D(f)[0] = [n \in S |-> 1] BY <1>1
<1>5. g = D(g)
    <2>1. PICK f : Gives(f, S, e) BY <1>1, GivesExist
    <2>2. PICK h : h = [k \in 0 .. e |-> f[k]] OBVIOUS
    <2>3. ASSUME NEW k \in 0 .. e PROVE h[k] = D(h)[k]
        <3>1. h[k] = f[k] BY <2>2
        <3>2. CASE k = 0 BY <1>4, <2>1, <3>1, <3>2 DEF Gives
        <3>3. CASE k # 0
            <4>1. k \in 1 .. e /\ k - 1 \in 0 .. e BY <1>1, <3>3
            <4>2. h[k - 1] = f[k - 1] BY <2>2, <4>1
            <4> HIDE DEF D
            <4> QED BY <1>3, <2>1, <3>1, <3>3, <4>1, <4>2 DEF Gives
        <3> QED BY <3>2, <3>3
    <2>4. h = D(h) BY <2>2, <2>3
    <2>5. \E x : x = D(x) BY <2>4
    <2> HIDE DEF D
    <2> QED BY <2>5
<1> HIDE DEF g, D
<1>6. Gives(g, S, e)
    <2>1. DOMAIN g = 0 .. e /\ g[0] = [n \in S |-> 1] BY <1>4, <1>5
    <2>2. ASSUME NEW k \in 1 .. e PROVE g[k] = Given(g[k - 1], S)
        <3>1. k \in 0 .. e /\ k # 0 BY <1>1
        <3> QED BY <1>3, <1>5, <3>1
    <2> QED BY <2>1, <2>2 DEF Gives
<1> QED BY <1>2, <1>6

(* Every node has between one pump and the pumps it can use; after k gifts *)
(* they have at most k more than the nodes are.                            *)
Fair(a, S, k) ==
    /\ a \in [S -> Nat \ {0}] /\ \A n \in S : a[n] <= Independent(n)
    /\ SumOver(S, a) <= Cardinality(S) + k

LEMMA GivenFair ==
    ASSUME NEW S \in SUBSET Preclaiming, NEW k \in Nat, NEW a, Fair(a, S, k)
    PROVE  Fair(Given(a, S), S, k + 1)
<1>1. IsFiniteSet(S) /\ Cardinality(S) \in Nat BY ApiFinite
<1>2. a \in [S -> Nat \ {0}] /\ a \in [S -> Int] BY DEF Fair
<1>3. SumOver(S, a) \in Int
    <2>1. Whole(a, S) BY <1>2 DEF Whole
    <2> QED BY <1>1, <2>1, SumStep
<1>4. CASE Open(a, S) = {} BY <1>1, <1>3, <1>4 DEF Fair, Given
<1>5. CASE Open(a, S) # {}
    <2>1. PICK x : x = CHOOSE n \in Open(a, S) : \A m \in Open(a, S) : Gains(a, n, m) OBVIOUS
    <2>2. Open(a, S) \in SUBSET S BY DEF Open
    <2>3. \E n \in Open(a, S) : \A m \in Open(a, S) : Gains(a, n, m) BY <1>2, <1>5, <2>2, BestExists
    <2>4. x \in Open(a, S) BY <2>1, <2>3
    <2>5. x \in S /\ a[x] < Independent(x) BY <2>4 DEF Open
    <2>6. PICK b : b = [a EXCEPT ![x] = @ + 1] OBVIOUS
    <2>7. Given(a, S) = b BY <1>5, <2>1, <2>6 DEF Given
    <2>8. b \in [S -> Nat \ {0}] /\ b[x] = a[x] + 1 /\ \A n \in S \ {x} : b[n] = a[n] BY <1>2, <2>5, <2>6
    <2>9. \A n \in S : b[n] <= Independent(n)
        <3>1. a[x] \in Nat /\ Independent(x) \in Nat BY <1>2, <2>5, IndependentRange
        <3> QED BY <2>5, <2>8, <3>1 DEF Fair
    <2>10. SumOver(S, b) = SumOver(S, a) + 1 BY <1>1, <1>2, <2>5, <2>6, SumBump
    <2> QED BY <1>1, <1>3, <2>7, <2>8, <2>9, <2>10 DEF Fair
<1> QED BY <1>4, <1>5

LEMMA AllocateFair ==
    ASSUME NEW S \in SUBSET Preclaiming, NEW budget \in Int
    PROVE  /\ Allocate(S, budget) \in [S -> 1 .. PumpCap]
           /\ SumOver(S, Allocate(S, budget)) \in Nat
           /\ SumOver(S, Allocate(S, budget)) >= Cardinality(S)
           /\ SumOver(S, Allocate(S, budget)) <= Larger(Cardinality(S), budget)
<1> DEFINE e == Extra(S, budget)
<1>1. e \in Nat /\ Cardinality(S) + e <= Larger(Cardinality(S), budget) BY ExtraNat
<1>2. IsFiniteSet(S) /\ Cardinality(S) \in Nat BY ApiFinite
<1>3. PICK g : Gives(g, S, e) /\ Allocate(S, budget) = g[e] BY AllocateGives
<1> HIDE DEF e
<1>4. ASSUME NEW k \in 0 .. e PROVE Fair(g[k], S, k)
    <2> DEFINE Bad == {i \in 0 .. e : ~Fair(g[i], S, i)}
    <2>1. SUFFICES ASSUME Bad # {} PROVE FALSE OBVIOUS
    <2>2. Bad \in SUBSET Nat BY <1>1
    <2>3. PICK i \in Bad : \A m \in Bad : i <= m BY <2>1, <2>2, LeastNatural
    <2>4. i # 0
        <3>1. PICK a : a = [n \in S |-> 1] OBVIOUS
        <3>2. SumOver(S, a) = 1 * Cardinality(S) BY <1>2, <3>1, SumConst
        <3>3. \A n \in S : a[n] <= Independent(n) BY <3>1, IndependentRange
        <3>4. a \in [S -> Nat \ {0}] BY <3>1
        <3>5. Fair(a, S, 0) BY <1>2, <3>2, <3>3, <3>4 DEF Fair
        <3> QED BY <1>3, <2>3, <3>1, <3>5 DEF Gives
    <2>5. i \in 1 .. e /\ i - 1 \in 0 .. e /\ i - 1 \in Nat /\ i - 1 \notin Bad BY <1>1, <2>3, <2>4
    <2>6. Fair(g[i - 1], S, i - 1) BY <2>5
    <2>7. Fair(g[i], S, (i - 1) + 1) BY <1>3, <2>5, <2>6, GivenFair DEF Gives
    <2>8. (i - 1) + 1 = i BY <2>5
    <2> QED BY <2>3, <2>7, <2>8
<1>5. PICK a : a = Allocate(S, budget) OBVIOUS
<1>6. Fair(a, S, e) BY <1>1, <1>3, <1>4, <1>5
<1>7. a \in [S -> 1 .. PumpCap]
    <2>1. a \in [S -> Nat \ {0}] BY <1>6 DEF Fair
    <2>2. ASSUME NEW n \in S PROVE a[n] \in 1 .. PumpCap
        <3>1. a[n] \in Nat \ {0} BY <2>1
        <3>2. a[n] <= Independent(n) BY <1>6 DEF Fair
        <3>3. Independent(n) \in 1 .. PumpCap BY IndependentRange
        <3>4. PumpCap \in Nat BY GraphAssumption
        <3> QED BY <3>1, <3>2, <3>3, <3>4
    <2> QED BY <2>1, <2>2
<1>8. Whole(a, S)
    <2>1. a \in [S -> Nat \ {0}] BY <1>6 DEF Fair
    <2> QED BY <2>1 DEF Whole
<1>9. SumOver(S, a) \in Int /\ SumOver(S, a) <= Cardinality(S) + e BY <1>2, <1>6, <1>8, SumStep DEF Fair
<1>10. SumOver(S, a) >= Cardinality(S)
    <2>1. PICK o : o = [n \in S |-> 1] OBVIOUS
    <2>2. SumOver(S, o) = 1 * Cardinality(S) BY <1>2, <2>1, SumConst
    <2>3. Whole(o, S) BY <2>1 DEF Whole
    <2>4. ASSUME NEW n \in S PROVE o[n] <= a[n]
        <3>1. a[n] \in Nat \ {0} BY <1>6 DEF Fair
        <3> QED BY <2>1, <3>1
    <2>5. SumOver(S, o) <= SumOver(S, a) BY <1>2, <1>8, <2>3, <2>4, SumMono
    <2> QED BY <1>2, <1>9, <2>2, <2>5
<1>11. Larger(Cardinality(S), budget) \in Int BY <1>2 DEF Larger
<1> QED BY <1>1, <1>2, <1>5, <1>7, <1>9, <1>10, <1>11

-----------------------------------------------------------------------------
(***************************************************************************)
(* A pump that is there belongs to a unit in flight, whose parents are     *)
(* complete.                                                               *)
(***************************************************************************)
LEMMA UnitWorks ==
    ASSUME IndInv, NEW U \in Units, coord[U] \notin {"idle", "ended"}
    PROVE  U \in flight /\ dag \notin {"returned", "raised"} /\ ~Undisturbed
<1>1. U \in flight BY DEF IndInv, Flights, Aloft
<1> QED BY <1>1 DEF IndInv, Flights, Undisturbed

LEMMA PumpWorks ==
    ASSUME IndInv, NEW n \in Nodes, pump[n] # "none"
    PROVE  /\ UnitOf[n] \in Units
           /\ coord[UnitOf[n]] \in {"attach", "reap", "observe", "decide", "join"}
           /\ life[UnitOf[n]] = "running" /\ UnitOf[n] \in flight
           /\ dag \notin {"returned", "raised"}
<1>1. UnitOf[n] \in Units BY UnitsPartition
<1>2. coord[UnitOf[n]] \notin Still BY DEF IndInv, PumpsStill
<1>3. coord[UnitOf[n]] \in {"attach", "reap", "observe", "decide", "join"}
    BY <1>1, <1>2 DEF Still, IndInv, TypeOK
<1>4. Stage(UnitOf[n]) BY <1>1 DEF IndInv, Stages
<1> QED BY <1>1, <1>3, <1>4, UnitWorks DEF Stage, Working

(* A job moves within its pump.                                            *)
Moves(j) ==
    /\ \A k \in Jobs \ {j} : row'[k] = row[k] /\ place'[k] = place[k] /\ (k \in passed' <=> k \in passed)
    /\ row'[j] \in {"queued", "running"} => row[j] \in {"queued", "running"}
    /\ UNCHANGED <<pump, life, unitVars, dagVars, pauseVars>>

LEMMA MovesKeep ==
    ASSUME IndInv, NEW j \in Jobs, pump[Home[j]] # "none", Moves(j), TypeOK', Carried(j)',
           ~Stuck(j, UnitOf[Home[j]])
    PROVE  IndInv'
<1> DEFINE H == UnitOf[Home[j]]
<1>1. H \in Units /\ Home[j] \in Nodes /\ j \in JobsOf(H) BY JobHome
<1>2. life[H] = "running" /\ dag \notin {"returned", "raised"} BY <1>1, PumpWorks
<1>3. \A U \in Units : U # H => j \notin JobsOf(U) BY JobHome
<1>4. \A k \in Jobs \ {j} : row'[k] = row[k] /\ place'[k] = place[k] /\ (k \in passed' <=> k \in passed)
    BY DEF Moves
<1>5. UNCHANGED <<pump, life, coord, seen, stop, why, outcome, dag, scan, ready, flight, stopped, share,
                  request, paused, pauses>>
    BY DEF Moves, unitVars, dagVars, pauseVars
<1>6. Stages' /\ Flights' /\ PumpsStill' BY <1>5 DEF IndInv, Stages, Stage, ComponentReady, Flights, Aloft, PumpsStill
<1>7. JobsCarried'
    <2>1. ASSUME NEW k \in Jobs, k # j PROVE Carried(k)'
        <3>1. Carried(k) BY DEF IndInv, JobsCarried
        <3> QED BY <1>4, <1>5, <2>1, <3>1 DEF Carried
    <2> QED BY <2>1 DEF JobsCarried
<1>8. QuietHolds'
    <2> SUFFICES ASSUME NEW U \in Units, ConcludesQuiet(U)' PROVE Idle(U)' BY DEF QuietHolds
    <2>1. ConcludesQuiet(U) BY <1>5 DEF ConcludesQuiet, Quiescent
    <2>2. Idle(U) BY <2>1 DEF IndInv, QuietHolds
    <2>3. ASSUME NEW k \in JobsOf(U) PROVE row'[k] \notin {"queued", "running"}
        <3>1. row[k] \notin {"queued", "running"} BY <2>2 DEF Idle
        <3>2. k \in Jobs BY DEF JobsOf
        <3> QED BY <1>4, <3>1, <3>2 DEF Moves
    <2> QED BY <2>3 DEF Idle
<1>9. DeadHolds'
    <2> SUFFICES ASSUME NEW U \in Units, ConcludesDead(U)' PROVE Dead(U)' BY DEF DeadHolds
    <2>1. ConcludesDead(U)
        BY <1>5 DEF ConcludesDead, Deadlocked, Blocked, Blocking, Active
    <2>2. Dead(U) BY <2>1 DEF IndInv, DeadHolds
    <2>3. U # H BY <1>1, <2>2 DEF Dead
    <2>4. ASSUME NEW k \in JobsOf(U) PROVE k \in Jobs /\ row'[k] = row[k] /\ place'[k] = place[k]
        BY <1>3, <1>4, <2>3 DEF JobsOf
    <2>5. ASSUME NEW k \in JobsOf(U) PROVE Stuck(k, U)'
        <3>1. Stuck(k, U) BY <2>2 DEF Dead
        <3>2. Waits(k, U) => Waits(k, U)' BY <2>4 DEF Waits
        <3> QED BY <1>5, <2>4, <3>1, <3>2 DEF Stuck
    <2> QED BY <2>5 DEF Dead
<1>10. DoneHolds'
    <2> SUFFICES ASSUME NEW U \in Units, life'[U] = "done" PROVE Complete(U)' BY DEF DoneHolds
    <2>1. Complete(U) /\ U # H BY <1>2, <1>5 DEF IndInv, DoneHolds
    <2>2. ASSUME NEW k \in JobsOf(U) PROVE row'[k] = row[k] BY <1>3, <1>4, <2>1 DEF JobsOf
    <2> QED BY <2>1, <2>2 DEF Complete
<1>11. SharesHeld' /\ ScanExact' /\ PumpBudgetKept'
    BY <1>5 DEF IndInv, SharesHeld, ScanExact, Undisturbed, Looked, UnitReady, ComponentReady, PumpBudgetKept, Held
<1>12. ReturnsComplete' BY <1>2, <1>5 DEF ReturnsComplete
<1> QED BY <1>6, <1>7, <1>8, <1>9, <1>10, <1>11, <1>12 DEF IndInv

LEMMA PullKeeps == ASSUME IndInv, NEW j \in Jobs, Pull(j) PROVE IndInv'
<1>1. Carried(j) /\ TypeOK /\ Home[j] \in Nodes BY JobHome DEF IndInv, JobsCarried
<1>2. row[j] = "queued" BY <1>1 DEF Pull, Offered, Carried
<1>3. j \notin passed /\ pump[Home[j]] = "open" BY DEF Pull, Offered
<1>4. place[j] = "none" BY <1>1, <1>3 DEF Carried
<1>5. TypeOK' BY <1>1 DEF TypeOK, Pull, unitVars, dagVars, pauseVars
<1>6. Moves(j)
    BY <1>1, <1>2 DEF Moves, Pull, TypeOK
<1>7. Carried(j)' BY <1>1, <1>2, <1>3, <1>4 DEF Carried, Pull, TypeOK
<1>8. ~Stuck(j, UnitOf[Home[j]]) BY <1>2, <1>3 DEF Stuck
<1> QED BY <1>3, <1>5, <1>6, <1>7, <1>8, MovesKeep

LEMMA PutBackKeeps ==
    ASSUME IndInv, NEW j \in Jobs, PutBack(j) \/ AbandonUnstarted(j)
    PROVE  IndInv'
<1>1. Carried(j) /\ TypeOK /\ Home[j] \in Nodes BY JobHome DEF IndInv, JobsCarried
<1>2. place[j] = "taken" BY DEF PutBack, AbandonUnstarted
<1>3. pump[Home[j]] # "none" /\ j \in passed /\ row[j] = IF Home[j] \in Preclaiming THEN "running" ELSE "queued"
    BY <1>1, <1>2 DEF Carried
<1>4. TypeOK' BY <1>1 DEF TypeOK, PutBack, AbandonUnstarted, unitVars, dagVars, pauseVars
<1>5. Moves(j) BY <1>1, <1>3 DEF Moves, PutBack, AbandonUnstarted, TypeOK
<1>6. Carried(j)' BY <1>1, <1>3 DEF Carried, PutBack, AbandonUnstarted, TypeOK
<1>7. ~Stuck(j, UnitOf[Home[j]]) BY <1>2 DEF Stuck
<1> QED BY <1>3, <1>4, <1>5, <1>6, <1>7, MovesKeep

LEMMA StartKeeps ==
    ASSUME IndInv, NEW j \in Jobs, ClearToRun(j) \/ StartJob(j)
    PROVE  IndInv'
<1>1. Carried(j) /\ TypeOK /\ Home[j] \in Nodes BY JobHome DEF IndInv, JobsCarried
<1>2. place[j] \in {"taken", "cleared"} BY DEF ClearToRun, StartJob
<1>3. pump[Home[j]] \in {"open", "unwinding"} /\ j \in passed
      /\ row[j] = IF Home[j] \in Preclaiming THEN "running" ELSE "queued"
    BY <1>1, <1>2 DEF Carried
<1>4. TypeOK' BY <1>1 DEF TypeOK, ClearToRun, StartJob, unitVars, dagVars, pauseVars
<1>5. Moves(j) BY <1>1, <1>3 DEF Moves, ClearToRun, StartJob, TypeOK
<1>6. Carried(j)' BY <1>1, <1>3 DEF Carried, ClearToRun, StartJob, TypeOK
<1>7. ~Stuck(j, UnitOf[Home[j]]) BY <1>2 DEF Stuck
<1> QED BY <1>3, <1>4, <1>5, <1>6, <1>7, MovesKeep

LEMMA EndsKeep ==
    ASSUME IndInv, NEW j \in Jobs, JobDone(j) \/ JobFails(j) \/ JobIsLost(j)
    PROVE  IndInv'
<1>1. Carried(j) /\ TypeOK /\ Home[j] \in Nodes BY JobHome DEF IndInv, JobsCarried
<1>2. place[j] \in {"running", "published"} BY DEF JobDone, JobFails, JobIsLost
<1>3. pump[Home[j]] \in {"open", "unwinding"} /\ j \in passed /\ row[j] = "running" BY <1>1, <1>2 DEF Carried
<1>4. TypeOK' BY <1>1 DEF TypeOK, JobDone, JobFails, JobIsLost, unitVars, dagVars, pauseVars
<1>5. Moves(j) BY <1>1, <1>3 DEF Moves, JobDone, JobFails, JobIsLost, TypeOK
<1>6. Carried(j)' BY <1>1, <1>3 DEF Carried, JobDone, JobFails, JobIsLost, TypeOK
<1>7. ~Stuck(j, UnitOf[Home[j]]) BY <1>2 DEF Stuck
<1> QED BY <1>3, <1>4, <1>5, <1>6, <1>7, MovesKeep

(* What a job publishes belongs to its own unit, or to one that has not    *)
(* begun because this one has not ended.                                   *)
LEMMA PublishKeeps == ASSUME IndInv, NEW j \in Jobs, Publish(j) PROVE IndInv'
<1> DEFINE H == UnitOf[Home[j]]
<1>1. Carried(j) /\ TypeOK /\ Home[j] \in Nodes /\ H \in Units /\ j \in JobsOf(H)
    BY JobHome DEF IndInv, JobsCarried
<1>2. place[j] = "running" /\ row[j] = "running" /\ pump[Home[j]] \in {"open", "unwinding"} /\ j \in passed
    BY <1>1 DEF Publish, Carried
<1>3. life[H] = "running" /\ dag \notin {"returned", "raised"} BY <1>1, <1>2, PumpWorks
<1>4. UNCHANGED <<passed, pump, life, coord, seen, stop, why, outcome, dag, scan, ready, flight, stopped,
                  share, request, paused, pauses>>
    BY DEF Publish, unitVars, dagVars, pauseVars
<1>5. TypeOK' BY <1>1, <1>4 DEF TypeOK, Publish
<1>6. ASSUME NEW k \in Jobs, row'[k] # row[k]
      PROVE  /\ row[k] = "absent" /\ row'[k] = "queued"
             /\ UnitOf[Home[k]] = H \/ life[UnitOf[Home[k]]] = "queued"
    <2>1. k \in Produces[j] /\ row[k] = "absent" /\ row'[k] = "queued" BY <1>6 DEF Publish
    <2>2. H = UnitOf[Home[k]] \/ H \in Parents[UnitOf[Home[k]]] BY <2>1, GraphAssumption
    <2>3. UnitOf[Home[k]] \in Units BY JobHome
    <2>4. Stage(UnitOf[Home[k]]) BY <2>3 DEF IndInv, Stages
    <2> QED BY <1>3, <2>1, <2>2, <2>4 DEF Stage, ComponentReady
<1>7. Stages' /\ Flights' /\ PumpsStill' BY <1>4 DEF IndInv, Stages, Stage, ComponentReady, Flights, Aloft, PumpsStill
<1>8. JobsCarried'
    <2> SUFFICES ASSUME NEW k \in Jobs PROVE Carried(k)' BY DEF JobsCarried
    <2>1. Carried(k) BY DEF IndInv, JobsCarried
    <2>2. place'[j] = "published" /\ (k # j => place'[k] = place[k]) BY <1>1 DEF Publish, TypeOK
    <2>3. row'[k] = row[k] \/ (row[k] = "absent" /\ row'[k] = "queued") BY <1>6
    <2>4. CASE k = j BY <1>2, <1>4, <2>1, <2>2, <2>3, <2>4 DEF Carried
    <2>5. CASE k # j
        <3>1. row[k] = "absent" => place[k] = "none" BY <1>1, <2>1 DEF Carried, TypeOK
        <3> QED BY <1>4, <2>1, <2>2, <2>3, <2>5, <3>1 DEF Carried
    <2> QED BY <2>4, <2>5
<1>9. ASSUME NEW U \in Units, U # H, life[U] # "queued", NEW k \in JobsOf(U)
      PROVE  k \in Jobs /\ row'[k] = row[k] /\ place'[k] = place[k]
    <2>1. k \in Jobs /\ UnitOf[Home[k]] = U BY JobHome DEF JobsOf
    <2>2. row'[k] = row[k] BY <1>6, <1>9, <2>1
    <2>3. k # j BY <1>9, <2>1
    <2> QED BY <1>1, <2>1, <2>2, <2>3 DEF Publish, TypeOK
<1>10. QuietHolds'
    <2> SUFFICES ASSUME NEW U \in Units, ConcludesQuiet(U)' PROVE Idle(U)' BY DEF QuietHolds
    <2>1. ConcludesQuiet(U) BY <1>4 DEF ConcludesQuiet, Quiescent
    <2>2. Idle(U) BY <2>1 DEF IndInv, QuietHolds
    <2>3. U # H BY <1>1, <1>2, <2>2 DEF Idle
    <2>4. life[U] # "queued" BY <2>1 DEF ConcludesQuiet, IndInv, Stages, Stage, Working
    <2> QED BY <1>9, <2>2, <2>3, <2>4 DEF Idle
<1>11. DeadHolds'
    <2> SUFFICES ASSUME NEW U \in Units, ConcludesDead(U)' PROVE Dead(U)' BY DEF DeadHolds
    <2>1. ConcludesDead(U)
        BY <1>4 DEF ConcludesDead, Deadlocked, Blocked, Blocking, Active
    <2>2. Dead(U) BY <2>1 DEF IndInv, DeadHolds
    <2>3. U # H BY <1>1, <1>2, <2>2 DEF Dead, Stuck
    <2>4. life[U] # "queued" BY <2>1 DEF ConcludesDead, IndInv, Stages, Stage, Working
    <2>5. ASSUME NEW k \in JobsOf(U) PROVE Stuck(k, U)'
        <3>1. Stuck(k, U) BY <2>2 DEF Dead
        <3>2. Waits(k, U) => Waits(k, U)' BY <1>9, <2>3, <2>4 DEF Waits
        <3> QED BY <1>4, <1>9, <2>3, <2>4, <3>1, <3>2 DEF Stuck
    <2> QED BY <2>5 DEF Dead
<1>12. DoneHolds'
    <2> SUFFICES ASSUME NEW U \in Units, life'[U] = "done" PROVE Complete(U)' BY DEF DoneHolds
    <2>1. Complete(U) /\ U # H /\ life[U] # "queued" BY <1>3, <1>4 DEF IndInv, DoneHolds
    <2> QED BY <1>9, <2>1 DEF Complete
<1>13. SharesHeld' /\ ScanExact' /\ PumpBudgetKept'
    BY <1>4 DEF IndInv, SharesHeld, ScanExact, Undisturbed, Looked, UnitReady, ComponentReady, PumpBudgetKept, Held
<1>14. ReturnsComplete' BY <1>3, <1>4 DEF ReturnsComplete
<1> QED BY <1>5, <1>7, <1>8, <1>10, <1>11, <1>12, <1>13, <1>14 DEF IndInv

-----------------------------------------------------------------------------
(***************************************************************************)
(* The Future of a pump changes its state; the pump stays the unit's.      *)
(***************************************************************************)
PumpMoves(n) ==
    /\ pump'[n] # "none" /\ (pump'[n] = "ready" => IsLive(n))
    /\ \A m \in Nodes \ {n} : pump'[m] = pump[m]
    /\ \A k \in Jobs : place'[k] \in {place[k], "none"}
    /\ \A k \in Jobs : Home[k] # n => place'[k] = place[k] /\ (k \in passed' <=> k \in passed)
    /\ UNCHANGED <<row, life, coord, seen, why, outcome, dagVars, pauseVars>>

LEMMA PumpMovesKeep ==
    ASSUME IndInv, NEW n \in Nodes, pump[n] # "none", PumpMoves(n), TypeOK',
           \A k \in Jobs : Home[k] = n => Carried(k)'
    PROVE  IndInv'
<1>1. dag \notin {"returned", "raised"} /\ coord[UnitOf[n]] \notin Still BY PumpWorks DEF Still
<1>2. \A m \in Nodes : pump'[m] = "none" <=> pump[m] = "none" BY DEF PumpMoves
<1>3. UNCHANGED <<row, life, coord, seen, why, outcome, dag, scan, ready, flight, stopped, share,
                  request, paused, pauses>>
    BY DEF PumpMoves, dagVars, pauseVars
<1>4. Stages' /\ Flights' BY <1>3 DEF IndInv, Stages, Stage, ComponentReady, Flights, Aloft
<1>5. PumpsStill'
    <2>1. ASSUME NEW m \in Nodes, pump'[m] = "ready" PROVE IsLive(m)
        BY <2>1 DEF PumpMoves, IndInv, PumpsStill
    <2> QED BY <1>2, <1>3, <2>1 DEF IndInv, PumpsStill
<1>6. JobsCarried'
    <2>1. ASSUME NEW k \in Jobs, Home[k] # n PROVE Carried(k)'
        <3>1. Carried(k) /\ Home[k] \in Nodes BY JobHome DEF IndInv, JobsCarried
        <3>2. pump'[Home[k]] = pump[Home[k]] BY <2>1, <3>1 DEF PumpMoves
        <3>3. place'[k] = place[k] /\ (k \in passed' <=> k \in passed) BY <2>1 DEF PumpMoves
        <3> QED BY <1>3, <3>1, <3>2, <3>3 DEF Carried
    <2> QED BY <2>1 DEF JobsCarried
<1>7. QuietHolds' BY <1>3 DEF IndInv, QuietHolds, ConcludesQuiet, Quiescent, Idle
<1>8. DeadHolds'
    <2> SUFFICES ASSUME NEW U \in Units, ConcludesDead(U)' PROVE Dead(U)' BY DEF DeadHolds
    <2>1. U \subseteq Nodes BY UnitsPartition
    <2>2. Active(U)' = Active(U) BY <1>2, <2>1 DEF Active
    <2>3. Blocked(U)' = Blocked(U) BY <1>3 DEF Blocked, Blocking
    <2>4. ConcludesDead(U) BY <1>3, <2>2, <2>3 DEF ConcludesDead, Deadlocked
    <2>5. Dead(U) BY <2>4 DEF IndInv, DeadHolds
    <2>6. ASSUME NEW k \in JobsOf(U) PROVE Stuck(k, U)'
        <3>1. Stuck(k, U) BY <2>5 DEF Dead
        <3>2. k \in Jobs /\ Home[k] \in Nodes BY JobHome DEF JobsOf
        <3>3. place'[k] \in {place[k], "none"} BY <3>2 DEF PumpMoves
        <3>4. pump[Home[k]] = "none" => pump'[Home[k]] = "none" BY <1>2, <3>2
        <3>5. Waits(k, U) => Waits(k, U)' BY <1>3 DEF Waits
        <3> QED BY <1>3, <3>1, <3>3, <3>4, <3>5 DEF Stuck
    <2> QED BY <2>6 DEF Dead
<1>9. DoneHolds' BY <1>3 DEF IndInv, DoneHolds, Complete
<1>10. SharesHeld' /\ ScanExact' /\ PumpBudgetKept'
    BY <1>3 DEF IndInv, SharesHeld, ScanExact, Undisturbed, Looked, UnitReady, ComponentReady, PumpBudgetKept, Held
<1>11. ReturnsComplete' BY <1>1, <1>3 DEF ReturnsComplete
<1> QED BY <1>4, <1>5, <1>6, <1>7, <1>8, <1>9, <1>10, <1>11 DEF IndInv

LEMMA JobRaisesKeeps == ASSUME IndInv, NEW j \in Jobs, JobRaises(j) PROVE IndInv'
<1>1. TypeOK /\ Home[j] \in Nodes /\ UnitOf[Home[j]] \in Units BY JobHome DEF IndInv
<1>2. Carried(j) BY DEF IndInv, JobsCarried
<1>3. pump[Home[j]] # "none" /\ j \in passed BY <1>2 DEF JobRaises, Carried
<1>4. pump' = [pump EXCEPT ![Home[j]] = "unwinding"] /\ place' = [place EXCEPT ![j] = "none"]
      /\ UNCHANGED <<row, passed>>
    BY DEF JobRaises
<1>5. TypeOK' BY <1>1 DEF TypeOK, JobRaises, dagVars, pauseVars
<1>6. PumpMoves(Home[j]) BY <1>1, <1>4 DEF PumpMoves, JobRaises, TypeOK
<1>7. ASSUME NEW k \in Jobs, Home[k] = Home[j] PROVE Carried(k)'
    <2>1. Carried(k) BY DEF IndInv, JobsCarried
    <2>2. pump'[Home[k]] = "unwinding" BY <1>1, <1>4, <1>7 DEF TypeOK
    <2>3. place'[k] = IF k = j THEN "none" ELSE place[k] BY <1>1, <1>4 DEF TypeOK
    <2> QED BY <1>4, <2>1, <2>2, <2>3 DEF Carried
<1> QED BY <1>1, <1>3, <1>5, <1>6, <1>7, PumpMovesKeep

LEMMA PumpStepKeeps == ASSUME IndInv, NEW n \in Nodes, PumpStep(n) \/ OpenFails(n) PROVE IndInv'
<1>1. TypeOK /\ UnitOf[n] \in Units BY UnitsPartition DEF IndInv
<1>2. pump[n] # "none" /\ UNCHANGED <<row, place>>
    BY DEF PumpStep, OpenSource, PumpStarts, PumpReturns, PumpRaises, OpenFails, jobVars
<1>3. TypeOK'
    <2>1. CASE OpenSource(n) BY <1>1, <2>1 DEF TypeOK, OpenSource, unitVars, dagVars, pauseVars
    <2>2. CASE PumpStarts(n) \/ PumpReturns(n) \/ PumpRaises(n)
        BY <1>1, <2>2 DEF TypeOK, PumpStarts, PumpReturns, PumpRaises, jobVars, unitVars, dagVars, pauseVars
    <2>3. CASE OpenFails(n) BY <1>1, <2>3 DEF TypeOK, OpenFails, jobVars, dagVars, pauseVars
    <2> QED BY <2>1, <2>2, <2>3 DEF PumpStep
<1>4. \E s \in {"ready", "open", "returned", "raised"} :
          pump' = [pump EXCEPT ![n] = s] /\ (s = "ready" => IsLive(n))
    BY DEF PumpStep, OpenSource, PumpStarts, PumpReturns, PumpRaises, OpenFails
<1>5. \A k \in Jobs : Home[k] # n => (k \in passed' <=> k \in passed)
    BY DEF PumpStep, OpenSource, PumpStarts, PumpReturns, PumpRaises, OpenFails, jobVars
<1>6. UNCHANGED <<life, coord, seen, why, outcome, dagVars, pauseVars>>
    BY DEF PumpStep, OpenSource, PumpStarts, PumpReturns, PumpRaises, OpenFails, unitVars
<1>7. PumpMoves(n) BY <1>1, <1>2, <1>4, <1>5, <1>6 DEF PumpMoves, TypeOK
<1>8. ASSUME NEW k \in Jobs, Home[k] = n PROVE Carried(k)'
    <2>1. Carried(k) BY DEF IndInv, JobsCarried
    <2>2. place[k] = "none"
        <3>1. CASE OpenSource(n) \/ PumpStarts(n) \/ OpenFails(n)
            BY <1>8, <2>1, <3>1 DEF Carried, OpenSource, PumpStarts, OpenFails
        <3>2. CASE PumpReturns(n) \/ PumpRaises(n)
            <4>1. Busy(n) = {} /\ Holds(n, {"taken"}) = {} BY <3>2 DEF PumpReturns, PumpRaises
            <4>2. place[k] \notin {"taken", "cleared", "running", "published", "failing"}
                BY <1>8, <4>1 DEF Busy, Holds
            <4> QED BY <1>1, <4>2 DEF TypeOK
        <3> QED BY <3>1, <3>2 DEF PumpStep
    <2>3. CASE OpenSource(n)
        <3>1. row[k] # "running" /\ pump'[n] \in {"open", "ready"}
            BY <1>1, <1>8, <2>1, <2>2, <2>3 DEF Carried, OpenSource, TypeOK
        <3>2. ~Refreshable(n) /\ k \notin passed' => row[k] = "queued"
            BY <1>8, <2>3 DEF OpenSource, Queued
        <3> QED BY <1>2, <1>8, <2>2, <3>1, <3>2 DEF Carried
    <2>4. CASE PumpStarts(n)
        <3>1. row[k] # "running" /\ pump'[n] = "open" /\ pump[n] = "ready"
            BY <1>1, <1>8, <2>1, <2>2, <2>4 DEF Carried, PumpStarts, TypeOK
        <3>2. Refreshable(n) BY <3>1 DEF Refreshable, IndInv, PumpsStill
        <3> QED BY <1>2, <1>8, <2>2, <3>1, <3>2 DEF Carried
    <2>5. CASE PumpReturns(n) \/ PumpRaises(n) \/ OpenFails(n)
        <3>1. pump'[n] \in {"returned", "raised"} /\ (pump[n] \in {"unwinding", "raised"} => pump'[n] = "raised")
            BY <1>1, <2>5 DEF PumpReturns, PumpRaises, OpenFails, TypeOK
        <3> QED BY <1>2, <1>8, <2>1, <2>2, <3>1 DEF Carried
    <2> QED BY <2>3, <2>4, <2>5 DEF PumpStep
<1> QED BY <1>2, <1>3, <1>7, <1>8, PumpMovesKeep

-----------------------------------------------------------------------------
(***************************************************************************)
(* The coordinator of a unit takes a step: what it leaves alone, and what  *)
(* is to be shown of its own unit.                                         *)
(***************************************************************************)
UnitMoves(U) ==
    /\ \A V \in Units \ {U} : /\ coord'[V] = coord[V] /\ life'[V] = life[V] /\ seen'[V] = seen[V]
                              /\ why'[V] = why[V] /\ outcome'[V] = outcome[V]
    /\ \A n \in Nodes \ U : pump'[n] = pump[n]
    /\ \A j \in Jobs : j \notin JobsOf(U) => row'[j] = row[j]
    /\ UNCHANGED <<place, passed, dagVars, pauseVars>>

UnitSound(U) ==
    /\ coord[U] # "idle" /\ Stage(U)
    /\ \A n \in U : (coord[U] \in Still => pump[n] = "none") /\ (pump[n] = "ready" => IsLive(n))
    /\ \A j \in JobsOf(U) : Carried(j)
    /\ ConcludesQuiet(U) => Idle(U)
    /\ ConcludesDead(U) => Dead(U)
    /\ life[U] = "done" => Complete(U)

LEMMA SoundUnit ==
    ASSUME IndInv, NEW U \in Units, coord[U] # "idle"
    PROVE  UnitSound(U)
<1>1. \A n \in U : n \in Nodes /\ UnitOf[n] = U BY UnitsPartition
<1>2. \A n \in U : (coord[U] \in Still => pump[n] = "none") /\ (pump[n] = "ready" => IsLive(n))
    BY <1>1 DEF IndInv, PumpsStill
<1>3. \A j \in JobsOf(U) : Carried(j) BY DEF IndInv, JobsCarried, JobsOf
<1>4. Stage(U) BY DEF IndInv, Stages
<1> QED BY <1>2, <1>3, <1>4 DEF UnitSound, IndInv, QuietHolds, DeadHolds, DoneHolds

LEMMA UnitMovesKeep ==
    ASSUME IndInv, NEW U \in Units, coord[U] \notin {"idle", "ended"}, UnitMoves(U), TypeOK', UnitSound(U)'
    PROVE  IndInv'
<1>1. U \in flight /\ dag \notin {"returned", "raised"} /\ flight # {} BY UnitWorks
<1>2. UNCHANGED <<place, passed, dag, scan, ready, flight, stopped, share, request, paused, pauses>>
    BY DEF UnitMoves, dagVars, pauseVars
<1>3. ASSUME NEW V \in Units, V # U
      PROVE  /\ coord'[V] = coord[V] /\ life'[V] = life[V] /\ seen'[V] = seen[V] /\ why'[V] = why[V]
             /\ outcome'[V] = outcome[V]
    BY <1>3 DEF UnitMoves
<1>4. ASSUME NEW V \in Units, V # U, NEW n \in V
      PROVE  n \in Nodes /\ UnitOf[n] = V /\ n \notin U /\ pump'[n] = pump[n]
    <2>1. n \in Nodes /\ UnitOf[n] = V BY UnitsPartition
    <2>2. n \notin U BY <1>4, <2>1, UnitsPartition
    <2> QED BY <2>1, <2>2 DEF UnitMoves
<1>5. ASSUME NEW V \in Units, V # U, NEW j \in JobsOf(V)
      PROVE  /\ j \in Jobs /\ row'[j] = row[j] /\ place'[j] = place[j] /\ pump'[Home[j]] = pump[Home[j]]
             /\ j \in passed' <=> j \in passed
    <2>1. j \in Jobs /\ Home[j] \in V /\ UnitOf[Home[j]] = V BY JobHome DEF JobsOf
    <2>2. j \notin JobsOf(U) BY <1>5, <2>1, JobHome
    <2> QED BY <1>2, <1>4, <1>5, <2>1, <2>2 DEF UnitMoves
<1>6. life[U] # "done"
    <2>1. Stage(U) /\ coord[U] \in {"begin"} \cup Working
        BY DEF IndInv, Stages, TypeOK, Working
    <2> QED BY <2>1 DEF Stage
<1>7. ASSUME NEW V \in Units, V # U PROVE UnitSound(V)' \/ coord'[V] = "idle"
    <2>1. SUFFICES ASSUME coord[V] # "idle" PROVE UnitSound(V)' BY <1>3, <1>7
    <2>2. UnitSound(V) BY <2>1, SoundUnit
    <2>3. Stage(V)'
        <3>1. Stage(V) BY <2>2 DEF UnitSound
        <3>2. ComponentReady(V) => ComponentReady(V)'
            <4> SUFFICES ASSUME ComponentReady(V), NEW W \in Parents[V] PROVE life'[W] = "done"
                BY DEF ComponentReady
            <4>1. life[W] = "done" /\ W \in Units BY ParentIsUnit DEF ComponentReady
            <4> QED BY <1>3, <1>6, <4>1
        <3> QED BY <1>3, <1>7, <3>1, <3>2 DEF Stage
    <2>4. \A n \in V : (coord'[V] \in Still => pump'[n] = "none") /\ (pump'[n] = "ready" => IsLive(n))
        BY <1>3, <1>4, <1>7, <2>2 DEF UnitSound
    <2>5. \A j \in JobsOf(V) : Carried(j)' BY <1>5, <1>7, <2>2 DEF UnitSound, Carried
    <2>6. ConcludesQuiet(V)' => Idle(V)'
        BY <1>3, <1>5, <1>7, <2>2 DEF UnitSound, ConcludesQuiet, Quiescent, Idle
    <2>7. ConcludesDead(V)' => Dead(V)'
        <3>1. SUFFICES ASSUME ConcludesDead(V)' PROVE Dead(V)' OBVIOUS
        <3>2. Active(V)' = Active(V) BY <1>4, <1>7 DEF Active
        <3>3. Blocked(V)' = Blocked(V) BY <1>3, <1>7 DEF Blocked, Blocking
        <3>4. ConcludesDead(V) BY <1>3, <1>7, <3>1, <3>2, <3>3 DEF ConcludesDead, Deadlocked
        <3>5. ASSUME NEW k \in JobsOf(V) PROVE Stuck(k, V)'
            <4>1. Stuck(k, V) BY <2>2, <3>4 DEF UnitSound, Dead
            <4>2. Waits(k, V) => Waits(k, V)' BY <1>5, <1>7 DEF Waits
            <4> QED BY <1>5, <1>7, <4>1, <4>2 DEF Stuck
        <3> QED BY <3>5 DEF Dead
    <2>8. life'[V] = "done" => Complete(V)' BY <1>3, <1>5, <1>7, <2>2 DEF UnitSound, Complete
    <2> QED BY <1>3, <1>7, <2>1, <2>3, <2>4, <2>5, <2>6, <2>7, <2>8 DEF UnitSound
<1>8. ASSUME NEW V \in Units, V # U, coord'[V] = "idle"
      PROVE  /\ Stage(V)' /\ life'[V] = "queued" /\ why'[V] = "none"
             /\ \A n \in V : pump'[n] = "none"
             /\ \A j \in JobsOf(V) : Carried(j)'
    <2>1. Stage(V) /\ coord[V] = "idle" BY <1>3, <1>8 DEF IndInv, Stages
    <2>2. life[V] = "queued" /\ why[V] = "none" BY <2>1 DEF Stage
    <2>3. Stage(V)' BY <1>3, <1>8, <2>1, <2>2 DEF Stage, Working
    <2>4. \A n \in V : pump'[n] = "none" BY <1>4, <1>8, <2>1 DEF IndInv, PumpsStill, Still
    <2>5. ASSUME NEW j \in JobsOf(V) PROVE Carried(j)'
        <3>1. Carried(j) BY <1>5, <1>8 DEF IndInv, JobsCarried
        <3> QED BY <1>5, <1>8, <3>1 DEF Carried
    <2> QED BY <1>3, <1>8, <2>2, <2>3, <2>4, <2>5
<1>9. Stages' BY <1>7, <1>8 DEF Stages, UnitSound
<1>10. Flights'
    <2>1. ASSUME NEW V \in Units PROVE Aloft(V)'
        <3>1. CASE V = U BY <1>1, <1>2, <3>1 DEF Aloft, UnitSound, IndInv, Flights
        <3>2. CASE V # U
            <4>1. Aloft(V) BY DEF IndInv, Flights
            <4> QED BY <1>2, <1>3, <3>2, <4>1 DEF Aloft
        <3> QED BY <3>1, <3>2
    <2> QED BY <1>1, <1>2, <2>1 DEF Flights
<1>11. PumpsStill'
    <2> SUFFICES ASSUME NEW n \in Nodes
                 PROVE  (coord'[UnitOf[n]] \in Still => pump'[n] = "none") /\ (pump'[n] = "ready" => IsLive(n))
        BY DEF PumpsStill
    <2>1. UnitOf[n] \in Units /\ n \in UnitOf[n] BY UnitsPartition
    <2> QED BY <1>7, <1>8, <2>1 DEF UnitSound
<1>12. JobsCarried'
    <2> SUFFICES ASSUME NEW j \in Jobs PROVE Carried(j)' BY DEF JobsCarried
    <2>1. UnitOf[Home[j]] \in Units /\ j \in JobsOf(UnitOf[Home[j]]) BY JobHome
    <2> QED BY <1>7, <1>8, <2>1 DEF UnitSound
<1>13. QuietHolds'
    <2>1. ASSUME NEW V \in Units, coord'[V] = "idle", V # U PROVE ~ConcludesQuiet(V)'
        BY <1>8, <2>1 DEF ConcludesQuiet
    <2> QED BY <1>7, <2>1 DEF QuietHolds, UnitSound
<1>14. DeadHolds'
    <2>1. ASSUME NEW V \in Units, coord'[V] = "idle", V # U PROVE ~ConcludesDead(V)'
        BY <1>8, <2>1 DEF ConcludesDead
    <2> QED BY <1>7, <2>1 DEF DeadHolds, UnitSound
<1>15. DoneHolds' BY <1>7, <1>8 DEF DoneHolds, UnitSound
<1>16. SharesHeld' /\ PumpBudgetKept' /\ ReturnsComplete' BY <1>1, <1>2
    DEF IndInv, SharesHeld, PumpBudgetKept, Held, ReturnsComplete
<1>17. ScanExact' BY <1>1, <1>2 DEF IndInv, ScanExact, Undisturbed
<1> QED BY <1>9, <1>10, <1>11, <1>12, <1>13, <1>14, <1>15, <1>16, <1>17 DEF IndInv

LEMMA BeginKeeps == ASSUME IndInv, NEW U \in Units, BeginUnit(U) \/ BeginPaused(U) PROVE IndInv'
<1>1. TypeOK /\ coord[U] = "begin" BY DEF IndInv, BeginUnit, BeginPaused
<1>2. UnitSound(U) BY <1>1, SoundUnit
<1>3. TypeOK' BY <1>1 DEF TypeOK, BeginUnit, BeginPaused, jobVars, dagVars, pauseVars
<1>4. UnitMoves(U) BY <1>1 DEF UnitMoves, TypeOK, BeginUnit, BeginPaused, jobVars
<1>5. UNCHANGED <<jobVars, pump, seen, stop, why>> BY DEF BeginUnit, BeginPaused
<1>6. why[U] = "none" /\ outcome[U] = "none" /\ life[U] = "queued" BY <1>1, <1>2 DEF UnitSound, Stage
<1>7. \A n \in U : pump[n] = "none" BY <1>1, <1>2 DEF UnitSound, Still
<1>8. \/ coord'[U] = "first" /\ life'[U] = "running" /\ outcome'[U] = "none" /\ ComponentReady(U)
      \/ coord'[U] = "ended" /\ life'[U] = "queued" /\ outcome'[U] = "paused"
    BY <1>1, <1>6 DEF TypeOK, BeginUnit, BeginPaused
<1>9. ComponentReady(U) => ComponentReady(U)'
    <2> SUFFICES ASSUME ComponentReady(U), NEW W \in Parents[U] PROVE life'[W] = "done" BY DEF ComponentReady
    <2>1. W \in Units /\ W # U /\ life[W] = "done" BY ParentIsUnit DEF ComponentReady
    <2> QED BY <1>4, <2>1 DEF UnitMoves
<1>10. Stage(U)' BY <1>2, <1>5, <1>6, <1>8, <1>9 DEF UnitSound, Stage, Working
<1>11. UnitSound(U)'
    <2>1. \A j \in JobsOf(U) : Carried(j)' BY <1>2, <1>5 DEF UnitSound, Carried, jobVars
    <2>2. ~ConcludesQuiet(U)' /\ ~ConcludesDead(U)' BY <1>5, <1>6, <1>8 DEF ConcludesQuiet, ConcludesDead
    <2> QED BY <1>5, <1>7, <1>8, <1>10, <2>1, <2>2 DEF UnitSound
<1> QED BY <1>1, <1>3, <1>4, <1>11, UnitMovesKeep

(* A coordinator inside the unit's execution goes on.                      *)
Proceeds(U, s) ==
    /\ coord[U] \in Working /\ s \in Working /\ coord' = [coord EXCEPT ![U] = s]
    /\ UNCHANGED <<life, outcome>>

LEMMA ProceedsStage ==
    ASSUME IndInv, NEW U \in Units, NEW s, Proceeds(U, s), UnitMoves(U),
           why'[U] = "none" \/ s \in {"join", "finish"}, seen'[U].queued \subseteq U
    PROVE  Stage(U)' /\ coord'[U] = s /\ s # "idle" /\ s # "ended" /\ life'[U] = "running"
<1>1. Stage(U) /\ coord'[U] = s BY DEF Proceeds, IndInv, Stages, TypeOK
<1>2. life[U] = "running" /\ outcome[U] = "none" /\ ComponentReady(U) BY <1>1 DEF Proceeds, Stage
<1>3. life' = life /\ outcome' = outcome /\ s \in Working BY DEF Proceeds
<1>4. ComponentReady(U)' BY <1>2, <1>3 DEF ComponentReady
<1> QED BY <1>1, <1>2, <1>3, <1>4 DEF Stage, Working

(* The pumps of live nodes are started, others come and go; jobs stay.     *)
LEMMA PumpsSubmitted ==
    ASSUME IndInv, NEW U \in Units, NEW s \in {"attach", "reap", "observe"}, Proceeds(U, s), UnitMoves(U),
           TypeOK', UNCHANGED <<jobVars, seen, stop, why>>, why[U] = "none",
           \A n \in U : \/ pump'[n] = pump[n]
                        \/ pump[n] \in {"none", "returned"} /\ pump'[n] \in {"none", "starting"}
    PROVE  IndInv'
<1>1. coord[U] \notin {"idle", "ended"} BY DEF Proceeds, Working
<1>2. UnitSound(U) BY <1>1, SoundUnit
<1>3. Stage(U)' /\ coord'[U] = s /\ life'[U] = "running" BY <1>2, ProceedsStage DEF UnitSound, Stage
<1>4. \A n \in U : pump'[n] = "ready" => IsLive(n) BY <1>2 DEF UnitSound
<1>5. ASSUME NEW j \in JobsOf(U) PROVE Carried(j)'
    <2>1. Carried(j) /\ Home[j] \in U BY <1>2 DEF UnitSound, JobsOf
    <2>2. \/ pump'[Home[j]] = pump[Home[j]]
          \/ pump[Home[j]] \in {"none", "returned"} /\ pump'[Home[j]] \in {"none", "starting"}
        BY <2>1
    <2> QED BY <2>1, <2>2 DEF Carried, jobVars
<1>6. ~ConcludesQuiet(U)' /\ ~ConcludesDead(U)' BY <1>3 DEF ConcludesQuiet, ConcludesDead
<1>7. UnitSound(U)' BY <1>3, <1>4, <1>5, <1>6 DEF UnitSound, Still
<1> QED BY <1>1, <1>7, UnitMovesKeep

LEMMA FirstLookKeeps == ASSUME IndInv, NEW U \in Units, FirstLook(U) PROVE IndInv'
<1>1. TypeOK /\ coord[U] = "first" BY DEF IndInv, FirstLook
<1>2. UnitSound(U) BY <1>1, SoundUnit
<1>3. why[U] = "none" /\ \A n \in U : pump[n] = "none" BY <1>1, <1>2 DEF UnitSound, Stage, Still
<1>4. LiveNodes(U) \subseteq U BY DEF LiveNodes
<1>5. TypeOK' BY <1>1 DEF TypeOK, FirstLook, jobVars, dagVars, pauseVars
<1>6. UnitMoves(U) BY <1>1, <1>4 DEF UnitMoves, TypeOK, FirstLook, jobVars
<1>7. PICK s \in {"attach", "finish"} : /\ coord' = [coord EXCEPT ![U] = s]
                                        /\ s = "finish" => With("queued", U) = {}
    BY DEF FirstLook
<1>8. Proceeds(U, s)
    <2>1. UNCHANGED <<life, outcome>> BY DEF FirstLook
    <2> QED BY <1>1, <1>7, <2>1 DEF Proceeds, Working
<1>9. \A n \in U : n \in Nodes BY UnitsPartition
<1>10. CASE s = "attach"
    <2>1. \A n \in U : pump'[n] \in {"none", "starting"} BY <1>3, <1>9 DEF FirstLook
    <2>2. UNCHANGED <<jobVars, seen, stop, why>> BY DEF FirstLook
    <2> QED BY <1>3, <1>5, <1>6, <1>8, <1>10, <2>1, <2>2, PumpsSubmitted
<1>11. CASE s = "finish"
    <2>1. \A n \in U : pump'[n] = "none"
        <3>1. \A n \in Nodes : With("queued", U) = {} => pump'[n] = pump[n] BY DEF FirstLook
        <3> QED BY <1>3, <1>7, <1>9, <1>11, <3>1
    <2>2. UNCHANGED <<jobVars, seen, stop, why>> BY DEF FirstLook
    <2>3. Stage(U)' /\ coord'[U] = "finish" /\ life'[U] = "running" 
        BY <1>2, <1>6, <1>8, <1>11, <2>2, ProceedsStage DEF UnitSound, Stage
    <2>4. ASSUME NEW j \in JobsOf(U) PROVE Carried(j)'
        <3>1. Carried(j) /\ Home[j] \in U BY <1>2 DEF UnitSound, JobsOf
        <3>2. pump[Home[j]] = "none" /\ pump'[Home[j]] = "none" BY <1>3, <2>1, <3>1
        <3> QED BY <2>2, <3>1, <3>2 DEF Carried, jobVars
    <2>5. ~ConcludesQuiet(U)' /\ ~ConcludesDead(U)'
        BY <1>3, <2>2, <2>3 DEF ConcludesQuiet, ConcludesDead
    <2>6. UnitSound(U)' BY <2>1, <2>3, <2>4, <2>5 DEF UnitSound
    <2> QED BY <1>1, <1>5, <1>6, <2>6, UnitMovesKeep
<1> QED BY <1>10, <1>11

LEMMA ReapKeeps == ASSUME IndInv, NEW U \in Units, ReleasePumps(U) \/ Reap(U) PROVE IndInv'
<1>1. TypeOK /\ coord[U] \in {"attach", "reap"} BY DEF IndInv, ReleasePumps, Reap
<1>2. UnitSound(U) BY <1>1, SoundUnit
<1>3. why[U] = "none" BY <1>1, <1>2 DEF UnitSound, Stage
<1>4. U \subseteq Nodes BY UnitsPartition
<1>5. TypeOK' BY <1>1 DEF TypeOK, ReleasePumps, Reap, jobVars, dagVars, pauseVars
<1>6. UnitMoves(U) BY <1>1 DEF UnitMoves, TypeOK, ReleasePumps, Reap, jobVars
<1>7. UNCHANGED <<jobVars, seen, stop, why>> BY DEF ReleasePumps, Reap
<1>8. \A n \in U : \/ pump'[n] = pump[n]
                   \/ pump[n] \in {"none", "returned"} /\ pump'[n] \in {"none", "starting"}
    BY <1>4 DEF ReleasePumps, Reap
<1>9. \E s \in {"attach", "reap", "observe"} : Proceeds(U, s)
    BY <1>1 DEF Proceeds, Working, ReleasePumps, Reap
<1> QED BY <1>3, <1>5, <1>6, <1>7, <1>8, <1>9, PumpsSubmitted

LEMMA SubmitKeeps == ASSUME IndInv, NEW U \in Units, ResolveDeadlock(U) \/ KeepPumping(U) PROVE IndInv'
<1>1. TypeOK /\ coord[U] = "decide" BY DEF IndInv, ResolveDeadlock, KeepPumping
<1>2. UnitSound(U) BY <1>1, SoundUnit
<1>3. why[U] = "none" /\ seen[U].queued \subseteq U BY <1>1, <1>2 DEF UnitSound, Stage
<1>4. U \subseteq Nodes BY UnitsPartition
<1>5. PICK S : Submit(U, S) /\ S \subseteq seen[U].queued /\ S \cap Active(U) = {}
    <2>1. CASE KeepPumping(U)
        <3>1. Submit(U, Startable(U)) BY <2>1 DEF KeepPumping
        <3> QED BY <3>1 DEF Startable
    <2>2. CASE ResolveDeadlock(U)
        <3>1. PICK n \in seen[U].queued : Submit(U, IF stop[U] THEN {} ELSE {n}) BY <2>2 DEF ResolveDeadlock
        <3>2. n \in Blocked(U) /\ Active(U) \subseteq LiveNodes(U) BY <2>2 DEF ResolveDeadlock, Deadlocked
        <3>3. WaitFor[n] # {} BY <3>2 DEF Blocked
        <3>4. n \notin LiveNodes(U) BY <3>3 DEF LiveNodes
        <3> QED BY <3>1, <3>2, <3>4
    <2> QED BY <2>1, <2>2
<1>6. S \subseteq U /\ \A n \in S : pump[n] = "none" BY <1>3, <1>5 DEF Active
<1>7. TypeOK' BY <1>1, <1>5 DEF TypeOK, Submit, jobVars, dagVars, pauseVars
<1>8. UnitMoves(U) BY <1>1, <1>5, <1>6 DEF UnitMoves, TypeOK, Submit, jobVars
<1>9. UNCHANGED <<jobVars, seen, stop, why>> BY <1>5 DEF Submit
<1>10. \A n \in U : \/ pump'[n] = pump[n]
                    \/ pump[n] \in {"none", "returned"} /\ pump'[n] \in {"none", "starting"}
    BY <1>4, <1>5, <1>6 DEF Submit
<1>11. Proceeds(U, "reap") BY <1>1, <1>5 DEF Proceeds, Working, Submit
<1> QED BY <1>3, <1>7, <1>8, <1>9, <1>10, <1>11, PumpsSubmitted

LEMMA ReapErrorKeeps == ASSUME IndInv, NEW U \in Units, ReapError(U) PROVE IndInv'
<1>1. TypeOK /\ coord[U] = "reap" BY DEF IndInv, ReapError
<1>2. UnitSound(U) BY <1>1, SoundUnit
<1>3. TypeOK' BY <1>1 DEF TypeOK, ReapError, jobVars, dagVars, pauseVars
<1>4. UnitMoves(U) BY <1>1 DEF UnitMoves, TypeOK, ReapError, jobVars
<1>5. Proceeds(U, "join") BY <1>1 DEF Proceeds, Working, ReapError
<1>6. UNCHANGED <<jobVars, pump, seen>> BY DEF ReapError
<1>7. Stage(U)' /\ coord'[U] = "join" /\ life'[U] = "running"
    BY <1>2, <1>4, <1>5, <1>6, ProceedsStage DEF UnitSound, Stage
<1>8. why'[U] = "error" BY <1>1 DEF TypeOK, ReapError
<1>9. ~ConcludesQuiet(U)' /\ ~ConcludesDead(U)' BY <1>7, <1>8 DEF ConcludesQuiet, ConcludesDead
<1>10. \A j \in JobsOf(U) : Carried(j)' BY <1>2, <1>6 DEF UnitSound, Carried, jobVars
<1>11. UnitSound(U)' BY <1>2, <1>6, <1>7, <1>9, <1>10 DEF UnitSound, Still
<1> QED BY <1>1, <1>3, <1>4, <1>11, UnitMovesKeep

(* A node with a queued row that the snapshot has is one of the snapshot's *)
(* queued nodes, and so on.                                                *)
LEMMA WithHomes ==
    ASSUME NEW U \in Units, NEW s
    PROVE  /\ With(s, U) \subseteq U
           /\ \A j \in JobsOf(U) : row[j] = s => Home[j] \in With(s, U)
           /\ \A n \in With(s, U) : \E j \in JobsOf(U) : Home[j] = n /\ row[j] = s
    BY DEF With, JobsOf

(* The snapshot is right when it is taken.                                 *)
LEMMA ObserveKeeps == ASSUME IndInv, NEW U \in Units, Observe(U) PROVE IndInv'
<1>1. TypeOK /\ coord[U] = "observe" BY DEF IndInv, Observe
<1>2. UnitSound(U) BY <1>1, SoundUnit
<1>3. U \subseteq Nodes /\ With("queued", U) \subseteq U /\ With("running", U) \subseteq U /\ With("failed", U) \subseteq U
    BY UnitsPartition, WithHomes
<1>4. UNCHANGED <<jobVars, pump, life, stop, why, outcome>> BY DEF Observe
<1>5. PICK w : w = Snapshot(U) OBVIOUS
<1>6. w \in Snapshots /\ w.queued = With("queued", U) /\ w.running = With("running", U)
      /\ w.failed = With("failed", U)
    BY <1>3, <1>5 DEF Snapshot, Snapshots
<1>7. seen' = [seen EXCEPT ![U] = w] /\ coord' = [coord EXCEPT ![U] = "decide"]
    BY <1>5 DEF Observe, Observation
<1>8. TypeOK' BY <1>1, <1>4, <1>6, <1>7 DEF TypeOK, Observe, jobVars, dagVars, pauseVars
<1>9. UnitMoves(U) BY <1>1, <1>4, <1>7 DEF UnitMoves, TypeOK, Observe, jobVars
<1>10. Proceeds(U, "decide") BY <1>1, <1>4, <1>7 DEF Proceeds, Working
<1>11. why[U] = "none" BY <1>1, <1>2 DEF UnitSound, Stage
<1>12. seen'[U] = w BY <1>1, <1>7 DEF TypeOK
<1>13. Stage(U)' /\ coord'[U] = "decide" /\ life'[U] = "running"
    BY <1>3, <1>4, <1>6, <1>9, <1>10, <1>11, <1>12, ProceedsStage
<1>14. ConcludesQuiet(U)' => Idle(U)'
    <2>1. SUFFICES ASSUME ConcludesQuiet(U)' PROVE Idle(U)' OBVIOUS
    <2>2. With("queued", U) = {} /\ With("running", U) = {}
        BY <1>4, <1>6, <1>11, <1>12, <2>1 DEF ConcludesQuiet, Quiescent
    <2>3. \A j \in JobsOf(U) : row[j] \notin {"queued", "running"} BY <2>2, WithHomes
    <2> QED BY <1>4, <2>3 DEF Idle, jobVars
<1>15. ConcludesDead(U)' => Dead(U)'
    <2>1. SUFFICES ASSUME ConcludesDead(U)' PROVE Dead(U)' OBVIOUS
    <2>2. Deadlocked(U)' BY <1>4, <1>11, <2>1 DEF ConcludesDead
    <2>3. Active(U)' = Active(U) BY <1>4 DEF Active
    <2>4. With("running", U) = {} /\ Active(U) \subseteq LiveNodes(U)
        BY <1>6, <1>12, <2>2, <2>3 DEF Deadlocked
    <2>5. \A n \in With("queued", U) : WaitFor[n] \cap (With("queued", U) \cup With("failed", U)) # {}
        BY <1>6, <1>12, <2>2, <2>4 DEF Deadlocked, Blocked, Blocking
    <2>6. ASSUME NEW j \in JobsOf(U) PROVE Stuck(j, U)
        <3>1. row[j] # "running" BY <2>4, WithHomes
        <3>2. Carried(j) /\ j \in Jobs /\ Home[j] \in U BY <1>2 DEF UnitSound, JobsOf
        <3>3. ASSUME row[j] = "queued" PROVE pump[Home[j]] = "none" /\ Waits(j, U)
            <4>1. Home[j] \in With("queued", U) BY <3>3, WithHomes
            <4>2. PICK m \in With("queued", U) \cup With("failed", U) : m \in WaitFor[Home[j]] BY <2>5, <4>1
            <4>3. \E k \in JobsOf(U) : Home[k] = m /\ row[k] \in {"queued", "failed"} BY <4>2, WithHomes
            <4>4. Home[j] \notin LiveNodes(U) BY <4>2 DEF LiveNodes
            <4>5. pump[Home[j]] = "none" BY <2>4, <3>2, <4>4 DEF Active
            <4> QED BY <4>2, <4>3, <4>5 DEF Waits
        <3>4. place[j] \in {"none", "failing"}
            <4>1. place[j] \notin {"running", "published"} BY <3>1, <3>2 DEF Carried
            <4>2. ASSUME place[j] \in {"taken", "cleared"} PROVE FALSE
                <5>1. row[j] = "queued" /\ pump[Home[j]] # "none" BY <3>1, <3>2, <4>2 DEF Carried
                <5> QED BY <3>3, <5>1
            <4> QED BY <1>1, <3>2, <4>1, <4>2 DEF TypeOK
        <3> QED BY <3>1, <3>3, <3>4 DEF Stuck
    <2>7. ASSUME NEW j \in JobsOf(U) PROVE Stuck(j, U)' BY <1>4, <2>6 DEF Stuck, Waits, jobVars
    <2> QED BY <2>7 DEF Dead
<1>16. \A j \in JobsOf(U) : Carried(j)' BY <1>2, <1>4 DEF UnitSound, Carried, jobVars
<1>17. UnitSound(U)' BY <1>2, <1>4, <1>13, <1>14, <1>15, <1>16 DEF UnitSound, Still
<1> QED BY <1>1, <1>8, <1>9, <1>17, UnitMovesKeep

(* The loop is left for the reason that the snapshot gives.                *)
LEMMA LeaveKeeps == ASSUME IndInv, NEW U \in Units, LeaveQuiet(U) \/ LeaveDeadlock(U) PROVE IndInv'
<1>1. TypeOK /\ coord[U] = "decide" BY DEF IndInv, LeaveQuiet, LeaveDeadlock
<1>2. UnitSound(U) BY <1>1, SoundUnit
<1>3. PICK r \in {"quiet", "deadlock"} : /\ LeaveLoop(U, r)
                                         /\ r = "quiet" => Quiescent(U)
                                         /\ r = "deadlock" => Deadlocked(U)
    BY DEF LeaveQuiet, LeaveDeadlock
<1>4. UNCHANGED <<jobVars, pump, life, seen, outcome, dagVars, pauseVars>> BY <1>3 DEF LeaveLoop
<1>5. why' = [why EXCEPT ![U] = r] /\ coord' = [coord EXCEPT ![U] = "join"] /\ stop' = [stop EXCEPT ![U] = TRUE]
    BY <1>3 DEF LeaveLoop
<1>6. TypeOK' BY <1>1, <1>4, <1>5 DEF TypeOK, jobVars, dagVars, pauseVars
<1>7. UnitMoves(U) BY <1>1, <1>4, <1>5 DEF UnitMoves, TypeOK, jobVars
<1>8. Proceeds(U, "join") BY <1>1, <1>4, <1>5 DEF Proceeds, Working
<1>9. Stage(U)' /\ coord'[U] = "join" /\ life'[U] = "running"
    BY <1>2, <1>4, <1>7, <1>8, ProceedsStage DEF UnitSound, Stage
<1>10. why'[U] = r BY <1>1, <1>5 DEF TypeOK
<1>11. ConcludesQuiet(U)' => Idle(U)'
    <2>1. ConcludesQuiet(U)' => ConcludesQuiet(U) BY <1>1, <1>3, <1>9, <1>10 DEF ConcludesQuiet
    <2> QED BY <1>2, <1>4, <2>1 DEF UnitSound, Idle, jobVars
<1>12. ConcludesDead(U)' => Dead(U)'
    <2>1. ConcludesDead(U)' => ConcludesDead(U) BY <1>1, <1>3, <1>9, <1>10 DEF ConcludesDead
    <2> QED BY <1>2, <1>4, <2>1 DEF UnitSound, Dead, Stuck, Waits, jobVars
<1>13. \A j \in JobsOf(U) : Carried(j)' BY <1>2, <1>4 DEF UnitSound, Carried, jobVars
<1>14. UnitSound(U)' BY <1>2, <1>4, <1>9, <1>11, <1>12, <1>13 DEF UnitSound, Still
<1> QED BY <1>1, <1>6, <1>7, <1>14, UnitMovesKeep

(* When the pumps of a unit are over, no job of it is with one.            *)
LEMMA JoinedJobs ==
    ASSUME IndInv, NEW U \in Units, coord[U] = "join", Joinable(U), NEW j \in JobsOf(U)
    PROVE  /\ place[j] = "none" /\ j \in Jobs /\ Home[j] \in U /\ Home[j] \in Nodes
           /\ row[j] = "running" => pump[Home[j]] = "raised"
<1>1. UnitSound(U) BY SoundUnit
<1>2. Carried(j) /\ j \in Jobs /\ Home[j] \in U BY <1>1 DEF UnitSound, JobsOf
<1>3. pump[Home[j]] \in {"none", "returned", "raised"} BY <1>2 DEF Joinable, Over
<1> QED BY <1>2, <1>3, UnitsPartition DEF Carried

LEMMA JoinKeeps == ASSUME IndInv, NEW U \in Units, JoinPumps(U) PROVE IndInv'
<1>1. TypeOK /\ coord[U] = "join" /\ Joinable(U) /\ ~PumpFailed(U) BY DEF IndInv, JoinPumps
<1>2. UnitSound(U) BY <1>1, SoundUnit
<1>3. U \subseteq Nodes BY UnitsPartition
<1>4. UNCHANGED <<jobVars, life, seen, stop, why, outcome, dagVars, pauseVars>> BY DEF JoinPumps
<1>5. pump' = NoPumps(U) /\ coord' = [coord EXCEPT ![U] = "finish"] BY DEF JoinPumps
<1>6. TypeOK' BY <1>1, <1>4, <1>5 DEF TypeOK, NoPumps, jobVars, dagVars, pauseVars
<1>7. UnitMoves(U) BY <1>1, <1>4, <1>5 DEF UnitMoves, TypeOK, NoPumps, jobVars
<1>8. Proceeds(U, "finish") BY <1>1, <1>4, <1>5 DEF Proceeds, Working
<1>9. Stage(U)' /\ coord'[U] = "finish" /\ life'[U] = "running"
    BY <1>2, <1>4, <1>7, <1>8, ProceedsStage DEF UnitSound, Stage
<1>10. \A n \in U : pump'[n] = "none" BY <1>3, <1>5 DEF NoPumps
<1>11. ASSUME NEW j \in JobsOf(U) PROVE Carried(j)'
    <2>1. place[j] = "none" /\ Home[j] \in U /\ row[j] # "running" BY <1>1, JoinedJobs DEF PumpFailed
    <2>2. pump'[Home[j]] = "none" BY <1>10, <2>1
    <2> QED BY <1>4, <2>1, <2>2 DEF Carried, jobVars
<1>12. ConcludesQuiet(U)' => Idle(U)'
    <2>1. ConcludesQuiet(U)' => ConcludesQuiet(U) BY <1>4, <1>9 DEF ConcludesQuiet
    <2> QED BY <1>2, <1>4, <2>1 DEF UnitSound, Idle, jobVars
<1>13. ConcludesDead(U)' => Dead(U)'
    <2>1. SUFFICES ASSUME ConcludesDead(U)' PROVE Dead(U)' OBVIOUS
    <2>2. ConcludesDead(U) BY <1>4, <1>9, <2>1 DEF ConcludesDead
    <2>3. ASSUME NEW j \in JobsOf(U) PROVE Stuck(j, U)'
        <3>1. Stuck(j, U) /\ Home[j] \in U BY <1>2, <2>2 DEF UnitSound, Dead, JobsOf
        <3>2. Waits(j, U) => Waits(j, U)' BY <1>4 DEF Waits, jobVars
        <3> QED BY <1>4, <1>10, <3>1, <3>2 DEF Stuck, jobVars
    <2> QED BY <2>3 DEF Dead
<1>14. UnitSound(U)' BY <1>9, <1>10, <1>11, <1>12, <1>13 DEF UnitSound
<1> QED BY <1>1, <1>6, <1>7, <1>14, UnitMovesKeep

(* A coordinator ends: with what result, and with which lifecycle.         *)
Ends(U, o, l) ==
    /\ <<o, l>> \in {<<"ok", "done">>, <<"error", "running">>}
    /\ coord' = [coord EXCEPT ![U] = "ended"] /\ outcome' = [outcome EXCEPT ![U] = o]
    /\ life' = [life EXCEPT ![U] = l] /\ UNCHANGED <<seen, why>>

LEMMA EndsStage ==
    ASSUME IndInv, NEW U \in Units, coord[U] \in {"join", "finish"}, NEW o, NEW l, Ends(U, o, l), UnitMoves(U)
    PROVE  Stage(U)' /\ coord'[U] = "ended" /\ life'[U] = l
<1>1. Stage(U) BY DEF IndInv, Stages
<1>2. life[U] = "running" /\ ComponentReady(U) BY <1>1 DEF Stage, Working
<1>3. coord'[U] = "ended" /\ outcome'[U] = o /\ life'[U] = l BY DEF IndInv, TypeOK, Ends
<1>4. ComponentReady(U)'
    <2> SUFFICES ASSUME NEW W \in Parents[U] PROVE life'[W] = "done" BY DEF ComponentReady
    <2>1. W \in Units /\ W # U /\ life[W] = "done" BY <1>2, ParentIsUnit DEF ComponentReady
    <2> QED BY <2>1 DEF UnitMoves
<1>5. seen'[U].queued \subseteq U BY <1>1 DEF Stage, Ends
<1>6. <<o, l>> \in {<<"ok", "done">>, <<"error", "running">>} /\ l # "queued" BY DEF Ends
<1> QED BY <1>3, <1>4, <1>5, <1>6 DEF Stage, Working

LEMMA FinalizeKeeps == ASSUME IndInv, NEW U \in Units, FinalizeFailed(U) PROVE IndInv'
<1>1. TypeOK /\ coord[U] = "join" /\ Joinable(U) BY DEF IndInv, FinalizeFailed
<1>2. UnitSound(U) BY <1>1, SoundUnit
<1>3. U \subseteq Nodes BY UnitsPartition
<1>4. UNCHANGED <<place, passed, life, seen, stop, why, dagVars, pauseVars>> BY DEF FinalizeFailed
<1>5. pump' = NoPumps(U) /\ coord' = [coord EXCEPT ![U] = "ended"] /\ outcome' = [outcome EXCEPT ![U] = "error"]
    BY DEF FinalizeFailed
<1>6. PICK S : row' = Finalized(U, S) BY DEF FinalizeFailed
<1>7. row' \in [Jobs -> {"absent", "queued", "running", "done", "failed"}]
    BY <1>1, <1>6 DEF TypeOK, Finalized
<1>8. TypeOK' BY <1>1, <1>4, <1>5, <1>7 DEF TypeOK, NoPumps, dagVars, pauseVars
<1>9. \A j \in Jobs : j \notin JobsOf(U) => row'[j] = row[j] BY <1>6 DEF Finalized
<1>10. ASSUME NEW j \in JobsOf(U)
       PROVE  row'[j] = row[j] \/ (row[j] = "running" /\ row'[j] \in {"done", "failed"})
    BY <1>6 DEF Finalized, JobsOf
<1>11. ASSUME NEW j \in JobsOf(U) PROVE row'[j] # "running"
    BY <1>6 DEF Finalized, JobsOf
<1>12. UnitMoves(U) BY <1>1, <1>4, <1>5, <1>9 DEF UnitMoves, TypeOK, NoPumps
<1>13. life[U] = "running" BY <1>1, <1>2 DEF UnitSound, Stage, Working
<1>14. Ends(U, "error", "running")
    <2>1. life' = [life EXCEPT ![U] = "running"] BY <1>1, <1>4, <1>13 DEF TypeOK
    <2> QED BY <1>4, <1>5, <2>1 DEF Ends
<1>15. Stage(U)' /\ coord'[U] = "ended" /\ life'[U] = "running" BY <1>1, <1>12, <1>14, EndsStage
<1>16. \A n \in U : pump'[n] = "none" BY <1>3, <1>5 DEF NoPumps
<1>17. ASSUME NEW j \in JobsOf(U) PROVE Carried(j)'
    <2>1. place[j] = "none" /\ Home[j] \in U BY <1>1, JoinedJobs
    <2>2. pump'[Home[j]] = "none" BY <1>16, <2>1
    <2> QED BY <1>4, <1>11, <2>1, <2>2 DEF Carried
<1>18. ConcludesQuiet(U)' => Idle(U)'
    <2>1. ConcludesQuiet(U)' => ConcludesQuiet(U) BY <1>4, <1>15 DEF ConcludesQuiet
    <2> QED BY <1>2, <1>10, <2>1 DEF UnitSound, Idle
<1>19. ConcludesDead(U)' => Dead(U)'
    <2>1. SUFFICES ASSUME ConcludesDead(U)' PROVE Dead(U)' OBVIOUS
    <2>2. ConcludesDead(U) BY <1>4, <1>15, <2>1 DEF ConcludesDead
    <2>3. \A j \in JobsOf(U) : Stuck(j, U) BY <1>2, <2>2 DEF UnitSound, Dead
    <2>4. \A j \in JobsOf(U) : row'[j] = row[j] BY <1>10, <2>3 DEF Stuck
    <2>5. ASSUME NEW j \in JobsOf(U) PROVE Stuck(j, U)'
        <3>1. Stuck(j, U) /\ Home[j] \in U BY <2>3 DEF JobsOf
        <3>2. Waits(j, U) => Waits(j, U)' BY <2>4 DEF Waits
        <3> QED BY <1>4, <1>16, <2>4, <3>1, <3>2 DEF Stuck
    <2> QED BY <2>5 DEF Dead
<1>20. UnitSound(U)' BY <1>15, <1>16, <1>17, <1>18, <1>19 DEF UnitSound
<1> QED BY <1>1, <1>8, <1>12, <1>20, UnitMovesKeep

LEMMA FinishKeeps == ASSUME IndInv, NEW U \in Units, FinishUnit(U) \/ FinishRefused(U) PROVE IndInv'
<1>1. TypeOK /\ coord[U] = "finish" BY DEF IndInv, FinishUnit, FinishRefused
<1>2. UnitSound(U) BY <1>1, SoundUnit
<1>3. UNCHANGED <<jobVars, pump, seen, stop, why, dagVars, pauseVars>> BY DEF FinishUnit, FinishRefused
<1>4. life[U] = "running" /\ \A n \in U : pump[n] = "none"
    BY <1>1, <1>2 DEF UnitSound, Stage, Working, Still
<1>5. PICK o, l : Ends(U, o, l) /\ (l = "done" => Complete(U))
    <2>1. CASE FinishUnit(U)
        <3>1. Ends(U, "ok", "done") /\ Complete(U) BY <2>1 DEF Ends, FinishUnit, MayComplete
        <3> QED BY <3>1
    <2>2. CASE FinishRefused(U)
        <3>1. life' = [life EXCEPT ![U] = "running"] BY <1>1, <1>4, <2>2 DEF TypeOK, FinishRefused
        <3>2. Ends(U, "error", "running") BY <2>2, <3>1 DEF Ends, FinishRefused
        <3> QED BY <3>2
    <2> QED BY <2>1, <2>2
<1>6. TypeOK' BY <1>1, <1>3, <1>5 DEF TypeOK, Ends, jobVars, dagVars, pauseVars
<1>7. UnitMoves(U) BY <1>1, <1>3, <1>5 DEF UnitMoves, TypeOK, Ends, jobVars
<1>8. Stage(U)' /\ coord'[U] = "ended" /\ life'[U] = l BY <1>1, <1>5, <1>7, EndsStage
<1>9. \A j \in JobsOf(U) : Carried(j)' BY <1>2, <1>3 DEF UnitSound, Carried, jobVars
<1>10. ConcludesQuiet(U)' => Idle(U)'
    <2>1. ConcludesQuiet(U)' => ConcludesQuiet(U) BY <1>3, <1>8 DEF ConcludesQuiet
    <2> QED BY <1>2, <1>3, <2>1 DEF UnitSound, Idle, jobVars
<1>11. ConcludesDead(U)' => Dead(U)'
    <2>1. ConcludesDead(U)' => ConcludesDead(U) BY <1>3, <1>8 DEF ConcludesDead
    <2> QED BY <1>2, <1>3, <2>1 DEF UnitSound, Dead, Stuck, Waits, jobVars
<1>12. Complete(U) => Complete(U)' BY <1>3 DEF Complete, jobVars
<1>13. UnitSound(U)' BY <1>3, <1>4, <1>5, <1>8, <1>9, <1>10, <1>11, <1>12 DEF UnitSound
<1> QED BY <1>1, <1>6, <1>7, <1>13, UnitMovesKeep

LEMMA UnitStepKeeps == ASSUME IndInv, NEW U \in Units, UnitStep(U) PROVE IndInv'
    BY BeginKeeps, FirstLookKeeps, ReapKeeps, ReapErrorKeeps, ObserveKeeps, LeaveKeeps, SubmitKeeps,
       JoinKeeps, FinalizeKeeps, FinishKeeps DEF UnitStep

-----------------------------------------------------------------------------
(***************************************************************************)
(* A wave: the units are chosen in order while there is a pump for each of *)
(* their API members.                                                      *)
(***************************************************************************)
Size(i) == Cardinality(ApiOf(UnitOrder[i]))
Takes(i, x) == UnitOrder[i] \in ready /\ Size(i) <= x
Rest(i, x) == IF Takes(i, x) THEN x - Size(i) ELSE x
Lefts(l, e) == DOMAIN l = 0 .. e /\ l[0] = Available /\ \A i \in 1 .. e : l[i] = Rest(i, l[i - 1])
Picked(l, e) == {UnitOrder[i] : i \in {k \in 1 .. e : Takes(k, l[k - 1])}}

LEMMA LeftsExist == \A e \in Nat : \E l : Lefts(l, e)
<1> DEFINE Bad == {e \in Nat : ~ \E l : Lefts(l, e)}
<1>1. SUFFICES ASSUME Bad # {} PROVE FALSE OBVIOUS
<1>2. PICK e \in Bad : \A k \in Bad : e <= k BY <1>1, LeastNatural
<1>3. e # 0
    <2>1. PICK l : l = [i \in 0 .. 0 |-> Available] OBVIOUS
    <2>2. DOMAIN l = 0 .. 0 /\ l[0] = Available /\ 1 .. 0 = {} BY <2>1
    <2>3. Lefts(l, 0) BY <2>2 DEF Lefts
    <2> QED BY <2>3
<1>4. e - 1 \in Nat /\ e - 1 \notin Bad BY <1>2, <1>3
<1>5. PICK g : Lefts(g, e - 1) BY <1>4
<1>6. PICK h : h = Rest(e, g[e - 1]) OBVIOUS
<1>7. PICK f : f = [i \in 0 .. e |-> IF i = e THEN h ELSE g[i]] OBVIOUS
<1>8. DOMAIN f = 0 .. e /\ f[e] = h /\ \A i \in 0 .. e - 1 : f[i] = g[i] BY <1>4, <1>7
<1>9. f[0] = Available BY <1>4, <1>5, <1>8 DEF Lefts
<1>10. ASSUME NEW k \in 1 .. e PROVE f[k] = Rest(k, f[k - 1])
    <2>1. k - 1 \in 0 .. e - 1 /\ f[k - 1] = g[k - 1] BY <1>4, <1>8
    <2>2. CASE k = e BY <1>6, <1>8, <2>1, <2>2
    <2>3. CASE k # e
        <3>1. k \in 1 .. e - 1 /\ k \in 0 .. e - 1 BY <1>4, <2>3
        <3> QED BY <1>5, <1>8, <2>1, <3>1 DEF Lefts
    <2> QED BY <2>2, <2>3
<1>11. Lefts(f, e) BY <1>8, <1>9, <1>10 DEF Lefts
<1> QED BY <1>2, <1>11

LEMMA ChosenPicks == \E l : Lefts(l, Cardinality(Units)) /\ Chosen = Picked(l, Cardinality(Units))
<1> DEFINE c == Cardinality(Units)
           D(f) == [i \in 0 .. c |->
               IF i = 0 THEN Available
               ELSE LET U == UnitOrder[i] size == Cardinality(ApiOf(U))
                    IN  IF U \in ready /\ size <= f[i - 1] THEN f[i - 1] - size ELSE f[i - 1]]
           g == CHOOSE f : f = D(f)
<1>1. c \in Nat BY UnitsFinite
<1>2. Chosen = {UnitOrder[i] : i \in {k \in 1 .. c : UnitOrder[k] \in ready
                                          /\ Cardinality(ApiOf(UnitOrder[k])) <= g[k - 1]}}
    BY Zenon DEF Chosen
<1>3. Chosen = Picked(g, c) BY <1>2 DEF Picked, Takes, Size
<1>4. ASSUME NEW f, NEW k \in 0 .. c, k # 0 PROVE D(f)[k] = Rest(k, f[k - 1])
    BY <1>4 DEF Rest, Takes, Size
<1>5. ASSUME NEW f PROVE DOMAIN D(f) = 0 .. c /\ D(f)[0] = Available BY <1>1
<1>6. g = D(g)
    <2>1. PICK f : Lefts(f, c) BY <1>1, LeftsExist
    <2>2. PICK h : h = [k \in 0 .. c |-> f[k]] OBVIOUS
    <2>3. ASSUME NEW k \in 0 .. c PROVE h[k] = D(h)[k]
        <3>1. h[k] = f[k] BY <2>2
        <3>2. CASE k = 0 BY <1>5, <2>1, <3>1, <3>2 DEF Lefts
        <3>3. CASE k # 0
            <4>1. k \in 1 .. c /\ k - 1 \in 0 .. c BY <1>1, <3>3
            <4>2. h[k - 1] = f[k - 1] BY <2>2, <4>1
            <4> HIDE DEF D
            <4> QED BY <1>4, <2>1, <3>1, <3>3, <4>1, <4>2 DEF Lefts
        <3> QED BY <3>2, <3>3
    <2>4. h = D(h) BY <2>2, <2>3
    <2>5. \E x : x = D(x) BY <2>4
    <2> HIDE DEF D
    <2> QED BY <2>5
<1> HIDE DEF g, D
<1>7. Lefts(g, c)
    <2>1. DOMAIN g = 0 .. c /\ g[0] = Available BY <1>5, <1>6
    <2>2. ASSUME NEW k \in 1 .. c PROVE g[k] = Rest(k, g[k - 1])
        <3>1. k \in 0 .. c /\ k # 0 BY <1>1
        <3> QED BY <1>4, <1>6, <3>1
    <2> QED BY <2>1, <2>2 DEF Lefts
<1> QED BY <1>3, <1>7

(* What the wave may hand out, and the parts of it.                        *)
LEMMA SumPart ==
    ASSUME NEW T, IsFiniteSet(T), NEW S \in SUBSET T, NEW f, \A n \in T : f[n] \in Nat
    PROVE  /\ SumOver(S, f) \in Nat /\ SumOver(T, f) \in Nat /\ SumOver(S, f) <= SumOver(T, f)
           /\ SumOver(T, f) = SumOver(S, f) + SumOver(T \ S, f)
<1>1. PICK R : R = T \ S OBVIOUS
<1>2. IsFiniteSet(S) /\ IsFiniteSet(R) /\ S \cap R = {} /\ S \cup R = T BY <1>1, FS_Subset
<1>3. ASSUME NEW X \in SUBSET T PROVE SumOver(X, f) \in Nat
    <2>1. IsFiniteSet(X) BY FS_Subset
    <2>2. PICK z : z = [n \in X |-> 0] OBVIOUS
    <2>3. SumOver(X, z) = 0 * Cardinality(X) BY <2>1, <2>2, SumConst
    <2>4. Whole(z, X) /\ Whole(f, X) /\ \A n \in X : z[n] <= f[n] BY <2>2 DEF Whole
    <2>5. SumOver(X, z) <= SumOver(X, f) BY <2>1, <2>4, SumMono
    <2>6. SumOver(X, f) \in Int BY <2>1, <2>4, SumStep
    <2>7. Cardinality(X) \in Nat BY <2>1, FS_CardinalityType
    <2> QED BY <2>3, <2>5, <2>6, <2>7
<1>4. SumOver(S \cup R, f) = SumOver(S, f) + SumOver(R, f)
    <2>1. Whole(f, S \cup R) BY <1>2 DEF Whole
    <2> QED BY <1>2, <2>1, SumUnion
<1>5. R \in SUBSET T BY <1>1
<1> QED BY <1>1, <1>2, <1>3, <1>4, <1>5

LEMMA HeldNat == ASSUME TypeOK PROVE Held \in Nat
<1>1. IsFiniteSet(Preclaiming) BY ApiFinite
<1>2. PumpCap \in Nat BY GraphAssumption
<1>3. \A n \in Preclaiming : share[n] \in Nat BY <1>2 DEF TypeOK
<1> QED BY <1>1, <1>3, SumPart DEF Held

LEMMA TargetBounds ==
    ASSUME TypeOK
    PROVE  /\ Target \in Nat /\ Target <= Larger(Budget, Cardinality(Preclaiming))
           /\ \A U \in ready : Cardinality(ApiOf(U)) <= Target
           /\ Available \in Nat
<1>1. PICK S : S = ActiveApi \cup ReadyApi OBVIOUS
<1>2. S \in SUBSET Preclaiming BY <1>1 DEF ActiveApi, ReadyApi, ApiOf
<1>3. IsFiniteSet(Preclaiming) /\ Cardinality(Preclaiming) \in Nat BY ApiFinite
<1>4. IsFiniteSet(S) /\ Cardinality(S) \in Nat /\ Cardinality(S) <= Cardinality(Preclaiming)
    BY <1>2, <1>3, FS_Subset, FS_CardinalityType
<1>5. Budget \in Nat /\ Budget \in Int BY GraphAssumption
<1>6. /\ SumOver(S, Allocate(S, Budget)) \in Nat
      /\ SumOver(S, Allocate(S, Budget)) >= Cardinality(S)
      /\ SumOver(S, Allocate(S, Budget)) <= Larger(Cardinality(S), Budget)
    BY <1>2, <1>5, AllocateFair
<1>7. Target = SumOver(S, Allocate(S, Budget)) BY <1>1 DEF Target
<1>8. Target <= Larger(Budget, Cardinality(Preclaiming)) BY <1>3, <1>4, <1>5, <1>6, <1>7 DEF Larger
<1>9. ASSUME NEW U \in ready PROVE Cardinality(ApiOf(U)) <= Target
    <2>1. ApiOf(U) \in SUBSET S BY <1>1 DEF ReadyApi
    <2>2. Cardinality(ApiOf(U)) <= Cardinality(S) /\ Cardinality(ApiOf(U)) \in Nat
        BY <1>4, <2>1, FS_Subset, FS_CardinalityType
    <2> QED BY <1>4, <1>6, <1>7, <2>2
<1>10. Available \in Nat
    <2>1. Held \in Nat BY HeldNat
    <2> QED BY <1>6, <1>7, <2>1 DEF Available, Larger
<1> QED BY <1>6, <1>7, <1>8, <1>9, <1>10

(* The units of a wave have no more API members than there are pumps.      *)
WaveApi == UNION {ApiOf(U) : U \in Chosen}
LEMMA ChosenFits ==
    ASSUME TypeOK
    PROVE  /\ Chosen \subseteq ready /\ WaveApi \in SUBSET Preclaiming
           /\ Cardinality(WaveApi) <= Available
<1>1. PICK l : Lefts(l, Cardinality(Units)) /\ Chosen = Picked(l, Cardinality(Units)) BY ChosenPicks
<1>2. PICK c \in Nat : c = Cardinality(Units) BY UnitsFinite
<1>3. Chosen \subseteq ready BY <1>1 DEF Picked, Takes
<1>4. WaveApi \in SUBSET Preclaiming BY DEF WaveApi, ApiOf
<1> DEFINE Api(i) == UNION {ApiOf(U) : U \in Picked(l, i)}
           Bad == {i \in 0 .. c : ~(l[i] \in Nat /\ Cardinality(Api(i)) + l[i] <= Available)}
<1>5. ASSUME NEW i \in 0 .. c PROVE Api(i) \in SUBSET Preclaiming BY DEF ApiOf
<1>6. ASSUME Bad # {} PROVE FALSE
    <2>1. Bad \in SUBSET Nat OBVIOUS
    <2>2. PICK i \in Bad : \A m \in Bad : i <= m BY <1>6, <2>1, LeastNatural
    <2>3. i # 0
        <3>1. l[0] = Available /\ Available \in Nat BY <1>1, TargetBounds DEF Lefts
        <3>2. Picked(l, 0) = {}
            <4>1. 1 .. 0 = {} OBVIOUS
            <4> QED BY <4>1 DEF Picked
        <3>3. Api(0) = {} BY <3>2
        <3>4. Cardinality(Api(0)) = 0 BY <3>3, FS_EmptySet
        <3>5. 0 \notin Bad BY <3>1, <3>4
        <3> QED BY <2>2, <3>5
    <2>4. i \in 1 .. c /\ i - 1 \in 0 .. c /\ i - 1 \notin Bad
        <3>1. i \in 0 .. c BY <2>2
        <3>2. i \in 1 .. c /\ i - 1 \in 0 .. c /\ ~(i <= i - 1) BY <2>3, <3>1
        <3> HIDE DEF Bad
        <3> QED BY <2>2, <3>2
    <2>5. l[i - 1] \in Nat /\ Cardinality(Api(i - 1)) + l[i - 1] <= Available BY <2>4
    <2>6. l[i] = Rest(i, l[i - 1]) BY <1>1, <1>2, <2>4 DEF Lefts
    <2>7. Available \in Nat BY TargetBounds
    <2>8. PICK A : A = Api(i - 1) OBVIOUS
    <2>9. A \in SUBSET Preclaiming BY <1>5, <2>4, <2>8
    <2>10. IsFiniteSet(A) /\ Cardinality(A) \in Nat BY <2>9, ApiFinite
    <2>11. CASE Takes(i, l[i - 1])
        <3>1. PICK B : B = ApiOf(UnitOrder[i]) OBVIOUS
        <3>2. B \in SUBSET Preclaiming BY <3>1 DEF ApiOf
        <3>3. IsFiniteSet(B) /\ Cardinality(B) \in Nat BY <3>2, ApiFinite
        <3>4. Picked(l, i) = Picked(l, i - 1) \cup {UnitOrder[i]}
            <4>1. 1 .. i = (1 .. i - 1) \cup {i} BY <2>4
            <4> QED BY <2>11, <4>1 DEF Picked
        <3>5. Api(i) = A \cup B BY <2>8, <3>1, <3>4
        <3>6. Cardinality(A \cup B) <= Cardinality(A) + Cardinality(B)
            <4>1. A \cap B \in SUBSET Preclaiming BY <2>9
            <4>2. Cardinality(A \cap B) \in Nat BY <4>1, ApiFinite
            <4>3. Cardinality(A \cup B) = Cardinality(A) + Cardinality(B) - Cardinality(A \cap B)
                BY <2>10, <3>3, FS_Union
            <4> QED BY <2>10, <3>3, <4>2, <4>3
        <3>7. l[i] = l[i - 1] - Cardinality(B) /\ Cardinality(B) <= l[i - 1]
            BY <2>6, <2>11, <3>1 DEF Rest, Takes, Size
        <3>8. Cardinality(A \cup B) \in Nat
            <4>1. A \cup B \in SUBSET Preclaiming BY <2>9, <3>2
            <4> QED BY <4>1, ApiFinite
        <3>9. l[i] \in Nat /\ Cardinality(A \cup B) + l[i] <= Available
            BY <2>5, <2>7, <2>8, <2>10, <3>3, <3>6, <3>7, <3>8
        <3> QED BY <2>2, <3>5, <3>9
    <2>12. CASE ~Takes(i, l[i - 1])
        <3>1. Picked(l, i) = Picked(l, i - 1)
            <4>1. 1 .. i = (1 .. i - 1) \cup {i} BY <2>4
            <4> QED BY <2>12, <4>1 DEF Picked
        <3>2. l[i] = l[i - 1] BY <2>6, <2>12 DEF Rest
        <3> QED BY <2>2, <2>5, <3>1, <3>2
    <2> QED BY <2>11, <2>12
<1>7. c \in 0 .. c /\ c \notin Bad
    <2>1. c \in 0 .. c OBVIOUS
    <2> HIDE DEF Bad
    <2> QED BY <1>6, <2>1
<1>8. l[c] \in Nat /\ Cardinality(Api(c)) + l[c] <= Available BY <1>7
<1>9. WaveApi = Api(c) BY <1>1, <1>2 DEF WaveApi
<1>10. Cardinality(WaveApi) \in Nat /\ Available \in Nat BY <1>4, ApiFinite, TargetBounds
<1> QED BY <1>3, <1>4, <1>8, <1>9, <1>10

(* The pumps of a wave: one at least for each node, and within the budget. *)
LEMMA WaveFits ==
    ASSUME TypeOK
    PROVE  /\ Wave \in [WaveApi -> 1 .. PumpCap]
           /\ SumOver(WaveApi, Wave) \in Nat /\ SumOver(WaveApi, Wave) <= Available
<1>1. WaveApi \in SUBSET Preclaiming /\ Cardinality(WaveApi) <= Available BY ChosenFits
<1>2. Cardinality(WaveApi) \in Nat BY <1>1, ApiFinite
<1>3. Target \in Nat /\ Held \in Nat /\ Available = Larger(0, Target - Held)
    BY TargetBounds, HeldNat DEF Available
<1>4. PICK b \in Int : b = IF Chosen # ready THEN Cardinality(WaveApi) ELSE Target - Held BY <1>2, <1>3
<1>5. Wave = Allocate(WaveApi, b) BY <1>4 DEF Wave, WaveApi
<1>6. Larger(Cardinality(WaveApi), b) <= Available BY <1>1, <1>2, <1>3, <1>4 DEF Larger
<1>7. Larger(Cardinality(WaveApi), b) \in Int /\ Available \in Nat BY <1>2, <1>4, TargetBounds DEF Larger
<1>8. /\ Wave \in [WaveApi -> 1 .. PumpCap] /\ SumOver(WaveApi, Wave) \in Nat
      /\ SumOver(WaveApi, Wave) <= Larger(Cardinality(WaveApi), b)
    BY <1>1, <1>5, AllocateFair
<1> QED BY <1>6, <1>7, <1>8

(* With no pump held, the first ready unit is chosen.                      *)
LEMMA FirstIsChosen ==
    ASSUME TypeOK, Held = 0, ready # {}
    PROVE  Chosen # {}
<1>1. PICK l : Lefts(l, Cardinality(Units)) /\ Chosen = Picked(l, Cardinality(Units)) BY ChosenPicks
<1>2. PICK c \in Nat : c = Cardinality(Units) BY UnitsFinite
<1>3. PICK I : I = {i \in 1 .. c : UnitOrder[i] \in ready} OBVIOUS
<1>4. I # {}
    <2>1. PICK U \in ready : U \in Units BY DEF TypeOK
    <2>2. \E i \in 1 .. c : U = UnitOrder[i] BY <1>2, <2>1, UnitOrderFacts
    <2> QED BY <1>3, <2>2
<1>5. I \in SUBSET Nat BY <1>3
<1>6. PICK k \in I : \A m \in I : k <= m BY <1>4, <1>5, LeastNatural
<1>7. k \in 1 .. c /\ UnitOrder[k] \in ready BY <1>3, <1>6
<1> DEFINE Bad == {i \in 0 .. k - 1 : l[i] # Available}
<1>8. ASSUME Bad # {} PROVE FALSE
    <2>1. Bad \in SUBSET Nat BY <1>7
    <2>2. PICK i \in Bad : \A m \in Bad : i <= m BY <1>8, <2>1, LeastNatural
    <2>3. i # 0 BY <1>1, <2>2 DEF Lefts
    <2>4. i \in 1 .. c /\ i - 1 \in 0 .. k - 1 /\ i - 1 \notin Bad /\ i < k BY <1>2, <1>7, <2>2, <2>3
    <2>5. l[i - 1] = Available BY <2>4
    <2>6. i \notin I BY <1>6, <1>7, <2>4
    <2>7. ~Takes(i, l[i - 1]) BY <1>3, <2>4, <2>6 DEF Takes
    <2>8. l[i] = l[i - 1] BY <1>1, <1>2, <2>4, <2>7 DEF Lefts, Rest
    <2> QED BY <2>2, <2>5, <2>8
<1>9. l[k - 1] = Available
    <2>1. k - 1 \in 0 .. k - 1 /\ k - 1 \notin Bad BY <1>7, <1>8
    <2> QED BY <2>1
<1>10. Size(k) <= Available
    <2>1. Target \in Nat /\ Size(k) <= Target BY <1>7, TargetBounds DEF Size
    <2>2. Available = Target BY <2>1 DEF Available, Larger
    <2> QED BY <2>1, <2>2
<1>11. Takes(k, l[k - 1]) BY <1>7, <1>9, <1>10 DEF Takes
<1> QED BY <1>1, <1>2, <1>7, <1>11 DEF Picked

-----------------------------------------------------------------------------
(***************************************************************************)
(* The steps of the DAG loop and of an interrupt: jobs and pumps stay.     *)
(***************************************************************************)
LEMMA DagMovesKeep ==
    ASSUME IndInv, UNCHANGED <<jobVars, pump, life, seen, stop, why>>,
           \A U \in Units : \/ coord'[U] = coord[U]
                            \/ coord[U] \in Still /\ coord'[U] \in Still,
           TypeOK', Stages', Flights', SharesHeld', ScanExact', ReturnsComplete',
           Held' <= Larger(Budget, Cardinality(Preclaiming))
    PROVE  IndInv'
<1>1. UNCHANGED <<row, place, passed>> BY DEF jobVars
<1>2. PumpsStill'
    <2> SUFFICES ASSUME NEW n \in Nodes
                 PROVE  (coord'[UnitOf[n]] \in Still => pump'[n] = "none") /\ (pump'[n] = "ready" => IsLive(n))
        BY DEF PumpsStill
    <2>1. UnitOf[n] \in Units BY UnitsPartition
    <2> QED BY <2>1 DEF IndInv, PumpsStill
<1>3. JobsCarried' BY <1>1 DEF IndInv, JobsCarried, Carried
<1>4. QuietHolds'
    <2> SUFFICES ASSUME NEW U \in Units, ConcludesQuiet(U)' PROVE Idle(U)' BY DEF QuietHolds
    <2>1. ConcludesQuiet(U) BY DEF ConcludesQuiet, Quiescent, Still
    <2> QED BY <1>1, <2>1 DEF IndInv, QuietHolds, Idle
<1>5. DeadHolds'
    <2> SUFFICES ASSUME NEW U \in Units, ConcludesDead(U)' PROVE Dead(U)' BY DEF DeadHolds
    <2>1. Deadlocked(U)' => Deadlocked(U) BY DEF Deadlocked, Blocked, Blocking, Active
    <2>2. ConcludesDead(U) BY <2>1 DEF ConcludesDead, Still
    <2>3. Dead(U) BY <2>2 DEF IndInv, DeadHolds
    <2> QED BY <1>1, <2>3 DEF Dead, Stuck, Waits
<1>6. DoneHolds' BY <1>1 DEF IndInv, DoneHolds, Complete
<1>7. PumpBudgetKept'
    <2>1. ASSUME NEW U \in flight', NEW n \in ApiOf(U) PROVE share'[n] >= 1
        <3>1. U \in Units /\ n \in U /\ n \in Preclaiming BY DEF TypeOK, ApiOf
        <3>2. UnitOf[n] = U BY <3>1, UnitsPartition
        <3> QED BY <3>1, <3>2 DEF SharesHeld
    <2> QED BY <2>1 DEF PumpBudgetKept
<1> QED BY <1>2, <1>3, <1>4, <1>5, <1>6, <1>7 DEF IndInv

LEMMA PauseKeeps == ASSUME IndInv, NEW U \in Units, PauseUnit(U) \/ ReleaseUnit(U) PROVE IndInv'
<1>1. TypeOK BY DEF IndInv
<1>2. UNCHANGED <<request, jobVars, pump, life, unitVars, dagVars>> BY DEF PauseUnit, ReleaseUnit
<1>3. UNCHANGED <<coord, seen, stop, why, outcome, dag, scan, ready, flight, stopped, share>>
    BY <1>2 DEF unitVars, dagVars
<1>4. paused' \subseteq Units /\ pauses' \in 0 .. MaxPauses /\ pauses' # 0
      /\ (dag = "returned" => pauses' = pauses)
    <2>1. CASE PauseUnit(U)
        <3>1. MaxPauses \in Nat BY GraphAssumption
        <3>2. /\ pauses \in 0 .. MaxPauses /\ pauses < MaxPauses /\ pauses' = pauses + 1
              /\ paused' \subseteq Units /\ dag # "returned"
            BY <1>1, <2>1 DEF TypeOK, PauseUnit
        <3> QED BY <3>1, <3>2
    <2>2. CASE ReleaseUnit(U) BY <1>1, <2>2 DEF TypeOK, ReleaseUnit, IndInv, ScanExact
    <2> QED BY <2>1, <2>2
<1>5. TypeOK' BY <1>1, <1>2, <1>3, <1>4 DEF TypeOK, jobVars
<1>6. Stages' /\ Flights' /\ SharesHeld'
    BY <1>2, <1>3 DEF IndInv, Stages, Stage, ComponentReady, Flights, Aloft, SharesHeld
<1>7. ScanExact' /\ ReturnsComplete' BY <1>3, <1>4 DEF IndInv, ScanExact, Undisturbed, ReturnsComplete
<1>8. Held' <= Larger(Budget, Cardinality(Preclaiming)) BY <1>3 DEF IndInv, PumpBudgetKept, Held
<1> QED BY <1>2, <1>3, <1>5, <1>6, <1>7, <1>8, DagMovesKeep

(* A step of the loop that only looks.                                     *)
LEMMA LookKeeps ==
    ASSUME IndInv, UNCHANGED <<jobVars, pump, life, unitVars, flight, share, pauseVars>>,
           dag \notin {"returned", "raised"}, dag' # "raised", dag' = "returned" => flight = {},
           dag' \in {"boundary", "scan", "launch", "wait", "drain", "returned", "raised"},
           scan' \in 0 .. Cardinality(Units), stopped' \in BOOLEAN,
           ready' \subseteq Units, ready' \cap flight = {}, ScanExact', ReturnsComplete'
    PROVE  IndInv'
<1>1. TypeOK BY DEF IndInv
<1>2. UNCHANGED <<coord, seen, stop, why, outcome, request, paused, pauses>> BY DEF unitVars, pauseVars
<1>3. TypeOK' BY <1>1, <1>2 DEF TypeOK, jobVars
<1>4. Stages' /\ SharesHeld' BY <1>2 DEF IndInv, Stages, Stage, ComponentReady, SharesHeld
<1>5. Flights'
    <2>1. ASSUME NEW U \in Units PROVE Aloft(U)'
        <3>1. Aloft(U) BY DEF IndInv, Flights
        <3> QED BY <1>2, <3>1 DEF Aloft
    <2> QED BY <2>1 DEF Flights
<1>6. Held' <= Larger(Budget, Cardinality(Preclaiming)) BY DEF IndInv, PumpBudgetKept, Held
<1> QED BY <1>2, <1>3, <1>4, <1>5, <1>6, DagMovesKeep

LEMMA ReadBoundaryKeeps == ASSUME IndInv, ReadBoundary PROVE IndInv'
<1>1. TypeOK /\ Cardinality(Units) \in Nat BY UnitsFinite DEF IndInv
<1>2. UNCHANGED <<jobVars, pump, life, unitVars, flight, share, pauseVars>> BY DEF ReadBoundary
<1>3. dag = "boundary" /\ dag' = "scan" /\ ready' = {} BY DEF ReadBoundary
<1>4. scan' \in 0 .. Cardinality(Units) /\ stopped' \in BOOLEAN BY <1>1 DEF ReadBoundary, TypeOK
<1>5. ScanExact'
    <2>1. pauses' = 0 => paused' = {} BY <1>2 DEF IndInv, ScanExact, pauseVars
    <2>2. ASSUME Undisturbed' PROVE ready' = {U \in Looked' : UnitReady(U)'}
        <3>1. scan' = Cardinality(Units) BY <2>2 DEF Undisturbed, ReadBoundary
        <3>2. 1 .. Cardinality(Units) - scan' = {} BY <1>1, <3>1
        <3>3. Looked' = {} BY <3>2 DEF Looked
        <3> QED BY <1>3, <3>3
    <2> QED BY <1>3, <2>1, <2>2 DEF ScanExact
<1>6. ReturnsComplete' BY <1>3 DEF ReturnsComplete
<1> QED BY <1>2, <1>3, <1>4, <1>5, <1>6, LookKeeps

LEMMA ScanUnitKeeps == ASSUME IndInv, ScanUnit PROVE IndInv'
<1>1. TypeOK BY DEF IndInv
<1>2. UNCHANGED <<jobVars, pump, life, unitVars, flight, share, pauseVars, dag, stopped>> BY DEF ScanUnit
<1>3. dag = "scan" /\ scan > 0 /\ scan' = scan - 1 BY DEF ScanUnit
<1>4. PICK c \in Nat : c = Cardinality(Units) BY UnitsFinite
<1>5. scan \in 1 .. c /\ scan' \in 0 .. c BY <1>1, <1>3, <1>4 DEF TypeOK
<1>6. PICK i \in 1 .. c : i = c - scan + 1 BY <1>4, <1>5
<1>7. UnitOrder[i] \in Units BY <1>4, <1>6, UnitOrderFacts
<1>8. ready' = IF UnitOrder[i] \notin flight /\ UnitReady(UnitOrder[i]) THEN ready \cup {UnitOrder[i]} ELSE ready
    BY <1>4, <1>6 DEF ScanUnit
<1>9. ready' \subseteq Units /\ ready' \cap flight = {}
    <2>1. ready \subseteq Units /\ ready \cap flight = {} BY <1>1 DEF TypeOK, IndInv, Flights, Aloft
    <2> QED BY <1>7, <1>8, <2>1
<1>10. ScanExact'
    <2>1. pauses' = 0 => paused' = {} BY <1>2 DEF IndInv, ScanExact, pauseVars
    <2>2. ASSUME Undisturbed' PROVE ready' = {U \in Looked' : UnitReady(U)'}
        <3>1. Undisturbed /\ flight = {} BY <1>2, <2>2 DEF Undisturbed, pauseVars
        <3>2. ready = {U \in Looked : UnitReady(U)} BY <3>1 DEF IndInv, ScanExact
        <3>3. 1 .. c - scan' = (1 .. c - scan) \cup {i} BY <1>3, <1>5, <1>6
        <3>4. Looked' = Looked \cup {UnitOrder[i]} BY <1>4, <3>3 DEF Looked
        <3>5. \A U \in Looked' : UnitReady(U)' <=> UnitReady(U)
            BY <1>2 DEF UnitReady, ComponentReady, pauseVars
        <3> QED BY <1>8, <3>1, <3>2, <3>4, <3>5
    <2> QED BY <1>2, <1>3, <2>1, <2>2 DEF ScanExact
<1>11. ReturnsComplete' BY <1>2, <1>3 DEF ReturnsComplete
<1>12. stopped' \in BOOLEAN BY <1>1, <1>2 DEF TypeOK
<1> QED BY <1>2, <1>3, <1>4, <1>5, <1>9, <1>10, <1>11, <1>12, LookKeeps

LEMMA ScannedKeeps == ASSUME IndInv, Scanned PROVE IndInv'
<1>1. TypeOK BY DEF IndInv
<1>2. UNCHANGED <<jobVars, pump, life, unitVars, flight, share, pauseVars, scan>> BY DEF Scanned
<1>3. dag = "scan" /\ dag' = "launch" /\ scan = 0 BY DEF Scanned
<1>4. ready' \in {{}, ready} /\ (~stopped' => ready' = ready /\ ~stopped) /\ stopped' \in BOOLEAN
    BY <1>1 DEF Scanned, TypeOK
<1>5. ready' \subseteq Units /\ ready' \cap flight = {}
    BY <1>1, <1>4 DEF TypeOK, IndInv, Flights, Aloft
<1>6. ScanExact'
    <2>1. pauses' = 0 => paused' = {} BY <1>2 DEF IndInv, ScanExact, pauseVars
    <2>2. ASSUME Undisturbed' PROVE ready' = {U \in Looked' : UnitReady(U)'}
        <3>1. Undisturbed BY <1>2, <1>3, <1>4, <2>2 DEF Undisturbed, pauseVars
        <3>2. ready = {U \in Looked : UnitReady(U)} BY <3>1 DEF IndInv, ScanExact
        <3>3. Looked' = Looked BY <1>2 DEF Looked
        <3>4. \A U \in Looked' : UnitReady(U)' <=> UnitReady(U)
            BY <1>2 DEF UnitReady, ComponentReady, pauseVars
        <3>5. ready' = ready BY <1>4, <2>2 DEF Undisturbed
        <3> QED BY <3>2, <3>3, <3>4, <3>5
    <2> QED BY <1>2, <1>3, <2>1, <2>2 DEF ScanExact
<1>7. ReturnsComplete' BY <1>3 DEF ReturnsComplete
<1>8. scan' \in 0 .. Cardinality(Units) BY <1>1, <1>2 DEF TypeOK
<1> QED BY <1>2, <1>3, <1>4, <1>5, <1>6, <1>7, <1>8, LookKeeps

(* A loop that has nothing to launch and nothing in flight has completed   *)
(* every unit, unless it was stopped or interrupted.                       *)
LEMMA NothingLeft ==
    ASSUME IndInv, dag = "launch", flight = {}, Launched = {}, ~stopped, pauses = 0
    PROVE  AllComplete
<1>1. TypeOK /\ Undisturbed /\ paused = {} /\ scan = 0 BY DEF IndInv, Undisturbed, ScanExact
<1>2. PICK c \in Nat : c = Cardinality(Units) BY UnitsFinite
<1>3. ready = {U \in Units : UnitReady(U)}
    <2>1. 1 .. Cardinality(Units) - scan = 1 .. c BY <1>1, <1>2
    <2>2. Looked = {UnitOrder[i] : i \in 1 .. c} BY <2>1 DEF Looked
    <2>3. \A i \in 1 .. c : UnitOrder[i] \in Units BY <1>2, UnitOrderFacts
    <2>4. \A U \in Units : \E i \in 1 .. c : U = UnitOrder[i] BY <1>2, UnitOrderFacts
    <2>5. Looked = Units BY <2>2, <2>3, <2>4
    <2> QED BY <1>1, <2>5 DEF IndInv, ScanExact
<1>4. ready = {}
    <2>1. SUFFICES ASSUME ready # {} PROVE FALSE OBVIOUS
    <2>2. \A n \in Preclaiming : share[n] = 0
        <3>1. PumpCap \in Nat BY GraphAssumption
        <3> QED BY <1>1, <3>1 DEF TypeOK, IndInv, SharesHeld
    <2>3. Held = 0
        <3>1. IsFiniteSet(Preclaiming) /\ Cardinality(Preclaiming) \in Nat BY ApiFinite
        <3>2. SumOver(Preclaiming, share) = 0 * Cardinality(Preclaiming) BY <2>2, <3>1, SumConst
        <3> QED BY <3>1, <3>2 DEF Held
    <2>4. PICK U \in Chosen : TRUE BY <1>1, <2>1, <2>3, FirstIsChosen
    <2>5. U \in ready BY <1>1, <2>4, ChosenFits
    <2>6. U \in Launched BY <1>3, <2>4, <2>5 DEF Launched
    <2> QED BY <2>6
<1>5. ASSUME NEW U \in Units PROVE life[U] = "done" \/ life[U] = "queued"
    <2>1. Stage(U) /\ Aloft(U) BY DEF IndInv, Stages, Flights
    <2> QED BY <2>1 DEF Stage, Aloft
<1> DEFINE Bad == {i \in 1 .. c : life[UnitOrder[i]] # "done"}
<1>6. ASSUME Bad # {} PROVE FALSE
    <2>1. Bad \in SUBSET Nat OBVIOUS
    <2>2. PICK i \in Bad : \A m \in Bad : i <= m BY <1>6, <2>1, LeastNatural
    <2>3. i \in 1 .. c /\ life[UnitOrder[i]] # "done" BY <2>2
    <2>4. UnitOrder[i] \in Units BY <1>2, <2>3, UnitOrderFacts
    <2>5. ASSUME NEW V \in Parents[UnitOrder[i]] PROVE life[V] = "done"
        <3>1. V \in Units BY <2>4, ParentIsUnit
        <3>2. PICK k \in 1 .. c : V = UnitOrder[k] BY <1>2, <3>1, UnitOrderFacts
        <3>3. k < i BY <1>2, <2>3, <3>2, UnitOrderFacts
        <3>4. ~(i <= k) BY <2>3, <3>3
        <3>5. k \notin Bad
            <4> HIDE DEF Bad
            <4> QED BY <2>2, <3>4
        <3> QED BY <3>2, <3>5
    <2>6. UnitReady(UnitOrder[i]) BY <1>1, <1>5, <2>3, <2>4, <2>5 DEF UnitReady, ComponentReady
    <2> QED BY <1>3, <1>4, <2>4, <2>6
<1>7. ASSUME NEW U \in Units PROVE life[U] = "done"
    <2>1. PICK i \in 1 .. c : U = UnitOrder[i] BY <1>2, UnitOrderFacts
    <2> QED BY <1>6, <2>1
<1>8. ASSUME NEW j \in Jobs PROVE row[j] \in {"absent", "done"}
    <2>1. UnitOf[Home[j]] \in Units /\ j \in JobsOf(UnitOf[Home[j]]) BY JobHome
    <2> QED BY <1>7, <2>1 DEF IndInv, DoneHolds, Complete
<1> QED BY <1>7, <1>8 DEF AllComplete

LEMMA LaunchNothingKeeps == ASSUME IndInv, LaunchNothing PROVE IndInv'
<1>1. TypeOK BY DEF IndInv
<1>2. UNCHANGED <<jobVars, pump, life, unitVars, flight, share, pauseVars, scan, stopped>> BY DEF LaunchNothing
<1>3. dag = "launch" /\ ready' = {} /\ dag' \in {"wait", "boundary", "returned"}
      /\ (dag' = "returned" => flight = {}) /\ Launched = {}
    BY DEF LaunchNothing
<1>4. ScanExact' BY <1>2, <1>3 DEF IndInv, ScanExact, Undisturbed, pauseVars
<1>5. ReturnsComplete'
    <2>1. SUFFICES ASSUME dag' = "returned", ~stopped', pauses' = 0 PROVE AllComplete' BY DEF ReturnsComplete
    <2>2. AllComplete BY <1>2, <1>3, <2>1, NothingLeft DEF pauseVars
    <2> QED BY <1>2, <2>2 DEF AllComplete, jobVars
<1>6. scan' \in 0 .. Cardinality(Units) /\ stopped' \in BOOLEAN BY <1>1, <1>2 DEF TypeOK
<1> QED BY <1>2, <1>3, <1>4, <1>5, <1>6, LookKeeps

LEMMA CollectErrorKeeps == ASSUME IndInv, CollectError PROVE IndInv'
<1>1. TypeOK BY DEF IndInv
<1>2. UNCHANGED <<jobVars, pump, life, unitVars, flight, share, pauseVars, scan, stopped, ready>> BY DEF CollectError
<1>3. dag = "wait" /\ dag' = "drain" BY DEF CollectError
<1>4. ScanExact' BY <1>2, <1>3 DEF IndInv, ScanExact, Undisturbed, pauseVars
<1>5. ReturnsComplete' BY <1>3 DEF ReturnsComplete
<1>6. scan' \in 0 .. Cardinality(Units) /\ stopped' \in BOOLEAN BY <1>1, <1>2 DEF TypeOK
<1>7. ready' \subseteq Units /\ ready' \cap flight = {}
    BY <1>1, <1>2 DEF TypeOK, IndInv, Flights, Aloft
<1> QED BY <1>2, <1>3, <1>4, <1>5, <1>6, <1>7, LookKeeps

(* A unit of which the Future has a result has ended; one that is not in   *)
(* flight has a result that was collected.                                 *)
LEMMA EndedUnits ==
    ASSUME IndInv, NEW U \in Units, dag # "raised"
    PROVE  /\ U \in DoneUnits => coord[U] = "ended"
           /\ U \in flight => coord[U] # "idle" /\ U \notin ready
           /\ U \notin flight /\ coord[U] # "idle" => coord[U] = "ended" /\ outcome[U] = "ok"
           /\ U \in ready /\ UnitReady(U) => coord[U] = "idle"
           /\ Stage(U)
<1>1. Stage(U) /\ Aloft(U) BY DEF IndInv, Stages, Flights
<1>2. coord[U] \in {"idle", "begin", "ended"} \cup Working BY DEF IndInv, TypeOK, Working
<1>3. U \in DoneUnits => coord[U] = "ended" BY <1>1, <1>2 DEF Stage, Aloft, DoneUnits
<1>4. U \in ready /\ UnitReady(U) => coord[U] = "idle" BY <1>1 DEF Stage, Aloft, UnitReady
<1> QED BY <1>1, <1>3, <1>4 DEF Aloft

LEMMA CollectKeeps == ASSUME IndInv, Collect PROVE IndInv'
<1>1. TypeOK /\ dag = "wait" /\ dag' = "boundary" BY DEF IndInv, Collect
<1>2. UNCHANGED <<jobVars, pump, life, seen, stop, why, outcome, scan, ready, request, paused, pauses>>
    BY DEF Collect, pauseVars
<1>3. flight' = flight \ DoneUnits /\ \A U \in DoneUnits : outcome[U] # "error" BY DEF Collect
<1>4. share' = [n \in Preclaiming |-> IF UnitOf[n] \in DoneUnits THEN 0 ELSE share[n]] BY DEF Collect
<1>5. coord' = [U \in Units |-> IF U \in DoneUnits /\ outcome[U] = "paused" THEN "idle" ELSE coord[U]]
    BY DEF Collect
<1>6. PumpCap \in Nat /\ IsFiniteSet(Preclaiming) BY ApiFinite, GraphAssumption
<1>7. share' \in [Preclaiming -> 0 .. PumpCap] BY <1>1, <1>4, <1>6 DEF TypeOK
<1>8. stopped' \in BOOLEAN BY <1>1 DEF Collect, TypeOK
<1>9. coord' \in [Units -> {"idle", "begin", "first", "attach", "reap", "observe", "decide",
                            "join", "finish", "ended"}]
    BY <1>1, <1>5 DEF TypeOK
<1>10. TypeOK' BY <1>1, <1>2, <1>3, <1>7, <1>8, <1>9 DEF TypeOK, jobVars
<1>11. ASSUME NEW U \in Units
       PROVE  /\ coord'[U] = IF U \in DoneUnits /\ outcome[U] = "paused" THEN "idle" ELSE coord[U]
              /\ coord'[U] # coord[U] => coord[U] = "ended" /\ outcome[U] = "paused"
    BY <1>1, <1>5, EndedUnits
<1>12. Stages'
    <2> SUFFICES ASSUME NEW U \in Units PROVE Stage(U)' BY DEF Stages
    <2>1. Stage(U) BY <1>1, EndedUnits
    <2>2. ComponentReady(U)' <=> ComponentReady(U) BY <1>2 DEF ComponentReady
    <2>3. CASE coord'[U] = coord[U] BY <1>2, <2>1, <2>2, <2>3 DEF Stage
    <2>4. CASE coord'[U] # coord[U]
        <3>1. coord[U] = "ended" /\ outcome[U] = "paused" /\ coord'[U] = "idle" BY <1>11, <2>4
        <3>2. life[U] = "queued" /\ why[U] = "none" BY <2>1, <3>1 DEF Stage
        <3> QED BY <1>2, <2>1, <2>2, <3>1, <3>2 DEF Stage, Working
    <2> QED BY <2>3, <2>4
<1>13. Flights'
    <2> SUFFICES ASSUME NEW U \in Units PROVE Aloft(U)' BY <1>1 DEF Flights
    <2>1. CASE U \in DoneUnits
        <3>1. coord[U] = "ended" /\ Stage(U) BY <1>1, <2>1, EndedUnits
        <3>2. outcome[U] \in {"ok", "paused"} BY <1>3, <2>1, <3>1 DEF Stage
        <3> QED BY <1>2, <1>3, <1>11, <2>1, <3>1, <3>2 DEF Aloft
    <2>2. CASE U \notin DoneUnits BY <1>1, <1>2, <1>3, <1>11, <2>2, EndedUnits DEF Aloft
    <2> QED BY <2>1, <2>2
<1>14. SharesHeld'
    <2> SUFFICES ASSUME NEW n \in Preclaiming PROVE share'[n] >= 1 <=> UnitOf[n] \in flight' BY DEF SharesHeld
    <2>1. share[n] >= 1 <=> UnitOf[n] \in flight BY DEF IndInv, SharesHeld
    <2>2. CASE UnitOf[n] \in DoneUnits
        <3>1. share'[n] = 0 /\ UnitOf[n] \notin flight' BY <1>3, <1>4, <2>2
        <3> QED BY <3>1
    <2>3. CASE UnitOf[n] \notin DoneUnits BY <1>3, <1>4, <2>1, <2>3
    <2> QED BY <2>2, <2>3
<1>15. ScanExact' /\ ReturnsComplete'
    BY <1>1, <1>2 DEF IndInv, ScanExact, Undisturbed, ReturnsComplete
<1>16. Held' <= Larger(Budget, Cardinality(Preclaiming))
    <2>1. \A n \in Preclaiming : share[n] \in Nat /\ share'[n] \in Nat /\ share'[n] <= share[n]
        <3>1. \A n \in Preclaiming : share[n] \in 0 .. PumpCap BY <1>1 DEF TypeOK
        <3> QED BY <1>4, <1>6, <3>1
    <2>2. Whole(share, Preclaiming) /\ Whole(share', Preclaiming) BY <2>1 DEF Whole
    <2>3. SumOver(Preclaiming, share') <= SumOver(Preclaiming, share) BY <1>6, <2>1, <2>2, SumMono
    <2>4. SumOver(Preclaiming, share') \in Int /\ SumOver(Preclaiming, share) \in Int
        BY <1>6, <2>2, SumStep
    <2>5. Held <= Larger(Budget, Cardinality(Preclaiming)) BY DEF IndInv, PumpBudgetKept
    <2>6. Larger(Budget, Cardinality(Preclaiming)) \in Int BY ApiFinite, GraphAssumption DEF Larger
    <2> QED BY <2>3, <2>4, <2>5, <2>6 DEF Held
<1>17. \A U \in Units : coord'[U] = coord[U] \/ (coord[U] \in Still /\ coord'[U] \in Still)
    BY <1>11 DEF Still
<1> QED BY <1>2, <1>10, <1>12, <1>13, <1>14, <1>15, <1>16, <1>17, DagMovesKeep

LEMMA RaiseKeeps == ASSUME IndInv, Raise PROVE IndInv'
<1>1. TypeOK /\ dag = "drain" /\ dag' = "raised" /\ Drained BY DEF IndInv, Raise
<1>2. UNCHANGED <<jobVars, pump, life, seen, stop, why, outcome, coord, scan, ready, stopped, request, paused, pauses>>
    BY DEF Raise, unitVars, pauseVars
<1>3. flight' = {} /\ share' = [n \in Preclaiming |-> 0] BY DEF Raise
<1>4. PumpCap \in Nat BY GraphAssumption
<1>5. TypeOK' BY <1>1, <1>2, <1>3, <1>4 DEF TypeOK, jobVars
<1>6. Stages' BY <1>2 DEF IndInv, Stages, Stage, ComponentReady
<1>7. Flights'
    <2> SUFFICES ASSUME NEW U \in Units PROVE Aloft(U)' BY <1>3 DEF Flights
    <2>1. coord[U] # "idle" => coord[U] = "ended"
        <3>1. U \in flight => U \in DoneUnits BY <1>1 DEF Drained, DoneUnits
        <3> QED BY <1>1, <3>1, EndedUnits
    <2> QED BY <1>1, <1>2, <1>3, <2>1 DEF Aloft
<1>8. SharesHeld' BY <1>3 DEF SharesHeld
<1>9. ScanExact' /\ ReturnsComplete'
    BY <1>1, <1>2 DEF IndInv, ScanExact, Undisturbed, ReturnsComplete
<1>10. Held' <= Larger(Budget, Cardinality(Preclaiming))
    <2>1. IsFiniteSet(Preclaiming) /\ Cardinality(Preclaiming) \in Nat BY ApiFinite
    <2>2. \A n \in Preclaiming : share'[n] = 0 BY <1>3
    <2>3. SumOver(Preclaiming, share') = 0 * Cardinality(Preclaiming) BY <2>1, <2>2, SumConst
    <2>4. Held' = 0 BY <2>1, <2>3 DEF Held
    <2> QED BY <2>1, <2>4, GraphAssumption DEF Larger
<1> QED BY <1>2, <1>5, <1>6, <1>7, <1>8, <1>9, <1>10, DagMovesKeep

(* What a wave adds to the pumps that are held.                            *)
LEMMA LaunchBudget ==
    ASSUME IndInv, Launch
    PROVE  /\ share' \in [Preclaiming -> 0 .. PumpCap] /\ SharesHeld'
           /\ Held' <= Larger(Budget, Cardinality(Preclaiming))
<1>1. TypeOK /\ dag = "launch" BY DEF IndInv, Launch
<1>2. PumpCap \in Nat /\ IsFiniteSet(Preclaiming) BY ApiFinite, GraphAssumption
<1>3. PICK L : L = {n \in Preclaiming : UnitOf[n] \in Launched} OBVIOUS
<1>4. L \in SUBSET Preclaiming /\ L \in SUBSET WaveApi /\ WaveApi \in SUBSET Preclaiming
    <2>1. L \in SUBSET Preclaiming BY <1>3
    <2>2. ASSUME NEW n \in L PROVE n \in WaveApi
        <3>1. n \in Preclaiming /\ UnitOf[n] \in Chosen BY <1>3 DEF Launched
        <3>2. n \in Nodes BY <3>1, GraphAssumption
        <3>3. n \in UnitOf[n] BY <3>2, UnitsPartition
        <3> QED BY <3>1, <3>3 DEF WaveApi, ApiOf
    <2> QED BY <1>1, <2>1, <2>2, ChosenFits
<1>5. /\ Wave \in [WaveApi -> 1 .. PumpCap]
      /\ SumOver(WaveApi, Wave) \in Nat /\ SumOver(WaveApi, Wave) <= Available
    BY <1>1, WaveFits
<1>6. \A n \in Preclaiming : share'[n] = IF n \in L THEN Wave[n] ELSE share[n] BY <1>3 DEF Launch
<1>7. \A n \in Preclaiming : share[n] \in 0 .. PumpCap BY <1>1 DEF TypeOK
<1>8. \A n \in L : Wave[n] \in 1 .. PumpCap BY <1>4, <1>5
<1>9. share' \in [Preclaiming -> 0 .. PumpCap]
    <2>1. PICK f : f = [n \in Preclaiming |-> IF UnitOf[n] \in Launched THEN Wave[n] ELSE share[n]] OBVIOUS
    <2>2. share' = f BY <2>1 DEF Launch
    <2>3. \A n \in Preclaiming : f[n] = IF n \in L THEN Wave[n] ELSE share[n] BY <1>3, <2>1
    <2>4. \A n \in Preclaiming : f[n] \in 0 .. PumpCap BY <1>2, <1>7, <1>8, <2>3
    <2> QED BY <2>1, <2>2, <2>4
<1>10. \A n \in L : UnitOf[n] \notin flight
    <2> SUFFICES ASSUME NEW n \in L PROVE UnitOf[n] \notin flight OBVIOUS
    <2>1. UnitOf[n] \in ready BY <1>1, <1>3, ChosenFits DEF Launched
    <2>2. UnitOf[n] \in Units BY <1>1, <2>1 DEF TypeOK
    <2> QED BY <1>1, <2>1, <2>2, EndedUnits
<1>11. SharesHeld'
    <2> SUFFICES ASSUME NEW n \in Preclaiming PROVE share'[n] >= 1 <=> UnitOf[n] \in flight' BY DEF SharesHeld
    <2>1. share[n] >= 1 <=> UnitOf[n] \in flight BY DEF IndInv, SharesHeld
    <2>2. flight' = flight \cup Launched BY DEF Launch
    <2>3. CASE n \in L
        <3>1. share'[n] \in 1 .. PumpCap BY <1>6, <1>8, <2>3
        <3>2. UnitOf[n] \in flight' BY <1>3, <2>2, <2>3
        <3> QED BY <1>2, <3>1, <3>2
    <2>4. CASE n \notin L BY <1>3, <1>6, <2>1, <2>2, <2>4
    <2> QED BY <2>3, <2>4
<1>12. SumOver(Preclaiming, share') = SumOver(L, Wave) + SumOver(Preclaiming \ L, share)
    <2>1. PICK R : R = Preclaiming \ L OBVIOUS
    <2>2. IsFiniteSet(L) /\ IsFiniteSet(R) BY <1>2, <1>4, <2>1, FS_Subset
    <2>3. \A n \in Preclaiming : share'[n] \in Nat
        <3>1. \A n \in Preclaiming : share'[n] \in 0 .. PumpCap BY <1>9
        <3> QED BY <1>2, <3>1
    <2>4. SumOver(Preclaiming, share') = SumOver(L, share') + SumOver(R, share')
        BY <1>2, <1>4, <2>1, <2>3, SumPart
    <2>5. SumOver(L, share') = SumOver(L, Wave) BY <1>4, <1>6, <2>2, SumSame
    <2>6. SumOver(R, share') = SumOver(R, share) BY <1>6, <2>1, <2>2, SumSame
    <2> QED BY <2>1, <2>4, <2>5, <2>6
<1>13. SumOver(L, Wave) \in Nat /\ SumOver(L, Wave) <= SumOver(WaveApi, Wave)
    <2>1. IsFiniteSet(WaveApi) BY <1>4, ApiFinite
    <2>2. \A n \in WaveApi : Wave[n] \in Nat
        <3>1. \A n \in WaveApi : Wave[n] \in 1 .. PumpCap BY <1>5
        <3> QED BY <1>2, <3>1
    <2> QED BY <1>4, <2>1, <2>2, SumPart
<1>14. SumOver(Preclaiming \ L, share) \in Nat /\ SumOver(Preclaiming \ L, share) <= Held
    <2>1. PICK R : R = Preclaiming \ L OBVIOUS
    <2>2. R \in SUBSET Preclaiming BY <2>1
    <2>3. \A n \in Preclaiming : share[n] \in Nat BY <1>2, <1>7
    <2> QED BY <1>2, <2>1, <2>2, <2>3, SumPart DEF Held
<1>15. Held \in Nat /\ Target \in Nat /\ Target <= Larger(Budget, Cardinality(Preclaiming))
    BY <1>1, HeldNat, TargetBounds
<1>16. Held <= Larger(Budget, Cardinality(Preclaiming)) BY DEF IndInv, PumpBudgetKept
<1>17. Available = Larger(0, Target - Held) BY DEF Available
<1>18. Larger(Budget, Cardinality(Preclaiming)) \in Int BY ApiFinite, GraphAssumption DEF Larger
<1>19. Held + Available <= Larger(Budget, Cardinality(Preclaiming))
    <2>1. PICK b \in Int : b = Larger(Budget, Cardinality(Preclaiming)) BY <1>18
    <2> QED BY <1>15, <1>16, <1>17, <2>1 DEF Larger
<1>20. Available \in Nat BY <1>1, TargetBounds
<1>21. Held' = SumOver(Preclaiming, share') BY DEF Held
<1> QED BY <1>5, <1>9, <1>11, <1>12, <1>13, <1>14, <1>15, <1>18, <1>19, <1>20, <1>21

LEMMA LaunchKeeps == ASSUME IndInv, Launch PROVE IndInv'
<1>1. TypeOK /\ dag = "launch" /\ dag' = "wait" /\ ready' = {} BY DEF IndInv, Launch
<1>2. UNCHANGED <<jobVars, pump, life, seen, stop, why, scan, stopped, request, paused, pauses>>
    BY DEF Launch, pauseVars
<1>3. flight' = flight \cup Launched BY DEF Launch
<1>4. coord' = [U \in Units |-> IF U \in Launched THEN "begin" ELSE coord[U]] BY DEF Launch
<1>5. outcome' = [U \in Units |-> IF U \in Launched THEN "none" ELSE outcome[U]] BY DEF Launch
<1>6. Launched \subseteq ready /\ Launched \subseteq Units BY <1>1, ChosenFits DEF Launched, TypeOK
<1>7. share' \in [Preclaiming -> 0 .. PumpCap] /\ SharesHeld'
      /\ Held' <= Larger(Budget, Cardinality(Preclaiming))
    BY LaunchBudget
<1>8. coord' \in [Units -> {"idle", "begin", "first", "attach", "reap", "observe", "decide",
                            "join", "finish", "ended"}]
      /\ outcome' \in [Units -> {"none", "ok", "error", "paused"}]
    BY <1>1, <1>4, <1>5 DEF TypeOK
<1>9. TypeOK' BY <1>1, <1>2, <1>3, <1>6, <1>7, <1>8 DEF TypeOK, jobVars
<1>10. \A U \in Launched : coord[U] = "idle" BY <1>1, <1>6, EndedUnits DEF Launched
<1>11. Stages'
    <2> SUFFICES ASSUME NEW U \in Units PROVE Stage(U)' BY DEF Stages
    <2>1. Stage(U) BY <1>1, EndedUnits
    <2>2. ComponentReady(U)' <=> ComponentReady(U) BY <1>2 DEF ComponentReady
    <2>3. CASE U \notin Launched
        <3>1. coord'[U] = coord[U] /\ outcome'[U] = outcome[U] BY <1>4, <1>5, <2>3
        <3> QED BY <1>2, <2>1, <2>2, <3>1 DEF Stage
    <2>4. CASE U \in Launched
        <3>1. coord'[U] = "begin" /\ outcome'[U] = "none" BY <1>4, <1>5, <2>4
        <3>2. life[U] = "queued" /\ why[U] = "none" BY <1>10, <2>1, <2>4 DEF Stage
        <3> QED BY <1>2, <2>1, <2>2, <3>1, <3>2 DEF Stage, Working
    <2> QED BY <2>3, <2>4
<1>12. Flights'
    <2> SUFFICES ASSUME NEW U \in Units PROVE Aloft(U)' BY <1>1 DEF Flights
    <2>1. CASE U \in Launched
        <3>1. coord'[U] = "begin" BY <1>4, <2>1
        <3> QED BY <1>1, <1>3, <2>1, <3>1 DEF Aloft
    <2>2. CASE U \notin Launched
        <3>1. coord'[U] = coord[U] /\ outcome'[U] = outcome[U] /\ (U \in flight' <=> U \in flight)
            BY <1>3, <1>4, <1>5, <2>2
        <3> QED BY <1>1, <3>1, EndedUnits DEF Aloft
    <2> QED BY <2>1, <2>2
<1>13. ScanExact' /\ ReturnsComplete'
    BY <1>1, <1>2 DEF IndInv, ScanExact, Undisturbed, ReturnsComplete
<1>14. \A U \in Units : coord'[U] = coord[U] \/ (coord[U] \in Still /\ coord'[U] \in Still)
    BY <1>4, <1>10 DEF Still
<1> QED BY <1>2, <1>7, <1>9, <1>11, <1>12, <1>13, <1>14, DagMovesKeep

-----------------------------------------------------------------------------
(***************************************************************************)
(* The theorems.                                                           *)
(***************************************************************************)
LEMMA InitIndInv == Init => IndInv
<1> SUFFICES ASSUME Init PROVE IndInv OBVIOUS
<1>1. IsFiniteSet(Preclaiming) /\ Cardinality(Preclaiming) \in Nat /\ PumpCap \in Nat /\ MaxPauses \in Nat
      /\ Cardinality(Units) \in Nat
    BY ApiFinite, UnitsFinite, GraphAssumption
<1>2. TypeOK
    <2>1. [queued |-> {}, running |-> {}, failed |-> {}] \in Snapshots BY DEF Snapshots
    <2>2. seen \in [Units -> Snapshots] BY <2>1 DEF Init
    <2>3. 0 \in 0 .. PumpCap /\ 0 \in 0 .. MaxPauses /\ 0 \in 0 .. Cardinality(Units) BY <1>1
    <2>4. share \in [Preclaiming -> 0 .. PumpCap] BY <2>3 DEF Init
    <2>5. row \in [Jobs -> {"absent", "queued", "running", "done", "failed"}] BY DEF Init
    <2> QED BY <2>2, <2>3, <2>4, <2>5 DEF Init, TypeOK
<1>3. Stages /\ Flights /\ PumpsStill
    <2>1. \A U \in Units : Stage(U) BY DEF Init, Stage, Working
    <2>2. \A U \in Units : Aloft(U) BY DEF Init, Aloft
    <2> QED BY <2>1, <2>2 DEF Init, Stages, Flights, PumpsStill
<1>4. JobsCarried
    <2> SUFFICES ASSUME NEW j \in Jobs PROVE Carried(j) BY DEF JobsCarried
    <2>1. Home[j] \in Nodes BY JobHome
    <2>2. place[j] = "none" /\ pump[Home[j]] = "none" /\ row[j] # "running" BY <2>1 DEF Init
    <2> QED BY <2>2 DEF Carried
<1>5. QuietHolds /\ DeadHolds /\ DoneHolds
    <2>1. \A U \in Units : ~ConcludesQuiet(U) /\ ~ConcludesDead(U) BY DEF Init, ConcludesQuiet, ConcludesDead
    <2> QED BY <2>1 DEF Init, QuietHolds, DeadHolds, DoneHolds
<1>6. SharesHeld /\ ScanExact /\ ReturnsComplete
    BY DEF Init, SharesHeld, ScanExact, Undisturbed, ReturnsComplete
<1>7. PumpBudgetKept
    <2>1. \A n \in Preclaiming : share[n] = 0 BY DEF Init
    <2>2. SumOver(Preclaiming, share) = 0 * Cardinality(Preclaiming) BY <1>1, <2>1, SumConst
    <2>3. Held = 0 BY <1>1, <2>2 DEF Held
    <2> QED BY <1>1, <2>3, GraphAssumption DEF Init, PumpBudgetKept, Larger
<1> QED BY <1>2, <1>3, <1>4, <1>5, <1>6, <1>7 DEF IndInv

LEMMA StutterKeeps == ASSUME IndInv, UNCHANGED vars PROVE IndInv'
<1>1. UNCHANGED <<row, place, passed, pump, life, coord, seen, stop, why, outcome, dag, scan, ready, flight,
                  stopped, share, request, paused, pauses>>
    BY DEF vars, jobVars, unitVars, dagVars, pauseVars
<1>2. TypeOK' /\ Stages' /\ Flights' BY <1>1 DEF IndInv, TypeOK, Stages, Stage, ComponentReady, Flights, Aloft
<1>3. SharesHeld' /\ ReturnsComplete' BY <1>1 DEF IndInv, SharesHeld, ReturnsComplete, AllComplete
<1>4. ScanExact' BY <1>1 DEF IndInv, ScanExact, Undisturbed, Looked, UnitReady, ComponentReady
<1>5. Held' <= Larger(Budget, Cardinality(Preclaiming)) BY <1>1 DEF IndInv, PumpBudgetKept, Held
<1> QED BY <1>1, <1>2, <1>3, <1>4, <1>5, DagMovesKeep DEF jobVars

LEMMA NextIndInv == IndInv /\ [Next]_vars => IndInv'
<1> SUFFICES ASSUME IndInv, [Next]_vars PROVE IndInv' OBVIOUS
<1>1. CASE \E j \in Jobs : JobStep(j) \/ Mishap(j)
    BY <1>1, PullKeeps, PutBackKeeps, StartKeeps, EndsKeep, PublishKeeps, JobRaisesKeeps DEF JobStep, Mishap
<1>2. CASE \E n \in Nodes : PumpStep(n) \/ OpenFails(n) BY <1>2, PumpStepKeeps
<1>3. CASE \E U \in Units : UnitStep(U) \/ PauseUnit(U) \/ ReleaseUnit(U) BY <1>3, UnitStepKeeps, PauseKeeps
<1>4. CASE DagStep
    BY <1>4, ReadBoundaryKeeps, ScanUnitKeeps, ScannedKeeps, LaunchKeeps, LaunchNothingKeeps, CollectKeeps,
       CollectErrorKeeps, RaiseKeeps DEF DagStep
<1>5. CASE UNCHANGED vars BY <1>5, StutterKeeps
<1> QED BY <1>1, <1>2, <1>3, <1>4, <1>5 DEF Next

(* The inductive invariant holds of every behaviour of the schedulers.     *)
THEOREM SchedulersInvariant == Spec => []IndInv
BY InitIndInv, NextIndInv, PTL DEF Spec

(* Quiescence is final: when a coordinator has left its loop because one   *)
(* snapshot showed nothing queued and nothing running, no job of its       *)
(* component is queued or running then or later, whatever the other units, *)
(* their jobs and the interrupts do (component_scheduler.py:368).          *)
THEOREM QuiescenceIsFinal == Spec => []NoFalseQuiescence
<1>1. IndInv => NoFalseQuiescence
    BY DEF IndInv, QuietHolds, ConcludesQuiet, Idle, NoFalseQuiescence
<1> QED BY <1>1, SchedulersInvariant, PTL

(* A component that its coordinator gives up as deadlocked is deadlocked,  *)
(* then and later: nothing of it runs or is about to run, and every queued *)
(* job waits for a peer with unfinished work (component_scheduler.py:400). *)
THEOREM DeadlockIsReal == Spec => []NoFalseDeadlock
<1>1. IndInv => NoFalseDeadlock
    BY DEF IndInv, DeadHolds, ConcludesDead, Dead, Stuck, Waits, NoFalseDeadlock
<1> QED BY <1>1, SchedulersInvariant, PTL

(* The DAG loop accounts for its units: an ended unit has no pump, no job  *)
(* with a thread and no running row, the loop ends with no unit running,   *)
(* the waves together keep the pump budget, and a loop that returns        *)
(* without a refusal or an interrupt has completed every unit and every    *)
(* job (dag_scheduler.py, _run_concurrently).                              *)
THEOREM UnitsAreAccounted == Spec => []UnitsAccounted
<1>1. ASSUME IndInv PROVE NothingRunsOn
    <2>1. ASSUME NEW U \in Units, coord[U] = "ended"
          PROVE  /\ \A n \in U : pump[n] = "none"
                 /\ \A j \in JobsOf(U) : place[j] = "none" /\ row[j] # "running"
        <3>1. UnitSound(U) BY <1>1, <2>1, SoundUnit
        <3>2. \A n \in U : pump[n] = "none" BY <2>1, <3>1 DEF UnitSound, Still
        <3>3. ASSUME NEW j \in JobsOf(U) PROVE place[j] = "none" /\ row[j] # "running"
            <4>1. Carried(j) /\ Home[j] \in U BY <3>1 DEF UnitSound, JobsOf
            <4>2. pump[Home[j]] = "none" BY <3>2, <4>1
            <4> QED BY <4>1, <4>2 DEF Carried
        <3> QED BY <3>2, <3>3
    <2>2. ASSUME dag \in {"returned", "raised"}, NEW U \in Units PROVE coord[U] \in {"idle", "ended"}
        BY <1>1, <2>2 DEF IndInv, Flights, Aloft
    <2> QED BY <2>1, <2>2 DEF NothingRunsOn
<1>2. IndInv => UnitsAccounted BY <1>1 DEF IndInv, UnitsAccounted
<1> QED BY <1>2, SchedulersInvariant, PTL
=============================================================================
