-------------------------- MODULE JobCreationProofs --------------------------
(***************************************************************************)
(* Proofs for JobCreation: one idempotency key stands for one job, and     *)
(* directories and rows agree, for any creators, keys, batches and faults. *)
(***************************************************************************)
EXTENDS JobCreation, TLAPS, FiniteSetTheorems, NaturalsInduction, WellFoundedInduction

(***************************************************************************)
(* The inductive invariant.                                                *)
(***************************************************************************)
Places == {"start", "lock", "recheck", "list", "publish", "joined", "inserting", "reserve", "preparing",
           "commit", "discard", "unlock", "done"}
AllKeys == Keys \cup {NoKey}
Typed ==
    /\ ask \in Scenarios /\ pc \in [Creators -> Places]
    /\ todo \in [Creators -> Seq(AllKeys)] /\ ids \in [Creators -> Seq(Ids)]
    /\ made \in [Creators -> SUBSET Ids]
    /\ by \in [Ids -> Creators \cup {Nobody}] /\ dirs \in [Ids -> Creators \cup {Nobody}]
    /\ keyed \in [Ids -> AllKeys] /\ seq \in Nat
    /\ left \in BOOLEAN /\ overtaken \in BOOLEAN

(* No key twice among the jobs that one creator has still to make.         *)
Distinct(ks) == \A m, n \in DOMAIN ks : ks[m] = ks[n] => m = n \/ ks[m] = NoKey
OneEach(q) == \A m, n \in DOMAIN q : q[m] = q[n] => m = n
FirstOf(q, k) == {q[n] : n \in 1..k}

(* What a creator knows at each place.                                     *)
Early == {"start", "lock", "recheck", "list", "publish", "reserve"}
Placed(c) ==
    /\ pc[c] \in Early => made[c] = {}
    /\ pc[c] = "lock" => ask[c].kind \in {"explicit", "default"}
    /\ pc[c] = "recheck" => ask[c].kind = "explicit"
    /\ pc[c] = "list" => ask[c].kind = "default"
    /\ pc[c] \in {"lock", "recheck", "publish"} /\ ask[c].kind # "default" => Len(todo[c]) = 1
    /\ pc[c] = "joined" => ask[c].kind = "auto" /\ Len(todo[c]) = 1
    /\ pc[c] = "reserve" => ask[c].kind = "batch" /\ todo[c] # <<>> /\ Distinct(todo[c])
    /\ pc[c] \in {"preparing", "commit"} =>
          /\ Len(ids[c]) = Len(todo[c]) /\ OneEach(ids[c]) /\ Distinct(todo[c])
          /\ ask[c].kind \in {"batch", "default"}
          /\ ask[c].kind = "default" => \A n \in DOMAIN todo[c] : todo[c][n] = NoKey
          /\ made[c] = FirstOf(ids[c], Cardinality(made[c]))
    /\ pc[c] = "preparing" => Cardinality(made[c]) < Len(ids[c])
    /\ pc[c] = "commit" => Cardinality(made[c]) = Len(ids[c]) /\ ids[c] # <<>>
AllPlaced == \A c \in Creators : Placed(c)

(* A job that is about to be registered inside a transaction.              *)
Fresh(c) ==
    /\ made[c] = {ids[c][1]} /\ Len(ids[c]) = 1 /\ Len(todo[c]) = 1
    /\ dirs[ids[c][1]] = c /\ Resolves(todo[c][1]) = {}
Writes ==
    /\ Joined # {} => writer = Group
    /\ \A c \in Joined : made[c] = {} \/ Fresh(c)
    /\ \A c, d \in Joined : made[c] # {} /\ made[d] # {} /\ todo[c] = todo[d] => c = d \/ todo[c] = <<NoKey>>
    /\ Joined # {} => Pending = NextId .. GroupNext - 1
    /\ \A c \in Creators : pc[c] = "inserting" =>
          /\ writer = c /\ Fresh(c) /\ ids[c] = <<ask[c].address>> /\ ask[c].address \notin Live

(* The sequence is ahead of the rows and of what was reserved.             *)
Below(c) ==
    pc[c] \in {"preparing", "commit"} /\ ask[c].kind = "batch" => \A n \in DOMAIN ids[c] : ids[c][n] < seq
SequenceAhead == ~overtaken => (\A i \in Live : i < seq) /\ \A c \in Creators : Below(c)

(* The directories a creator has made are its own until it has ended, and  *)
(* every other directory has a row.                                        *)
Busy(c) == pc[c] \in {"joined", "inserting", "preparing", "commit", "discard"}
OwnDirectories == ~overtaken => \A c \in Creators : Busy(c) => \A i \in made[c] : dirs[i] = c
NoneLeft == ~left => \A i \in Ids : dirs[i] # Nobody => i \in Live \/ (Busy(dirs[i]) /\ i \in made[dirs[i]])

CInv ==
    /\ Typed /\ AllPlaced /\ Writes /\ SequenceAhead /\ OwnDirectories /\ NoneLeft
    /\ RowsHaveInputs /\ OneJobPerKey

-----------------------------------------------------------------------------
(***************************************************************************)
(* Numbers in order.                                                       *)
(***************************************************************************)
LEMMA LeastNatural ==
    ASSUME NEW S \in SUBSET Nat, S # {}
    PROVE  \E n \in S : \A m \in S : n <= m
<1>1. PICK n \in S : \A m \in S : ~(<<m, n>> \in OpToRel(<, Nat))
    BY NatLessThanWellFounded, WFMin
<1>2. \A m \in S : ~(m < n) BY <1>1 DEF OpToRel
<1> QED BY <1>2

LEMMA Greatest ==
    ASSUME NEW b \in Nat, NEW S \in SUBSET (0 .. b), S # {}
    PROVE  /\ \E x \in S : \A y \in S : x >= y
           /\ Max(S) \in S /\ \A y \in S : Max(S) >= y
<1> DEFINE D == {b - x : x \in S}
<1>1. D \in SUBSET Nat /\ D # {} OBVIOUS
<1>2. PICK d \in D : \A e \in D : d <= e BY <1>1, LeastNatural
<1>3. PICK x \in S : d = b - x BY <1>2
<1>4. \A y \in S : x >= y
    <2> SUFFICES ASSUME NEW y \in S PROVE x >= y OBVIOUS
    <2>1. b - x <= b - y BY <1>2, <1>3
    <2>2. x \in 0 .. b /\ y \in 0 .. b OBVIOUS
    <2> QED BY <2>1, <2>2
<1>5. \E z \in S : \A y \in S : z >= y BY <1>4
<1>6. Max(S) \in S /\ \A y \in S : Max(S) >= y BY <1>5, Zenon DEF Max
<1> QED BY <1>5, <1>6

Sorted(q, S) ==
    /\ q \in [1 .. Cardinality(S) -> S]
    /\ \A m, n \in 1 .. Cardinality(S) : m < n => q[m] < q[n]

LEMMA BoundedFinite ==
    ASSUME NEW b \in Nat, NEW S \in SUBSET (0 .. b)
    PROVE  IsFiniteSet(S) /\ Cardinality(S) \in Nat
<1>1. IsFiniteSet(0 .. b) BY FS_Interval
<1> QED BY <1>1, FS_Subset, FS_CardinalityType

LEMMA SortedExists ==
    ASSUME NEW b \in Nat
    PROVE  \A S \in SUBSET (0 .. b) : \E q : Sorted(q, S)
<1> DEFINE Good(S) == \E q : Sorted(q, S)
           Bad == {k \in Nat : \E S \in SUBSET (0 .. b) : Cardinality(S) = k /\ ~Good(S)}
<1>1. SUFFICES ASSUME Bad # {} PROVE FALSE BY BoundedFinite
<1> HIDE DEF Good
<1>2. PICK k \in Bad : \A m \in Bad : k <= m BY <1>1, LeastNatural
<1>3. PICK S \in SUBSET (0 .. b) : Cardinality(S) = k /\ ~Good(S) BY <1>2
<1>4. IsFiniteSet(S) /\ k \in Nat BY <1>3, BoundedFinite
<1>5. CASE S = {}
    <2>1. k = 0 BY <1>3, <1>5, FS_EmptySet
    <2>2. PICK q : q = [n \in 1 .. 0 |-> 0] OBVIOUS
    <2>3. 1 .. 0 = {} OBVIOUS
    <2>4. Sorted(q, S) BY <1>3, <2>1, <2>2, <2>3 DEF Sorted
    <2> QED BY <1>3, <2>4 DEF Good
<1>6. CASE S # {}
    <2>1. PICK x \in S : \A y \in S : x >= y BY <1>6, Greatest
    <2>2. PICK T : T = S \ {x} OBVIOUS
    <2>3. T \in SUBSET (0 .. b) BY <2>2
    <2>4. Cardinality(T) = k - 1 BY <1>3, <1>4, <2>1, <2>2, FS_RemoveElement
    <2>5. Cardinality(T) \in Nat BY <2>3, BoundedFinite
    <2>6. k - 1 \in Nat /\ ~(k <= k - 1) BY <1>4, <2>4, <2>5
    <2>7. k - 1 \notin Bad
        <3> HIDE DEF Bad
        <3> QED BY <1>2, <2>6
    <2>8. Good(T) BY <2>3, <2>4, <2>6, <2>7
    <2>9. PICK q : Sorted(q, T) BY <2>8 DEF Good
    <2>10. q \in [1 .. k - 1 -> T] /\ \A m, n \in 1 .. k - 1 : m < n => q[m] < q[n]
        BY <2>4, <2>9 DEF Sorted
    <2>11. PICK p : p = [n \in 1 .. k |-> IF n = k THEN x ELSE q[n]] OBVIOUS
    <2>12. \A n \in 1 .. k : p[n] = IF n = k THEN x ELSE q[n] BY <2>11
    <2>13. \A n \in 1 .. k : n # k => n \in 1 .. k - 1 BY <2>6
    <2>14. p \in [1 .. k -> S] BY <2>2, <2>10, <2>11, <2>13
    <2>15. ASSUME NEW m \in 1 .. k, NEW n \in 1 .. k, m < n PROVE p[m] < p[n]
        <3>1. m # k /\ m \in 1 .. k - 1 BY <2>6, <2>15
        <3>2. p[m] = q[m] /\ q[m] \in T BY <2>10, <2>12, <3>1
        <3>3. CASE n = k
            <4>1. p[n] = x /\ q[m] \in S /\ q[m] # x BY <2>2, <2>12, <3>2, <3>3
            <4>2. q[m] \in 0 .. b /\ x \in 0 .. b BY <4>1
            <4> QED BY <2>1, <3>2, <4>1, <4>2
        <3>4. CASE n # k
            <4>1. p[n] = q[n] /\ n \in 1 .. k - 1 BY <2>12, <2>13, <3>4
            <4> QED BY <2>10, <2>15, <3>1, <3>2, <4>1
        <3> QED BY <3>3, <3>4
    <2>16. Sorted(p, S) BY <1>3, <2>14, <2>15 DEF Sorted
    <2> QED BY <1>3, <2>16 DEF Good
<1> QED BY <1>5, <1>6

LEMMA InOrderSorted ==
    ASSUME NEW b \in Nat, NEW S \in SUBSET (0 .. b)
    PROVE  /\ Cardinality(S) \in Nat /\ Sorted(InOrder(S), S) /\ InOrder(S) \in Seq(S) /\ OneEach(InOrder(S))
           /\ Len(InOrder(S)) = Cardinality(S)
<1>1. IsFiniteSet(S) /\ Cardinality(S) \in Nat BY BoundedFinite
<1>2. PICK q : q = InOrder(S) OBVIOUS
<1>3. Sorted(q, S)
    <2> DEFINE Up(p) == \A m, n \in 1 .. Cardinality(S) : m < n => p[m] < p[n]
    <2>1. q = CHOOSE p \in [1 .. Cardinality(S) -> S] : Up(p) BY <1>2 DEF InOrder
    <2>2. \E p \in [1 .. Cardinality(S) -> S] : Up(p) BY SortedExists DEF Sorted
    <2> HIDE DEF Up
    <2>3. q \in [1 .. Cardinality(S) -> S] /\ Up(q) BY <2>1, <2>2
    <2> QED BY <2>3 DEF Sorted, Up
<1>4. q \in Seq(S) /\ Len(q) = Cardinality(S) /\ DOMAIN q = 1 .. Cardinality(S) BY <1>1, <1>3 DEF Sorted
<1>5. ASSUME NEW m \in 1 .. Cardinality(S), NEW n \in 1 .. Cardinality(S), q[m] = q[n] PROVE m = n
    <2>1. q[m] \in S /\ q[n] \in S BY <1>3 DEF Sorted
    <2>2. q[m] \in 0 .. b /\ q[n] \in 0 .. b BY <2>1
    <2>3. ~(m < n) /\ ~(n < m) BY <1>3, <1>5, <2>2 DEF Sorted
    <2> QED BY <1>1, <2>3
<1>6. OneEach(q) BY <1>4, <1>5 DEF OneEach
<1> QED BY <1>1, <1>2, <1>3, <1>4, <1>6

(* What is missing of a list of keys.                                      *)
LEMMA MissingKeys ==
    ASSUME NEW ks \in Seq(AllKeys), Distinct(ks)
    PROVE  /\ Missing(ks) \in Seq(AllKeys) /\ Distinct(Missing(ks))
           /\ Len(ks) = 1 => Missing(ks) = <<>> \/ Len(Missing(ks)) = 1
<1>1. PICK S : S = {n \in DOMAIN ks : Resolves(ks[n]) = {}} OBVIOUS
<1>2. Len(ks) \in Nat /\ DOMAIN ks = 1 .. Len(ks) OBVIOUS
<1>3. S \in SUBSET (0 .. Len(ks)) /\ S \subseteq DOMAIN ks BY <1>1, <1>2
<1>4. PICK at : at = InOrder(S) OBVIOUS
<1>5. /\ Cardinality(S) \in Nat /\ at \in Seq(S) /\ OneEach(at) /\ Len(at) = Cardinality(S)
    BY <1>2, <1>3, <1>4, InOrderSorted
<1>6. DOMAIN at = 1 .. Len(at) /\ Len(at) \in Nat /\ \A m \in DOMAIN at : at[m] \in S BY <1>5
<1>7. PICK ms : ms = Missing(ks) OBVIOUS
<1>8. ms = [m \in DOMAIN at |-> ks[at[m]]] BY <1>1, <1>4, <1>7 DEF Missing
<1>9. \A m \in DOMAIN at : ms[m] = ks[at[m]] /\ at[m] \in DOMAIN ks /\ ks[at[m]] \in AllKeys BY <1>3, <1>6, <1>8
<1>10. ms \in [1 .. Len(at) -> AllKeys] BY <1>6, <1>8, <1>9
<1>11. ms \in Seq(AllKeys) /\ Len(ms) = Len(at) /\ DOMAIN ms = DOMAIN at BY <1>6, <1>10
<1>12. ASSUME NEW m \in DOMAIN ms, NEW n \in DOMAIN ms, ms[m] = ms[n] PROVE m = n \/ ms[m] = NoKey
    <2>1. at[m] = at[n] \/ ks[at[m]] = NoKey BY <1>9, <1>11, <1>12 DEF Distinct
    <2> QED BY <1>5, <1>9, <1>11, <2>1 DEF OneEach
<1>13. ASSUME Len(ks) = 1 PROVE ms = <<>> \/ Len(ms) = 1
    <2>1. S \subseteq {1} BY <1>2, <1>3, <1>13
    <2>2. Cardinality(S) = 0 \/ Cardinality(S) = 1
        <3>1. S = {} \/ S = {1} BY <2>1
        <3> QED BY <3>1, FS_EmptySet, FS_Singleton
    <2> QED BY <1>5, <1>11, <2>2
<1> QED BY <1>7, <1>11, <1>12, <1>13 DEF Distinct

-----------------------------------------------------------------------------
(***************************************************************************)
(* Facts about one state.                                                  *)
(***************************************************************************)
LEMMA Asks ==
    ASSUME CInv, NEW c \in Creators
    PROVE  /\ ask[c].kind \in {"auto", "explicit", "batch", "default", "idle"}
           /\ ask[c].keys \in Seq(AllKeys) /\ ask[c].address \in 0 .. MaxId /\ Distinct(ask[c].keys)
           /\ ask[c].kind \in {"auto", "explicit"} => Len(ask[c].keys) = 1
           /\ ask[c].kind = "explicit" => ask[c].address \in Ids
<1>1. ask \in Scenarios BY DEF CInv, Typed
<1>2. ask \in [Creators -> [kind : {"auto", "explicit", "batch", "default", "idle"},
                           keys : Seq(Keys \cup {NoKey}), address : 0 .. MaxId]]
    BY <1>1, AsksAreValid
<1>3. ask[c] \in [kind : {"auto", "explicit", "batch", "default", "idle"},
                  keys : Seq(Keys \cup {NoKey}), address : 0 .. MaxId]
    BY <1>2
<1>4. /\ ask[c].kind \in {"auto", "explicit"} => Len(ask[c].keys) = 1
      /\ ask[c].kind = "explicit" => ask[c].address \in Ids
      /\ Distinct(ask[c].keys)
    BY <1>1, AsksAreValid, Zenon DEF Distinct
<1> QED BY <1>3, <1>4 DEF AllKeys

LEMMA IdsAreNat == Ids \subseteq Nat \ {0} /\ Ids \subseteq 0 .. MaxId /\ IsFiniteSet(Ids)
<1>1. MaxId \in Nat BY BoundsAreNat
<1> QED BY <1>1, FS_Interval DEF Ids

LEMMA NextIds ==
    ASSUME Typed
    PROVE  /\ NextId \in Nat \ {0}
           /\ SequenceAhead /\ ~overtaken => seq <= NextId /\ \A i \in Live : i < NextId
<1>1. seq \in Nat BY DEF Typed
<1>2. Live \cup {0} \in SUBSET (0 .. MaxId) /\ MaxId \in Nat
    <2>1. MaxId \in Nat /\ 0 \in 0 .. MaxId BY BoundsAreNat
    <2>2. Live \subseteq 0 .. MaxId BY IdsAreNat DEF Live
    <2> QED BY <2>1, <2>2
<1>3. /\ Max(Live \cup {0}) \in Live \cup {0}
      /\ \A y \in Live \cup {0} : Max(Live \cup {0}) >= y
    BY <1>2, Greatest
<1>4. PICK m : m = Max(Live \cup {0}) OBVIOUS
<1>5. m \in 0 .. MaxId /\ \A y \in Live : m >= y BY <1>2, <1>3, <1>4
<1>6. Tail1 = 1 + m BY <1>4 DEF Tail1
<1>7. NextId \in Nat \ {0} BY <1>1, <1>2, <1>5, <1>6 DEF NextId
<1>8. Live \subseteq 0 .. MaxId BY <1>2
<1>9. ASSUME SequenceAhead, ~overtaken PROVE seq <= NextId /\ \A i \in Live : i < NextId
    <2>1. CASE seq # 0
        BY <1>1, <1>9, <2>1 DEF SequenceAhead, NextId
    <2>2. CASE seq = 0
        BY <1>1, <1>2, <1>5, <1>6, <1>8, <2>2 DEF NextId
    <2> QED BY <2>1, <2>2
<1> QED BY <1>7, <1>9

(* The database writer belongs to nobody, to a group or to one creator.    *)
LEMMA NoWriter ==
    ASSUME CInv, writer = Nobody
    PROVE  \A c \in Creators : pc[c] \notin {"joined", "inserting"}
BY AsksAreValid DEF CInv, Writes, Joined

LEMMA GroupWriter ==
    ASSUME CInv, writer = Group
    PROVE  \A c \in Creators : pc[c] # "inserting"
BY AsksAreValid DEF CInv, Writes

LEMMA SoleWriter ==
    ASSUME CInv, NEW c \in Creators, pc[c] = "inserting"
    PROVE  Joined = {} /\ \A d \in Creators : pc[d] = "inserting" => d = c
BY AsksAreValid DEF CInv, Writes, Joined

-----------------------------------------------------------------------------
(***************************************************************************)
(* What stays the same.                                                    *)
(***************************************************************************)
LEMMA SameRows ==
    ASSUME by' = by, keyed' = keyed
    PROVE  Live' = Live /\ \A k : Resolves(k)' = Resolves(k)
<1>1. Live' = Live BY DEF Live
<1> QED BY <1>1 DEF Resolves

LEMMA SameNext ==
    ASSUME by' = by, seq' = seq
    PROVE  NextId' = NextId
BY DEF NextId, Tail1, Live

LEMMA Unwritten ==
    ASSUME \A c \in Creators : pc'[c] \notin {"joined", "inserting"}
    PROVE  Writes'
<1>1. Joined' = {} BY DEF Joined
<1> QED BY <1>1 DEF Writes

LEMMA PlacedSame ==
    ASSUME NEW c \in Creators, Placed(c), ask' = ask, pc'[c] = pc[c],
           todo'[c] = todo[c], ids'[c] = ids[c], made'[c] = made[c]
    PROVE  Placed(c)'
BY DEF Placed, FirstOf

LEMMA PlacedLate ==
    ASSUME NEW c \in Creators, pc'[c] \in {"done", "unlock", "discard", "inserting"}
    PROVE  Placed(c)'
BY DEF Placed, Early

LEMMA LastSteps ==
    ASSUME NEW c \in Creators
    PROVE  LastStep(c) \in {"unlock", "done"}
BY DEF LastStep

(* The directories stay, and so does who is busy with them.                *)
LEMMA DirectoriesKept ==
    ASSUME CInv, UNCHANGED <<made, dirs, by, keyed, left, overtaken>>,
           \A d \in Creators : (Busy(d) => Busy(d)') /\ (Busy(d)' => Busy(d) \/ made[d] = {})
    PROVE  OwnDirectories' /\ NoneLeft' /\ RowsHaveInputs' /\ OneJobPerKey'
<1>1. Live' = Live BY SameRows
<1>2. OwnDirectories' BY DEF CInv, OwnDirectories
<1>3. NoneLeft'
    <2> SUFFICES ASSUME ~left, NEW i \in Ids, dirs[i] # Nobody
                 PROVE  i \in Live \/ (Busy(dirs[i])' /\ i \in made[dirs[i]])
        BY <1>1 DEF NoneLeft
    <2>1. i \in Live \/ (Busy(dirs[i]) /\ i \in made[dirs[i]]) BY DEF CInv, NoneLeft
    <2>2. dirs[i] \in Creators BY DEF CInv, Typed
    <2> QED BY <2>1, <2>2
<1>4. RowsHaveInputs' BY <1>1 DEF CInv, RowsHaveInputs
<1>5. OneJobPerKey' BY <1>1 DEF CInv, OneJobPerKey
<1> QED BY <1>2, <1>3, <1>4, <1>5

(* A creator makes one more directory of its own.                          *)
LEMMA DirectoryMade ==
    ASSUME CInv, NEW c \in Creators, NEW i \in Ids, dirs[i] = Nobody, dirs' = [dirs EXCEPT ![i] = c],
           made' = [made EXCEPT ![c] = made[c] \cup {i}], Busy(c)', Busy(c) \/ made[c] = {},
           \A d \in Creators \ {c} : pc'[d] = pc[d], UNCHANGED <<by, keyed, left, overtaken>>
    PROVE  OwnDirectories' /\ NoneLeft' /\ RowsHaveInputs' /\ OneJobPerKey'
<1>1. Live' = Live BY SameRows
<1>2. /\ dirs'[i] = c /\ \A j \in Ids \ {i} : dirs'[j] = dirs[j]
      /\ made'[c] = made[c] \cup {i} /\ \A d \in Creators \ {c} : made'[d] = made[d]
      /\ \A d \in Creators : made[d] \subseteq Ids
    BY DEF CInv, Typed
<1>3. c # Nobody BY AsksAreValid
<1>4. \A d \in Creators \ {c} : Busy(d)' = Busy(d) BY DEF Busy
<1>5. OwnDirectories'
    <2> SUFFICES ASSUME ~overtaken, NEW d \in Creators, Busy(d)', NEW j \in made'[d]
                 PROVE  dirs'[j] = d
        BY DEF OwnDirectories
    <2>1. CASE j = i /\ d = c BY <1>2, <2>1
    <2>2. CASE ~(j = i /\ d = c)
        <3>1. j \in made[d] /\ Busy(d) BY <1>2, <1>4, <2>2
        <3>2. dirs[j] = d BY <3>1 DEF CInv, OwnDirectories
        <3>3. d # Nobody BY AsksAreValid
        <3>4. j # i /\ j \in Ids BY <1>2, <3>1, <3>2, <3>3
        <3> QED BY <1>2, <3>2, <3>4
    <2> QED BY <2>1, <2>2
<1>6. NoneLeft'
    <2> SUFFICES ASSUME ~left, NEW j \in Ids, NEW d, d = dirs'[j], d # Nobody
                 PROVE  j \in Live \/ (Busy(d)' /\ j \in made'[d])
        BY <1>1 DEF NoneLeft, Busy
    <2>1. CASE j = i BY <1>2, <2>1
    <2>2. CASE j # i
        <3>1. d = dirs[j] /\ d \in Creators BY <1>2, <2>2 DEF CInv, Typed
        <3>2. j \in Live \/ (Busy(d) /\ j \in made[d]) BY <3>1 DEF CInv, NoneLeft
        <3>3. CASE d = c BY <1>2, <3>1, <3>2, <3>3
        <3>4. CASE d # c BY <1>2, <1>4, <3>1, <3>2, <3>4
        <3> QED BY <3>3, <3>4
    <2> QED BY <2>1, <2>2
<1>7. RowsHaveInputs'
    <2> SUFFICES ASSUME ~overtaken, NEW j \in Live PROVE dirs'[j] = by[j]
        BY <1>1 DEF RowsHaveInputs
    <2>1. dirs[j] = by[j] /\ j \in Ids /\ by[j] # Nobody BY DEF CInv, RowsHaveInputs, Live
    <2> QED BY <1>2, <2>1
<1>8. OneJobPerKey' BY <1>1 DEF CInv, OneJobPerKey
<1> QED BY <1>5, <1>6, <1>7, <1>8

(* A transaction does not notice the creators outside of it.               *)
LEMMA WritesBeside ==
    ASSUME CInv, NEW c \in Creators, pc[c] \notin {"joined", "inserting"}, pc'[c] \notin {"joined", "inserting"},
           \A d \in Creators \ {c} : pc'[d] = pc[d] /\ todo'[d] = todo[d] /\ ids'[d] = ids[d] /\ made'[d] = made[d],
           \A i \in Ids : dirs[i] # Nobody => dirs'[i] = dirs[i],
           UNCHANGED <<ask, by, keyed, seq, writer>>
    PROVE  Writes'
<1>1. Live' = Live /\ \A k : Resolves(k)' = Resolves(k) BY SameRows
<1>2. NextId' = NextId BY SameNext
<1>6. Joined' = Joined /\ c \notin Joined BY DEF Joined
<1>7. Pending' = Pending BY <1>6 DEF Pending, Joined
<1>8. GroupNext' = GroupNext BY <1>2, <1>7 DEF GroupNext
<1>9. ASSUME NEW d \in Creators, d # c, Fresh(d) PROVE Fresh(d)'
    <2>1. ids[d] \in Seq(Ids) /\ Len(ids[d]) = 1 BY <1>9 DEF CInv, Typed, Fresh
    <2>2. ids[d][1] \in Ids BY <2>1
    <2>3. d # Nobody BY AsksAreValid
    <2> QED BY <1>1, <1>9, <2>2, <2>3 DEF Fresh
<1>10. Writes'
    <2>1. Writes BY DEF CInv
    <2>2. Joined' # {} => writer' = Group BY <1>6, <2>1 DEF Writes
    <2>3. \A d \in Joined' : made'[d] = {} \/ Fresh(d)' BY <1>6, <1>9, <2>1 DEF Writes, Joined
    <2>4. \A d, e \in Joined' : made'[d] # {} /\ made'[e] # {} /\ todo'[d] = todo'[e]
                                => d = e \/ todo'[d] = <<NoKey>>
        BY <1>6, <2>1 DEF Writes, Joined
    <2>5. Joined' # {} => Pending' = NextId' .. GroupNext' - 1 BY <1>2, <1>6, <1>7, <1>8, <2>1 DEF Writes
    <2>6. ASSUME NEW d \in Creators, pc'[d] = "inserting"
          PROVE  writer' = d /\ Fresh(d)' /\ ids'[d] = <<ask'[d].address>> /\ ask'[d].address \notin Live'
        <3>1. d # c /\ pc[d] = "inserting" BY <2>6
        <3>2. writer = d /\ Fresh(d) /\ ids[d] = <<ask[d].address>> /\ ask[d].address \notin Live
            BY <2>1, <3>1 DEF Writes
        <3> QED BY <1>1, <1>9, <3>1, <3>2
    <2> QED BY <2>2, <2>3, <2>4, <2>5, <2>6 DEF Writes
<1> QED BY <1>10

(* The other creators stay where they are.                                 *)
LEMMA OthersPlaced ==
    ASSUME CInv, NEW c \in Creators, Placed(c)', ask' = ask,
           \A d \in Creators \ {c} : pc'[d] = pc[d] /\ todo'[d] = todo[d] /\ ids'[d] = ids[d] /\ made'[d] = made[d]
    PROVE  AllPlaced'
<1>1. ASSUME NEW d \in Creators, d # c PROVE Placed(d)'
    <2>1. Placed(d) BY DEF CInv, AllPlaced
    <2> QED BY <1>1, <2>1, PlacedSame
<1> QED BY <1>1 DEF AllPlaced

(* The sequence moves only upwards, past every new row.                    *)
LEMMA AheadStays ==
    ASSUME CInv, overtaken' = overtaken, ask' = ask, seq \in Nat, seq' \in Nat, seq <= seq',
           ~overtaken => \A i \in Live' : i < seq',
           \A d \in Creators : (pc'[d] = pc[d] /\ ids'[d] = ids[d]) \/ (~overtaken => Below(d)')
    PROVE  SequenceAhead'
<1>1. SUFFICES ASSUME ~overtaken, NEW d \in Creators, pc'[d] = pc[d], ids'[d] = ids[d] PROVE Below(d)'
    BY DEF SequenceAhead
<1>2. Below(d) BY <1>1 DEF CInv, SequenceAhead
<1>3. ids[d] \in Seq(Ids) BY DEF CInv, Typed
<1>4. \A n \in DOMAIN ids[d] : ids[d][n] \in Nat
    <2>1. \A n \in DOMAIN ids[d] : ids[d][n] \in Ids BY <1>3
    <2> QED BY <2>1, IdsAreNat
<1> QED BY <1>1, <1>2, <1>4 DEF Below

(* A step of one creator outside every write transaction that makes and    *)
(* registers nothing.                                                      *)
Aside(c) ==
    /\ pc' \in [Creators -> Places] /\ todo' \in [Creators -> Seq(AllKeys)] /\ ids' \in [Creators -> Seq(Ids)]
    /\ \A d \in Creators \ {c} : pc'[d] = pc[d] /\ todo'[d] = todo[d] /\ ids'[d] = ids[d]
    /\ UNCHANGED <<ask, made, by, keyed, seq, dirs, writer, left, overtaken>>
    /\ pc[c] \notin {"joined", "inserting"} /\ pc'[c] \notin {"joined", "inserting"}
    /\ Busy(c) => Busy(c)'
    /\ Busy(c)' => Busy(c) \/ made[c] = {}
    /\ Placed(c)' /\ (~overtaken => Below(c)')

LEMMA AsideKeeps ==
    ASSUME CInv, NEW c \in Creators, Aside(c)
    PROVE  CInv'
<1> USE DEF Aside
<1>1. Typed' BY DEF CInv, Typed
<1>2. AllPlaced' BY OthersPlaced
<1>3. Writes' BY WritesBeside
<1>4. SequenceAhead'
    <2>1. seq \in Nat BY DEF CInv, Typed
    <2>2. seq' = seq /\ seq <= seq' BY <2>1
    <2>3. Live' = Live BY SameRows
    <2>4. ~overtaken => \A i \in Live' : i < seq' BY <2>2, <2>3 DEF CInv, SequenceAhead
    <2>5. \A d \in Creators : (pc'[d] = pc[d] /\ ids'[d] = ids[d]) \/ (~overtaken => Below(d)')
        BY DEF Below
    <2>6. overtaken' = overtaken /\ ask' = ask /\ seq' \in Nat BY <2>1, <2>2
    <2> QED BY <2>1, <2>2, <2>4, <2>5, <2>6, AheadStays
<1>5. \A d \in Creators \ {c} : Busy(d)' = Busy(d) BY DEF Busy
<1>6. OwnDirectories' /\ NoneLeft' /\ RowsHaveInputs' /\ OneJobPerKey' BY <1>5, DirectoriesKept
<1> QED BY <1>1, <1>2, <1>3, <1>4, <1>6 DEF CInv

-----------------------------------------------------------------------------
(***************************************************************************)
(* The steps of one creator that make and register nothing.                *)
(***************************************************************************)
LEMMA AsideMoves ==
    ASSUME CInv, NEW c \in Creators, NEW p \in Places, pc' = [pc EXCEPT ![c] = p],
           todo' = todo, ids' = ids, UNCHANGED <<ask, made, by, keyed, seq, dirs, writer, left, overtaken>>,
           pc[c] \notin {"joined", "inserting"}, p \notin {"joined", "inserting"},
           Placed(c)', Below(c)', Busy(c) => p \in {"preparing", "commit", "discard"},
           p \in {"preparing", "commit", "discard"} => Busy(c) \/ made[c] = {}
    PROVE  CInv'
<1>1. pc \in [Creators -> Places] /\ todo \in [Creators -> Seq(AllKeys)] /\ ids \in [Creators -> Seq(Ids)]
    BY DEF CInv, Typed
<1>2. pc' \in [Creators -> Places] /\ pc'[c] = p /\ \A d \in Creators \ {c} : pc'[d] = pc[d] BY <1>1
<1>3. Busy(c)' <=> p \in {"preparing", "commit", "discard"} BY <1>2 DEF Busy
<1>4. Aside(c) BY <1>1, <1>2, <1>3 DEF Aside
<1> QED BY <1>4, AsideKeeps

(* It goes on to its last step, or refuses and cleans up.                  *)
LEMMA AsideEnds ==
    ASSUME CInv, NEW c \in Creators, NEW p \in {"unlock", "done"}, pc' = [pc EXCEPT ![c] = p],
           todo' = todo, ids' = ids, UNCHANGED <<ask, made, by, keyed, seq, dirs, writer, left, overtaken>>,
           pc[c] \in Early \cup {"unlock", "done"}
    PROVE  CInv'
<1>1. pc'[c] = p BY DEF CInv, Typed
<1>2. Placed(c)' BY <1>1, PlacedLate
<1>3. Below(c)' BY <1>1 DEF Below
<1>4. p \in Places /\ p \notin {"joined", "inserting", "preparing", "commit", "discard"} BY DEF Places
<1>5. ~Busy(c) /\ pc[c] \notin {"joined", "inserting"} BY DEF Busy, Early
<1> QED BY <1>2, <1>3, <1>4, <1>5, AsideMoves

LEMMA AsideCleansUp ==
    ASSUME CInv, NEW c \in Creators, pc' = [pc EXCEPT ![c] = "discard"],
           todo' = todo, ids' = ids, UNCHANGED <<ask, made, by, keyed, seq, dirs, writer, left, overtaken>>,
           pc[c] \in {"preparing", "commit"}
    PROVE  CInv'
<1>1. pc'[c] = "discard" BY DEF CInv, Typed
<1>2. Placed(c)' BY <1>1, PlacedLate
<1>3. Below(c)' BY <1>1 DEF Below
<1>4. "discard" \in Places BY DEF Places
<1>5. Busy(c) /\ pc[c] \notin {"joined", "inserting"} BY DEF Busy
<1> QED BY <1>2, <1>3, <1>4, <1>5, AsideMoves

LEMMA RefuseKeeps ==
    ASSUME CInv, NEW c \in Creators, Refuse(c)
    PROVE  CInv'
BY AsideEnds DEF Refuse, made_vars, db, budget, Early

LEMMA LookUpKeeps ==
    ASSUME CInv, NEW c \in Creators, NEW next,
           LookUp(c, next), \/ ask[c].kind = "auto" /\ next = "publish"
                            \/ ask[c].kind = "explicit" /\ next = "lock"
                            \/ ask[c].kind = "batch" /\ next = "reserve"
    PROVE  CInv'
<1>1. /\ ask[c].keys \in Seq(AllKeys) /\ Distinct(ask[c].keys)
      /\ ask[c].kind \in {"auto", "explicit"} => Len(ask[c].keys) = 1
    BY Asks
<1>2. PICK ms : ms = Missing(ask[c].keys) OBVIOUS
<1>3. /\ ms \in Seq(AllKeys) /\ Distinct(ms)
      /\ Len(ask[c].keys) = 1 => ms = <<>> \/ Len(ms) = 1
    BY <1>1, <1>2, MissingKeys
<1>4. /\ pc[c] = "start" /\ todo' = [todo EXCEPT ![c] = ms]
      /\ \/ ms = <<>> /\ pc' = [pc EXCEPT ![c] = "done"]
         \/ ms # <<>> /\ pc' = [pc EXCEPT ![c] = next]
      /\ UNCHANGED <<ask, ids, made, by, keyed, seq, dirs, writer, left, overtaken>>
    BY <1>2 DEF LookUp, Goto, db, budget
<1>5. /\ pc \in [Creators -> Places] /\ todo \in [Creators -> Seq(AllKeys)] /\ ids \in [Creators -> Seq(Ids)]
      /\ Placed(c)
    BY DEF CInv, Typed, AllPlaced
<1>6. made[c] = {} BY <1>4, <1>5 DEF Placed, Early
<1>7. todo'[c] = ms /\ todo' \in [Creators -> Seq(AllKeys)] BY <1>3, <1>4, <1>5
<1>8. PICK p \in {"done", "publish", "lock", "reserve"} : pc' = [pc EXCEPT ![c] = p] /\ (ms = <<>> => p = "done")
                                       /\ (ms # <<>> => p = next)
    BY <1>4
<1>9. pc'[c] = p /\ pc' \in [Creators -> Places] BY <1>5, <1>8 DEF Places
<1>10. Placed(c)'
    <2>1. CASE p = "done" BY <1>9, <2>1, PlacedLate
    <2>2. CASE p # "done" BY <1>1, <1>3, <1>4, <1>6, <1>7, <1>8, <1>9, <2>2 DEF Placed, Early
    <2> QED BY <2>1, <2>2
<1>11. Below(c)' /\ ~Busy(c) /\ ~Busy(c)' BY <1>4, <1>9 DEF Below, Busy
<1>12. Aside(c) BY <1>4, <1>5, <1>7, <1>8, <1>9, <1>10, <1>11 DEF Aside
<1> QED BY <1>12, AsideKeeps

LEMMA AddKeeps ==
    ASSUME CInv, NEW c \in Creators, AddJob(c) \/ AddJobs(c)
    PROVE  CInv'
BY LookUpKeeps DEF AddJob, AddJobs

LEMMA LockNodeKeeps ==
    ASSUME CInv, NEW c \in Creators, LockNode(c)
    PROVE  CInv'
<1>1. PICK p \in {"recheck", "list"} : /\ pc[c] = "lock" /\ pc' = [pc EXCEPT ![c] = p]
                                       /\ p = IF ask[c].kind = "explicit" THEN "recheck" ELSE "list"
                                       /\ todo' = todo /\ ids' = ids
                                       /\ UNCHANGED <<ask, made, by, keyed, seq, dirs, writer, left, overtaken>>
    BY DEF LockNode, Goto, made_vars, db, budget
<1>2. Placed(c) /\ pc'[c] = p BY <1>1 DEF CInv, AllPlaced, Typed
<1>3. Placed(c)' BY <1>1, <1>2 DEF Placed, Early
<1>4. Below(c)' /\ ~Busy(c) BY <1>1, <1>2 DEF Below, Busy
<1>5. p \in Places BY DEF Places
<1> QED BY <1>1, <1>3, <1>4, <1>5, AsideMoves

LEMMA LockTimesOutKeeps ==
    ASSUME CInv, NEW c \in Creators, LockTimesOut(c)
    PROVE  CInv'
BY AsideEnds DEF LockTimesOut, Fault, made_vars, db, Early

LEMMA UnlockKeeps ==
    ASSUME CInv, NEW c \in Creators, Unlock(c)
    PROVE  CInv'
BY AsideEnds DEF Unlock, Goto, made_vars, db, budget

LEMMA RecheckKeeps ==
    ASSUME CInv, NEW c \in Creators, Recheck(c)
    PROVE  CInv'
<1>1. /\ pc[c] = "recheck" /\ todo' = todo /\ ids' = ids
      /\ UNCHANGED <<ask, made, by, keyed, seq, dirs, writer, left, overtaken>>
      /\ pc' = [pc EXCEPT ![c] = LastStep(c)] \/ pc' = [pc EXCEPT ![c] = "publish"]
    BY DEF Recheck, Ends, Goto, db, budget
<1>2. CASE pc' = [pc EXCEPT ![c] = LastStep(c)]
    BY <1>1, <1>2, LastSteps, AsideEnds DEF Early
<1>3. CASE pc' = [pc EXCEPT ![c] = "publish"]
    <2>1. Placed(c) /\ pc'[c] = "publish" BY <1>3 DEF CInv, AllPlaced, Typed
    <2>2. Placed(c)' BY <1>1, <2>1 DEF Placed, Early
    <2>3. Below(c)' /\ ~Busy(c) BY <1>1, <2>1 DEF Below, Busy
    <2>4. "publish" \in Places BY DEF Places
    <2> QED BY <1>1, <1>3, <2>2, <2>3, <2>4, AsideMoves
<1> QED BY <1>1, <1>2, <1>3

LEMMA CommitFailsKeeps ==
    ASSUME CInv, NEW c \in Creators, CommitFails(c)
    PROVE  CInv'
BY AsideCleansUp DEF CommitFails, Fault, CleansUp, made_vars, db

LEMMA ListDefaultKeeps ==
    ASSUME CInv, NEW c \in Creators, ListDefault(c)
    PROVE  CInv'
<1>1. PICK S : S = DefaultMissing(c) OBVIOUS
<1>2. PICK q : q = InOrder(S) OBVIOUS
<1>3. PICK ks : ks = [n \in DOMAIN q |-> NoKey] OBVIOUS
<1>4. /\ pc[c] = "list" /\ ids' = [ids EXCEPT ![c] = q] /\ todo' = [todo EXCEPT ![c] = ks]
      /\ \/ q = <<>> /\ pc' = [pc EXCEPT ![c] = LastStep(c)]
         \/ q # <<>> /\ pc' = [pc EXCEPT ![c] = "preparing"]
      /\ UNCHANGED <<ask, made, by, keyed, seq, dirs, writer, left, overtaken>>
    BY <1>1, <1>2, <1>3 DEF ListDefault, Ends, Goto, db, budget
<1>5. /\ pc \in [Creators -> Places] /\ todo \in [Creators -> Seq(AllKeys)] /\ ids \in [Creators -> Seq(Ids)]
      /\ Placed(c)
    BY DEF CInv, Typed, AllPlaced
<1>6. made[c] = {} /\ ask[c].kind = "default" BY <1>4, <1>5 DEF Placed, Early
<1>7. S \in SUBSET Ids /\ S \in SUBSET (0 .. MaxId) /\ MaxId \in Nat
    <2>1. ask[c].address \in 0 .. MaxId BY Asks
    <2>2. MaxId \in Nat BY BoundsAreNat
    <2> QED BY <1>1, <2>1, <2>2 DEF DefaultMissing, Ids
<1>8. q \in Seq(S) /\ OneEach(q) /\ Len(q) \in Nat BY <1>2, <1>7, InOrderSorted
<1>9. q \in Seq(Ids)
    <2>0. DOMAIN q = 1 .. Len(q) /\ \A n \in DOMAIN q : q[n] \in S BY <1>8
    <2>1. DOMAIN q = 1 .. Len(q) /\ \A n \in DOMAIN q : q[n] \in Ids BY <1>7, <2>0
    <2>2. q = [n \in 1 .. Len(q) |-> q[n]] BY <1>8
    <2>3. q \in [1 .. Len(q) -> Ids] BY <2>1, <2>2
    <2> QED BY <1>8, <2>3
<1>10. ks \in Seq(AllKeys) /\ Len(ks) = Len(q) /\ DOMAIN ks = DOMAIN q /\ \A n \in DOMAIN ks : ks[n] = NoKey
    BY <1>3, <1>8 DEF AllKeys
<1>11. /\ todo'[c] = ks /\ todo' \in [Creators -> Seq(AllKeys)]
       /\ ids'[c] = q /\ ids' \in [Creators -> Seq(Ids)]
    BY <1>4, <1>5, <1>9, <1>10
<1>12. CASE q = <<>>
    <2>1. pc'[c] \in {"unlock", "done"} /\ pc' \in [Creators -> Places]
        BY <1>4, <1>5, <1>12, LastSteps DEF Places
    <2>2. Placed(c)' BY <2>1, PlacedLate
    <2>3. Below(c)' /\ ~Busy(c) /\ ~Busy(c)' BY <1>4, <2>1 DEF Below, Busy
    <2>4. Aside(c) BY <1>4, <1>5, <1>11, <2>1, <2>2, <2>3 DEF Aside
    <2> QED BY <2>4, AsideKeeps
<1>13. CASE q # <<>>
    <2>1. pc'[c] = "preparing" /\ pc' \in [Creators -> Places] BY <1>4, <1>5, <1>13 DEF Places
    <2>2. Cardinality(made'[c]) = 0 /\ made'[c] = {} BY <1>4, <1>6, FS_EmptySet
    <2>3. made'[c] = FirstOf(q, 0) BY <2>2 DEF FirstOf
    <2>4. Distinct(ks) BY <1>10 DEF Distinct
    <2>5. Len(q) > 0 BY <1>8, <1>13
    <2>6. ask'[c].kind = "default" BY <1>4, <1>6
    <2>7. Placed(c)' BY <1>8, <1>10, <1>11, <2>1, <2>2, <2>3, <2>4, <2>5, <2>6 DEF Placed, Early
    <2>8. Below(c)' /\ ~Busy(c) BY <1>4, <2>1, <2>6 DEF Below, Busy
    <2>9. Aside(c) BY <1>4, <1>5, <1>6, <1>11, <2>1, <2>7, <2>8 DEF Aside
    <2> QED BY <2>9, AsideKeeps
<1> QED BY <1>4, <1>12, <1>13

-----------------------------------------------------------------------------
(***************************************************************************)
(* Creators that end, with the directories R they remove.                  *)
(***************************************************************************)
LEMMA EndsKeep ==
    ASSUME CInv, NEW D \in SUBSET Creators, NEW R \in SUBSET Ids,
           pc' \in [Creators -> Places], made' \in [Creators -> SUBSET Ids],
           \A d \in D : pc'[d] \in {"done", "unlock"},
           \A d \in Creators \ D : pc'[d] = pc[d] /\ made'[d] = made[d] /\ pc[d] \notin {"joined", "inserting"},
           dirs' = [i \in Ids |-> IF i \in R THEN Nobody ELSE dirs[i]],
           ~overtaken => R \cap Live = {} /\ \A i \in R : dirs[i] \in D,
           left' \in BOOLEAN, left => left',
           ~left' => \A d \in D : Busy(d) => made[d] \subseteq R \cup Live,
           UNCHANGED <<ask, todo, ids, by, keyed, seq, overtaken>>
    PROVE  CInv'
<1>1. Live' = Live BY SameRows
<1>2. \A i \in Ids : dirs'[i] = IF i \in R THEN Nobody ELSE dirs[i] OBVIOUS
<1>3. Typed' BY DEF CInv, Typed
<1>4. AllPlaced'
    <2> SUFFICES ASSUME NEW d \in Creators PROVE Placed(d)' BY DEF AllPlaced
    <2>1. CASE d \in D BY <2>1, PlacedLate
    <2>2. CASE d \notin D
        <3>1. Placed(d) BY DEF CInv, AllPlaced
        <3> QED BY <2>2, <3>1, PlacedSame
    <2> QED BY <2>1, <2>2
<1>5. Writes'
    <2>1. \A d \in Creators : pc'[d] \notin {"joined", "inserting"} OBVIOUS
    <2> QED BY <2>1, Unwritten
<1>6. SequenceAhead'
    <2>1. seq \in Nat /\ seq' \in Nat /\ seq <= seq' BY DEF CInv, Typed
    <2>2. ~overtaken => \A i \in Live' : i < seq' BY <1>1 DEF CInv, SequenceAhead
    <2>3. \A d \in D : Below(d)' BY DEF Below
    <2>4. \A d \in Creators : (pc'[d] = pc[d] /\ ids'[d] = ids[d]) \/ (~overtaken => Below(d)') BY <2>3
    <2> QED BY <2>1, <2>2, <2>4, AheadStays
<1>7. \A d \in Creators : Busy(d)' => d \notin D /\ Busy(d) /\ made'[d] = made[d] BY DEF Busy
<1>8. OwnDirectories'
    <2> SUFFICES ASSUME ~overtaken, NEW d \in Creators, Busy(d)', NEW i \in made'[d]
                 PROVE  dirs'[i] = d
        BY DEF OwnDirectories
    <2>1. d \notin D /\ Busy(d) /\ i \in made[d] BY <1>7
    <2>2. dirs[i] = d /\ i \in Ids BY <2>1 DEF CInv, OwnDirectories, Typed
    <2>3. i \notin R BY <2>1, <2>2
    <2> QED BY <1>2, <2>2, <2>3
<1>9. NoneLeft'
    <2> SUFFICES ASSUME ~left', NEW i \in Ids, NEW d, d = dirs'[i], d # Nobody
                 PROVE  i \in Live \/ (Busy(d)' /\ i \in made'[d])
        BY <1>1 DEF NoneLeft, Busy
    <2>1. i \notin R /\ d = dirs[i] /\ d \in Creators BY <1>2 DEF CInv, Typed
    <2>2. i \in Live \/ (Busy(d) /\ i \in made[d]) BY <2>1 DEF CInv, NoneLeft
    <2>3. CASE d \in D BY <2>1, <2>2, <2>3
    <2>4. CASE d \notin D
        <3>1. Busy(d)' = Busy(d) BY <2>1, <2>4 DEF Busy
        <3> QED BY <2>1, <2>2, <2>4, <3>1
    <2> QED BY <2>3, <2>4
<1>10. RowsHaveInputs'
    <2> SUFFICES ASSUME ~overtaken, NEW i \in Live PROVE dirs'[i] = by[i]
        BY <1>1 DEF RowsHaveInputs
    <2>1. dirs[i] = by[i] /\ i \in Ids BY DEF CInv, RowsHaveInputs, Live
    <2> QED BY <1>2, <2>1
<1>11. OneJobPerKey' BY <1>1 DEF CInv, OneJobPerKey
<1> QED BY <1>3, <1>4, <1>5, <1>6, <1>8, <1>9, <1>10, <1>11 DEF CInv

(* One creator ends.                                                       *)
LEMMA OneEnds ==
    ASSUME CInv, NEW c \in Creators, NEW p \in {"unlock", "done"}, pc' = [pc EXCEPT ![c] = p], NEW R \in SUBSET made[c],
           \A d \in Creators \ {c} : pc[d] \notin {"joined", "inserting"},
           made' = [made EXCEPT ![c] = {}], Busy(c),
           dirs' = [i \in Ids |-> IF i \in R THEN Nobody ELSE dirs[i]],
           R \cap Live = {}, left' \in BOOLEAN, left => left', ~left' => made[c] \subseteq R \cup Live,
           UNCHANGED <<ask, todo, ids, by, keyed, seq, overtaken>>
    PROVE  CInv'
<1>1. pc \in [Creators -> Places] /\ made \in [Creators -> SUBSET Ids] BY DEF CInv, Typed
<1>2. pc' \in [Creators -> Places] /\ made' \in [Creators -> SUBSET Ids] BY <1>1 DEF Places
<1>3. \A d \in {c} : pc'[d] \in {"done", "unlock"} BY <1>1
<1>4. \A d \in Creators \ {c} : pc'[d] = pc[d] /\ made'[d] = made[d] BY <1>1
<1>5. {c} \in SUBSET Creators /\ R \in SUBSET Ids BY <1>1
<1>6. ~overtaken => R \cap Live = {} /\ \A i \in R : dirs[i] \in {c} BY DEF CInv, OwnDirectories
<1>7. ~left' => \A d \in {c} : Busy(d) => made[d] \subseteq R \cup Live OBVIOUS
<1> QED BY <1>2, <1>3, <1>4, <1>5, <1>6, <1>7, EndsKeep

LEMMA DiscardKeeps ==
    ASSUME CInv, NEW c \in Creators, Discard(c)
    PROVE  CInv'
<1>1. \A d \in Creators \ {c} : pc[d] \notin {"joined", "inserting"} BY NoWriter DEF Discard
<1>2. PICK R : R = Unregistered(c) OBVIOUS
<1>3. R \in SUBSET made[c] /\ R \cap Live = {} /\ made[c] \subseteq R \cup Live BY <1>2 DEF Unregistered
<1>4. Busy(c) BY DEF Discard, Busy
<1>5. PICK p \in {"unlock", "done"} : p = LastStep(c) BY LastSteps
<1>6. /\ pc' = [pc EXCEPT ![c] = p] /\ made' = [made EXCEPT ![c] = {}]
      /\ dirs' = [i \in Ids |-> IF i \in R THEN Nobody ELSE dirs[i]]
      /\ UNCHANGED <<ask, todo, ids, by, keyed, seq, overtaken>> /\ left' = left
    BY <1>2, <1>5 DEF Discard, Goto, db, budget
<1>7. left' \in BOOLEAN BY <1>6 DEF CInv, Typed
<1> QED BY <1>1, <1>3, <1>4, <1>6, <1>7, OneEnds

(* The answer of a clean-up that fails may come while a transaction of     *)
(* others is open.                                                         *)
LEMMA DiscardFailsKeeps ==
    ASSUME CInv, NEW c \in Creators, DiscardFails(c)
    PROVE  CInv'
<1>1. PICK p \in {"unlock", "done"} : p = LastStep(c) BY LastSteps
<1>2. /\ pc[c] = "discard" /\ pc' = [pc EXCEPT ![c] = p] /\ made' = [made EXCEPT ![c] = {}] /\ left' = TRUE
      /\ UNCHANGED <<ask, todo, ids, by, keyed, seq, dirs, writer, overtaken>>
    BY <1>1 DEF DiscardFails, db
<1>3. pc \in [Creators -> Places] /\ made \in [Creators -> SUBSET Ids] /\ seq \in Nat BY DEF CInv, Typed
<1>4. /\ pc' \in [Creators -> Places] /\ made' \in [Creators -> SUBSET Ids] /\ pc'[c] = p
      /\ \A d \in Creators \ {c} : pc'[d] = pc[d] /\ made'[d] = made[d]
    BY <1>2, <1>3 DEF Places
<1>5. Live' = Live BY <1>2, SameRows
<1>6. Typed' BY <1>2, <1>4 DEF CInv, Typed
<1>7. AllPlaced'
    <2>1. Placed(c)' BY <1>4, PlacedLate
    <2> QED BY <1>2, <1>4, <2>1, OthersPlaced
<1>8. Writes' BY <1>2, <1>4, WritesBeside
<1>9. SequenceAhead'
    <2>1. seq' \in Nat /\ seq <= seq' BY <1>2, <1>3
    <2>2. ~overtaken => \A i \in Live' : i < seq' BY <1>2, <1>5 DEF CInv, SequenceAhead
    <2>3. \A d \in Creators : pc'[d] = pc[d] \/ Below(d)' BY <1>4 DEF Below
    <2> QED BY <1>2, <1>3, <2>1, <2>2, <2>3, AheadStays
<1>10. \A d \in Creators : Busy(d)' => Busy(d) /\ made'[d] = made[d] BY <1>4 DEF Busy
<1>11. OwnDirectories' BY <1>2, <1>10 DEF CInv, OwnDirectories
<1>12. NoneLeft' BY <1>2 DEF NoneLeft
<1>13. RowsHaveInputs' BY <1>2, <1>5 DEF CInv, RowsHaveInputs
<1>14. OneJobPerKey' BY <1>2, <1>5 DEF CInv, OneJobPerKey
<1> QED BY <1>6, <1>7, <1>8, <1>9, <1>11, <1>12, <1>13, <1>14 DEF CInv

LEMMA CrashKeeps ==
    ASSUME CInv, Crash
    PROVE  CInv'
<1>1. PICK D : D = {c \in Creators : pc[c] # "start" /\ ~(pc[c] = "lock" /\ ask[c].kind = "default")} OBVIOUS
<1>2. /\ pc' = [c \in Creators |-> IF c \in D THEN "done" ELSE pc[c]] /\ left' = TRUE
      /\ UNCHANGED <<ask, todo, ids, made, by, keyed, seq, dirs, overtaken>>
    BY <1>1 DEF Crash, made_vars, db
<1>3. /\ pc \in [Creators -> Places] /\ made \in [Creators -> SUBSET Ids]
      /\ dirs \in [Ids -> Creators \cup {Nobody}]
    BY DEF CInv, Typed
<1>4. pc' \in [Creators -> Places] /\ made' \in [Creators -> SUBSET Ids] BY <1>2, <1>3 DEF Places
<1>5. D \in SUBSET Creators /\ \A d \in D : pc'[d] \in {"done", "unlock"} BY <1>1, <1>2
<1>6. \A d \in Creators \ D : pc'[d] = pc[d] /\ made'[d] = made[d] /\ pc[d] \notin {"joined", "inserting"}
    BY <1>1, <1>2
<1>7. PICK R : R = {} OBVIOUS
<1>8. dirs' = [i \in Ids |-> IF i \in R THEN Nobody ELSE dirs[i]] BY <1>2, <1>3, <1>7
<1>9. R \in SUBSET Ids /\ (~overtaken => R \cap Live = {} /\ \A i \in R : dirs[i] \in D) BY <1>7
<1> QED BY <1>2, <1>4, <1>5, <1>6, <1>8, <1>9, EndsKeep

-----------------------------------------------------------------------------
(***************************************************************************)
(* The group.                                                              *)
(***************************************************************************)
LEMMA Members ==
    ASSUME CInv
    PROVE  /\ \A c \in Joined : c \in Creators /\ Busy(c) /\ made[c] \subseteq Pending
           /\ \A i \in Pending : /\ i \in Ids /\ dirs[i] \in Joined
                                 /\ Fresh(dirs[i]) /\ made[dirs[i]] = {i} /\ ids[dirs[i]] = <<i>>
<1>1. \A c \in Joined : c \in Creators /\ Busy(c) /\ made[c] \subseteq Pending BY DEF Joined, Busy, Pending
<1>2. ASSUME NEW i \in Pending PROVE /\ i \in Ids /\ dirs[i] \in Joined
                                     /\ Fresh(dirs[i]) /\ made[dirs[i]] = {i} /\ ids[dirs[i]] = <<i>>
    <2>1. PICK c \in Joined : i \in made[c] BY DEF Pending
    <2>2. Fresh(c) BY <2>1 DEF CInv, Writes
    <2>3. made[c] = {ids[c][1]} /\ i = ids[c][1] /\ dirs[i] = c BY <2>1, <2>2 DEF Fresh
    <2>4. c \in Creators /\ ids[c] \in Seq(Ids) /\ Len(ids[c]) = 1 BY <1>1, <2>2 DEF Fresh, CInv, Typed
    <2>5. ids[c] = <<i>> /\ i \in Ids BY <2>3, <2>4
    <2> QED BY <2>1, <2>2, <2>3, <2>5
<1> QED BY <1>1, <1>2

LEMMA PendingAhead ==
    ASSUME CInv
    PROVE  /\ Pending \in SUBSET Ids /\ IsFiniteSet(Pending) /\ Cardinality(Pending) \in Nat
           /\ NextId \in Nat \ {0} /\ GroupNext = NextId + Cardinality(Pending)
           /\ Pending = NextId .. GroupNext - 1
           /\ ~overtaken => Pending \cap Live = {}
<1>1. Pending \in SUBSET Ids BY Members
<1>2. IsFiniteSet(Pending) /\ Cardinality(Pending) \in Nat BY <1>1, IdsAreNat, FS_Subset, FS_CardinalityType
<1>3. Typed /\ SequenceAhead BY DEF CInv
<1>4. NextId \in Nat \ {0} /\ (~overtaken => \A i \in Live : i < NextId) BY <1>3, NextIds
<1>5. GroupNext = NextId + Cardinality(Pending) BY DEF GroupNext
<1>6. Pending = NextId .. GroupNext - 1
    <2>1. CASE Joined # {} BY <2>1 DEF CInv, Writes
    <2>2. CASE Joined = {}
        <3>1. Pending = {} BY <2>2 DEF Pending
        <3>2. Cardinality(Pending) = 0 BY <3>1, FS_EmptySet
        <3>3. NextId .. GroupNext - 1 = {} BY <1>4, <1>5, <3>2
        <3> QED BY <3>1, <3>3
    <2> QED BY <2>1, <2>2
<1>7. ~overtaken => Pending \cap Live = {}
    <2>1. \A i \in Pending : i >= NextId BY <1>2, <1>4, <1>5, <1>6
    <2>2. Live \subseteq Nat BY IdsAreNat DEF Live
    <2> SUFFICES ASSUME ~overtaken, NEW i \in Pending, i \in Live PROVE FALSE OBVIOUS
    <2>3. i >= NextId /\ i < NextId /\ i \in Nat BY <1>4, <2>1, <2>2
    <2> QED BY <1>4, <2>3
<1> QED BY <1>1, <1>2, <1>4, <1>5, <1>6, <1>7

(* The members of a group, and those with them, end and the directories of *)
(* the group are removed.                                                  *)
LEMMA GroupEnds ==
    ASSUME CInv, NEW E \in SUBSET Creators, \A c \in E : pc[c] = "publish",
           \A c \in Creators : pc[c] # "inserting",
           pc' = [d \in Creators |-> IF d \in Joined \cup E THEN "done" ELSE pc[d]],
           dirs' = [i \in Ids |-> IF i \in Pending THEN Nobody ELSE dirs[i]],
           made' = [d \in Creators |-> IF d \in Joined THEN {} ELSE made[d]],
           UNCHANGED <<ask, todo, ids, by, keyed, seq, left, overtaken>>
    PROVE  CInv'
<1>1. PICK D : D = Joined \cup E OBVIOUS
<1>2. pc \in [Creators -> Places] /\ made \in [Creators -> SUBSET Ids] /\ left \in BOOLEAN BY DEF CInv, Typed
<1>3. pc' \in [Creators -> Places] /\ made' \in [Creators -> SUBSET Ids] BY <1>2 DEF Places
<1>4. D \in SUBSET Creators BY <1>1 DEF Joined
<1>5. \A d \in D : pc'[d] \in {"done", "unlock"} BY <1>1, <1>4
<1>6. \A d \in Creators \ D : pc'[d] = pc[d] /\ made'[d] = made[d] /\ pc[d] \notin {"joined", "inserting"}
    BY <1>1 DEF Joined
<1>7. Pending \in SUBSET Ids /\ (~overtaken => Pending \cap Live = {}) BY PendingAhead
<1>8. \A i \in Pending : dirs[i] \in D BY <1>1, Members
<1>9. \A d \in D : Busy(d) => made[d] \subseteq Pending \cup Live BY <1>1, Members DEF Busy
<1>10. pc' = [d \in Creators |-> IF d \in D THEN "done" ELSE pc[d]] BY <1>1
<1> QED BY <1>2, <1>3, <1>4, <1>5, <1>6, <1>7, <1>8, <1>9, EndsKeep

LEMMA AbortGroupKeeps ==
    ASSUME CInv, AbortGroup
    PROVE  CInv'
<1>1. \A c \in Creators : pc[c] # "inserting" BY GroupWriter DEF AbortGroup
<1>2. PICK E : E = {} OBVIOUS
<1>3. /\ pc' = [d \in Creators |-> IF d \in Joined \cup E THEN "done" ELSE pc[d]]
      /\ dirs' = [i \in Ids |-> IF i \in Pending THEN Nobody ELSE dirs[i]]
      /\ made' = [d \in Creators |-> IF d \in Joined THEN {} ELSE made[d]]
      /\ UNCHANGED <<ask, todo, ids, by, keyed, seq, left, overtaken>>
    BY <1>2 DEF AbortGroup, Fault, db
<1>4. E \in SUBSET Creators /\ \A c \in E : pc[c] = "publish" BY <1>2
<1> QED BY <1>1, <1>3, <1>4, GroupEnds

LEMMA GroupCommitFailsKeeps ==
    ASSUME CInv, GroupCommitFails
    PROVE  CInv'
<1>1. \A c \in Creators : pc[c] # "inserting" BY GroupWriter DEF GroupCommitFails
<1>2. /\ pc' = [c \in Creators |-> IF c \in Joined THEN "discard" ELSE pc[c]]
      /\ UNCHANGED <<ask, todo, ids, made, by, keyed, seq, dirs, left, overtaken>>
    BY DEF GroupCommitFails, Fault, made_vars, db
<1>3. pc \in [Creators -> Places] /\ seq \in Nat BY DEF CInv, Typed
<1>4. pc' \in [Creators -> Places] BY <1>2, <1>3 DEF Places
<1>5. Typed' BY <1>2, <1>4 DEF CInv, Typed
<1>6. AllPlaced'
    <2> SUFFICES ASSUME NEW d \in Creators PROVE Placed(d)' BY DEF AllPlaced
    <2>1. CASE d \in Joined BY <1>2, <2>1, PlacedLate
    <2>2. CASE d \notin Joined
        <3>1. Placed(d) BY DEF CInv, AllPlaced
        <3> QED BY <1>2, <2>2, <3>1, PlacedSame
    <2> QED BY <2>1, <2>2
<1>7. Writes'
    <2>1. \A d \in Creators : pc'[d] \notin {"joined", "inserting"} BY <1>1, <1>2 DEF Joined
    <2> QED BY <2>1, Unwritten
<1>8. SequenceAhead'
    <2>1. seq' \in Nat /\ seq <= seq' BY <1>2, <1>3
    <2>2. Live' = Live BY <1>2, SameRows
    <2>3. ~overtaken => \A i \in Live' : i < seq' BY <1>2, <2>2 DEF CInv, SequenceAhead
    <2>4. \A d \in Creators : pc'[d] = pc[d] \/ Below(d)' BY <1>2 DEF Below
    <2> QED BY <1>2, <1>3, <2>1, <2>3, <2>4, AheadStays
<1>9. \A d \in Creators : Busy(d)' = Busy(d) BY <1>2 DEF Busy, Joined
<1>10. OwnDirectories' /\ NoneLeft' /\ RowsHaveInputs' /\ OneJobPerKey' BY <1>2, <1>9, DirectoriesKept
<1> QED BY <1>5, <1>6, <1>7, <1>8, <1>10 DEF CInv

-----------------------------------------------------------------------------
(***************************************************************************)
(* A creator joins the group.                                              *)
(***************************************************************************)
Joins(c) ==
    /\ pc[c] = "publish" /\ ask[c].kind = "auto" /\ writer \in {Nobody, Group}
    /\ pc' = [pc EXCEPT ![c] = "joined"] /\ writer' = Group
    /\ UNCHANGED <<ask, todo, by, keyed, seq, left, overtaken>>

LEMMA JoinsFacts ==
    ASSUME CInv, NEW c \in Creators, Joins(c)
    PROVE  /\ \A d \in Creators : pc[d] # "inserting" /\ pc'[d] # "inserting"
           /\ c \notin Joined /\ Joined' = Joined \cup {c} /\ Placed(c) /\ made[c] = {} /\ Len(todo[c]) = 1
           /\ pc' \in [Creators -> Places] /\ pc'[c] = "joined" /\ \A d \in Creators \ {c} : pc'[d] = pc[d]
           /\ Live' = Live /\ (\A k : Resolves(k)' = Resolves(k)) /\ NextId' = NextId
<1> USE DEF Joins
<1>1. pc \in [Creators -> Places] /\ Placed(c) BY DEF CInv, Typed, AllPlaced
<1>2. \A d \in Creators : pc[d] # "inserting" BY NoWriter, GroupWriter
<1>3. pc' \in [Creators -> Places] /\ pc'[c] = "joined" /\ \A d \in Creators \ {c} : pc'[d] = pc[d]
    BY <1>1 DEF Places
<1>4. c \notin Joined /\ Joined' = Joined \cup {c} BY <1>3 DEF Joined
<1>5. made[c] = {} /\ Len(todo[c]) = 1 BY <1>1 DEF Placed, Early
<1> QED BY <1>1, <1>2, <1>3, <1>4, <1>5, SameRows, SameNext

LEMMA JoinFound ==
    ASSUME CInv, NEW c \in Creators, Joins(c), UNCHANGED <<ids, made, dirs>>
    PROVE  CInv'
<1>1. /\ \A d \in Creators : pc[d] # "inserting" /\ pc'[d] # "inserting"
      /\ c \notin Joined /\ Joined' = Joined \cup {c} /\ Placed(c) /\ made[c] = {} /\ Len(todo[c]) = 1
      /\ pc' \in [Creators -> Places] /\ pc'[c] = "joined" /\ \A d \in Creators \ {c} : pc'[d] = pc[d]
      /\ Live' = Live /\ (\A k : Resolves(k)' = Resolves(k)) /\ NextId' = NextId
    BY JoinsFacts
<1>2. seq \in Nat BY DEF CInv, Typed
<1> USE DEF Joins
<1>3. Typed' BY <1>1 DEF CInv, Typed
<1>4. AllPlaced'
    <2>1. Placed(c)' BY <1>1 DEF Placed, Early
    <2> QED BY <1>1, <2>1, OthersPlaced
<1>5. Writes'
    <2>1. Pending' = Pending BY <1>1 DEF Pending
    <2>2. GroupNext' = GroupNext BY <1>1, <2>1 DEF GroupNext
    <2>3. Pending' = NextId' .. GroupNext' - 1 BY <1>1, <2>1, <2>2, PendingAhead
    <2>4. \A d \in Joined : made[d] = {} \/ Fresh(d) BY DEF CInv, Writes
    <2>5. \A d \in Joined' : made'[d] = {} \/ Fresh(d)' BY <1>1, <2>4 DEF Fresh
    <2>6. \A d, e \in Joined' : made'[d] # {} /\ made'[e] # {} /\ todo'[d] = todo'[e]
                                => d = e \/ todo'[d] = <<NoKey>>
        BY <1>1 DEF CInv, Writes
    <2> QED BY <1>1, <2>3, <2>5, <2>6 DEF Writes
<1>6. SequenceAhead'
    <2>1. seq' \in Nat /\ seq <= seq' BY <1>2
    <2>2. ~overtaken => \A i \in Live' : i < seq' BY <1>1 DEF CInv, SequenceAhead
    <2>3. \A d \in Creators : pc'[d] = pc[d] \/ Below(d)' BY <1>1 DEF Below
    <2> QED BY <1>2, <2>1, <2>2, <2>3, AheadStays
<1>7. \A d \in Creators : (Busy(d) => Busy(d)') /\ (Busy(d)' => Busy(d) \/ made[d] = {}) BY <1>1 DEF Busy
<1>8. OwnDirectories' /\ NoneLeft' /\ RowsHaveInputs' /\ OneJobPerKey' BY <1>7, DirectoriesKept
<1> QED BY <1>3, <1>4, <1>5, <1>6, <1>8 DEF CInv

LEMMA JoinNew ==
    ASSUME CInv, NEW c \in Creators, Joins(c), GroupResolves(todo[c][1]) = {}, NEW i, i = GroupNext, i <= MaxId,
           dirs[i] = Nobody, dirs' = [dirs EXCEPT ![i] = c], made' = [made EXCEPT ![c] = {i}],
           ids' = [ids EXCEPT ![c] = <<i>>]
    PROVE  CInv'
<1>1. /\ \A d \in Creators : pc[d] # "inserting" /\ pc'[d] # "inserting"
      /\ c \notin Joined /\ Joined' = Joined \cup {c} /\ Placed(c) /\ made[c] = {} /\ Len(todo[c]) = 1
      /\ pc' \in [Creators -> Places] /\ pc'[c] = "joined" /\ \A d \in Creators \ {c} : pc'[d] = pc[d]
      /\ Live' = Live /\ (\A k : Resolves(k)' = Resolves(k)) /\ NextId' = NextId
    BY JoinsFacts
<1>2. /\ seq \in Nat /\ todo[c] \in Seq(AllKeys) /\ ids \in [Creators -> Seq(Ids)]
      /\ made \in [Creators -> SUBSET Ids] /\ dirs \in [Ids -> Creators \cup {Nobody}]
    BY DEF CInv, Typed
<1>3. /\ Pending \in SUBSET Ids /\ IsFiniteSet(Pending) /\ Cardinality(Pending) \in Nat
      /\ NextId \in Nat \ {0} /\ i = NextId + Cardinality(Pending) /\ Pending = NextId .. i - 1
    BY PendingAhead
<1>4. i \in Ids /\ i \notin Pending
    <2>1. PICK n \in Nat, m \in Nat \ {0} : i = m + n /\ Pending = m .. i - 1 BY <1>3
    <2> QED BY <2>1, BoundsAreNat DEF Ids
<1>5. /\ dirs'[i] = c /\ \A j \in Ids \ {i} : dirs'[j] = dirs[j]
      /\ made'[c] = {i} /\ ids'[c] = <<i>> /\ dirs' \in [Ids -> Creators \cup {Nobody}]
      /\ made' \in [Creators -> SUBSET Ids] /\ ids' \in [Creators -> Seq(Ids)]
      /\ \A d \in Creators \ {c} : made'[d] = made[d] /\ ids'[d] = ids[d]
    BY <1>2, <1>4
<1>6. Joined \subseteq Creators \ {c} BY <1>1 DEF Joined
<1> USE DEF Joins
<1>7. Typed' BY <1>1, <1>5 DEF CInv, Typed
<1>8. AllPlaced'
    <2>1. Placed(c)' BY <1>1 DEF Placed, Early
    <2> QED BY <1>1, <1>5, <2>1, OthersPlaced
<1>9. Writes'
    <2>1. Pending' = Pending \cup {i} BY <1>1, <1>5, <1>6 DEF Pending
    <2>2. Cardinality(Pending') = Cardinality(Pending) + 1 BY <1>3, <1>4, <2>1, FS_AddElement
    <2>3. GroupNext' = i + 1 BY <1>1, <1>3, <2>2 DEF GroupNext
    <2>4. Pending' = NextId' .. GroupNext' - 1
        <3>1. PICK n \in Nat, m \in Nat \ {0} : m = NextId /\ i = m + n /\ Pending = m .. i - 1 BY <1>3
        <3>2. (m .. i - 1) \cup {i} = m .. (i + 1) - 1 BY <3>1
        <3> QED BY <1>1, <2>1, <2>3, <3>1, <3>2
    <2>5. Resolves(todo[c][1]) = {} /\ \A d \in Joined : todo[c][1] # NoKey /\ todo[d] = <<todo[c][1]>> => made[d] = {}
        BY DEF GroupResolves
    <2>6. Fresh(c)' BY <1>1, <1>5, <2>5 DEF Fresh
    <2>7. ASSUME NEW d \in Joined, made[d] # {} PROVE made'[d] = made[d] /\ Fresh(d)'
        <3>1. Fresh(d) BY <2>7 DEF CInv, Writes
        <3>2. ids[d][1] \in Pending BY <3>1 DEF Fresh, Pending
        <3>3. ids[d][1] \in Ids \ {i} BY <1>3, <1>4, <3>2
        <3> QED BY <1>1, <1>5, <1>6, <3>1, <3>3 DEF Fresh
    <2>8. todo[c] = <<todo[c][1]>> BY <1>1, <1>2
    <2>9. \A d \in Joined : made[d] # {} /\ todo[d] = todo[c] => todo[c] = <<NoKey>> BY <2>5, <2>8
    <2>10. \A d \in Joined' : made'[d] = {} \/ Fresh(d)'
        <3> SUFFICES ASSUME NEW d \in Joined' PROVE made'[d] = {} \/ Fresh(d)' OBVIOUS
        <3>1. CASE d = c BY <2>6, <3>1 DEF Fresh
        <3>2. CASE d # c BY <1>1, <1>5, <1>6, <2>7, <3>2
        <3> QED BY <3>1, <3>2
    <2>11. \A d, e \in Joined : made[d] # {} /\ made[e] # {} /\ todo[d] = todo[e] => d = e \/ todo[d] = <<NoKey>>
        BY DEF CInv, Writes
    <2>12. \A d, e \in Joined' : made'[d] # {} /\ made'[e] # {} /\ todo'[d] = todo'[e]
                                => d = e \/ todo'[d] = <<NoKey>>
        BY <1>1, <1>5, <1>6, <2>9, <2>11
    <2> QED BY <1>1, <2>4, <2>10, <2>12 DEF Writes
<1>10. SequenceAhead'
    <2>1. seq' \in Nat /\ seq <= seq' BY <1>2
    <2>2. ~overtaken => \A j \in Live' : j < seq' BY <1>1 DEF CInv, SequenceAhead
    <2>3. \A d \in Creators : (pc'[d] = pc[d] /\ ids'[d] = ids[d]) \/ Below(d)' BY <1>1, <1>5 DEF Below
    <2> QED BY <1>2, <2>1, <2>2, <2>3, AheadStays
<1>11. OwnDirectories' /\ NoneLeft' /\ RowsHaveInputs' /\ OneJobPerKey'
    <2>1. Busy(c)' BY <1>1 DEF Busy
    <2>2. made' = [made EXCEPT ![c] = made[c] \cup {i}] BY <1>1
    <2> QED BY <1>1, <1>4, <2>1, <2>2, DirectoryMade
<1> QED BY <1>7, <1>8, <1>9, <1>10, <1>11 DEF CInv

LEMMA JoinKeeps ==
    ASSUME CInv, NEW c \in Creators, Join(c)
    PROVE  CInv'
<1>1. PICK i : i = GroupNext OBVIOUS
<1>2. /\ pc[c] = "publish" /\ ask[c].kind = "auto" /\ writer \in {Nobody, Group} /\ i <= MaxId
      /\ UNCHANGED <<ask, todo, by, keyed, seq, left, overtaken>>
    BY <1>1 DEF Join, db, budget
<1>3. \/ pc' = [pc EXCEPT ![c] = LastStep(c)] /\ UNCHANGED <<ids, made, dirs, writer>>
      \/ pc' = [pc EXCEPT ![c] = "joined"] /\ writer' = Group /\ UNCHANGED <<ids, made, dirs>>
      \/ GroupFails(c)
      \/ /\ GroupResolves(todo[c][1]) = {} /\ dirs[i] = Nobody
         /\ dirs' = [dirs EXCEPT ![i] = c] /\ made' = [made EXCEPT ![c] = {i}] /\ ids' = [ids EXCEPT ![c] = <<i>>]
         /\ pc' = [pc EXCEPT ![c] = "joined"] /\ writer' = Group
    <2>1. CASE ~ProducerExact(c) BY <2>1 DEF Join, Ends
    <2>2. CASE ProducerExact(c) /\ GroupResolves(todo[c][1]) # {} BY <2>2 DEF Join, Goto
    <2>3. CASE ProducerExact(c) /\ GroupResolves(todo[c][1]) = {} /\ Guarded BY <2>3 DEF Join, Ends
    <2>4. CASE ProducerExact(c) /\ GroupResolves(todo[c][1]) = {} /\ ~Guarded BY <1>1, <2>4 DEF Join, Goto
    <2> QED BY <2>1, <2>2, <2>3, <2>4
<1>4. CASE pc' = [pc EXCEPT ![c] = LastStep(c)] /\ UNCHANGED <<ids, made, dirs, writer>>
    BY <1>2, <1>4, LastSteps, AsideEnds DEF Early
<1>5. CASE pc' = [pc EXCEPT ![c] = "joined"] /\ writer' = Group /\ UNCHANGED <<ids, made, dirs>>
    BY <1>2, <1>5, JoinFound DEF Joins
<1>6. CASE GroupFails(c)
    <2>1. \A d \in Creators : pc[d] # "inserting" BY <1>2, NoWriter, GroupWriter
    <2>2. PICK E : E = {c} OBVIOUS
    <2>3. E \in SUBSET Creators /\ \A d \in E : pc[d] = "publish" BY <1>2, <2>2
    <2>4. /\ pc' = [d \in Creators |-> IF d \in Joined \cup E THEN "done" ELSE pc[d]]
          /\ dirs' = [j \in Ids |-> IF j \in Pending THEN Nobody ELSE dirs[j]]
          /\ made' = [d \in Creators |-> IF d \in Joined THEN {} ELSE made[d]] /\ ids' = ids
        BY <1>6, <2>2 DEF GroupFails
    <2> QED BY <1>2, <2>1, <2>3, <2>4, GroupEnds
<1>7. CASE /\ GroupResolves(todo[c][1]) = {} /\ dirs[i] = Nobody
           /\ dirs' = [dirs EXCEPT ![i] = c] /\ made' = [made EXCEPT ![c] = {i}] /\ ids' = [ids EXCEPT ![c] = <<i>>]
           /\ pc' = [pc EXCEPT ![c] = "joined"] /\ writer' = Group
    BY <1>1, <1>2, <1>7, JoinNew DEF Joins
<1> QED BY <1>3, <1>4, <1>5, <1>6, <1>7

-----------------------------------------------------------------------------
(***************************************************************************)
(* A job with an explicit id, and the directories of a batch.              *)
(***************************************************************************)
LEMMA InsertBegins ==
    ASSUME CInv, NEW c \in Creators, pc[c] = "publish", ask[c].kind = "explicit", writer = Nobody,
           NEW i, i = ask[c].address, i \notin Live, dirs[i] = Nobody, Found(todo[c]) = {},
           dirs' = [dirs EXCEPT ![i] = c], made' = [made EXCEPT ![c] = {i}], ids' = [ids EXCEPT ![c] = <<i>>],
           writer' = c, pc' = [pc EXCEPT ![c] = "inserting"],
           UNCHANGED <<ask, todo, by, keyed, seq, left, overtaken>>
    PROVE  CInv'
<1>1. /\ seq \in Nat /\ todo[c] \in Seq(AllKeys) /\ ids \in [Creators -> Seq(Ids)] /\ pc \in [Creators -> Places]
      /\ made \in [Creators -> SUBSET Ids] /\ dirs \in [Ids -> Creators \cup {Nobody}] /\ Placed(c)
    BY DEF CInv, Typed, AllPlaced
<1>2. i \in Ids BY Asks
<1>3. made[c] = {} /\ Len(todo[c]) = 1 BY <1>1 DEF Placed, Early
<1>4. \A d \in Creators : pc[d] \notin {"joined", "inserting"} BY NoWriter
<1>5. /\ dirs'[i] = c /\ \A j \in Ids \ {i} : dirs'[j] = dirs[j]
      /\ made'[c] = {i} /\ ids'[c] = <<i>> /\ dirs' \in [Ids -> Creators \cup {Nobody}]
      /\ made' \in [Creators -> SUBSET Ids] /\ ids' \in [Creators -> Seq(Ids)]
      /\ \A d \in Creators \ {c} : made'[d] = made[d] /\ ids'[d] = ids[d]
    BY <1>1, <1>2
<1>6. pc' \in [Creators -> Places] /\ pc'[c] = "inserting" /\ \A d \in Creators \ {c} : pc'[d] = pc[d]
    BY <1>1 DEF Places
<1>7. Live' = Live /\ \A k : Resolves(k)' = Resolves(k) BY SameRows
<1>8. Typed' BY <1>5, <1>6 DEF CInv, Typed
<1>9. AllPlaced'
    <2>1. Placed(c)' BY <1>6, PlacedLate
    <2> QED BY <1>5, <1>6, <2>1, OthersPlaced
<1>10. Writes'
    <2>1. Joined' = {} BY <1>4, <1>6 DEF Joined
    <2>2. Resolves(todo[c][1]) = {}
        <3>1. 1 \in DOMAIN todo[c] BY <1>1, <1>3
        <3> QED BY <3>1 DEF Found
    <2>3. Fresh(c)' BY <1>3, <1>5, <1>7, <2>2 DEF Fresh
    <2>4. \A d \in Creators : pc'[d] = "inserting" => d = c BY <1>4, <1>6
    <2> QED BY <1>5, <1>7, <2>1, <2>3, <2>4 DEF Writes
<1>11. SequenceAhead'
    <2>1. seq' \in Nat /\ seq <= seq' BY <1>1
    <2>2. ~overtaken => \A j \in Live' : j < seq' BY <1>7 DEF CInv, SequenceAhead
    <2>3. \A d \in Creators : (pc'[d] = pc[d] /\ ids'[d] = ids[d]) \/ Below(d)' BY <1>5, <1>6 DEF Below
    <2> QED BY <1>1, <2>1, <2>2, <2>3, AheadStays
<1>12. OwnDirectories' /\ NoneLeft' /\ RowsHaveInputs' /\ OneJobPerKey'
    <2>1. Busy(c)' BY <1>6 DEF Busy
    <2>2. made' = [made EXCEPT ![c] = made[c] \cup {i}] BY <1>3
    <2> QED BY <1>2, <1>3, <1>6, <2>1, <2>2, DirectoryMade
<1> QED BY <1>8, <1>9, <1>10, <1>11, <1>12 DEF CInv

LEMMA PublishExplicitKeeps ==
    ASSUME CInv, NEW c \in Creators, PublishExplicit(c)
    PROVE  CInv'
<1>1. PICK i : i = ask[c].address OBVIOUS
<1>2. /\ pc[c] = "publish" /\ ask[c].kind = "explicit" /\ writer = Nobody
      /\ UNCHANGED <<ask, todo, by, keyed, seq, left, overtaken>>
    BY DEF PublishExplicit, db, budget
<1>3. \/ pc' = [pc EXCEPT ![c] = LastStep(c)] /\ UNCHANGED <<ids, made, dirs, writer>>
      \/ /\ Found(todo[c]) = {} /\ i \notin Live /\ dirs[i] = Nobody
         /\ dirs' = [dirs EXCEPT ![i] = c] /\ made' = [made EXCEPT ![c] = {i}] /\ ids' = [ids EXCEPT ![c] = <<i>>]
         /\ writer' = c /\ pc' = [pc EXCEPT ![c] = "inserting"]
    <2>1. CASE ProducerExact(c) /\ Found(todo[c]) # {} BY <2>1 DEF PublishExplicit, Ends
    <2>2. CASE ProducerExact(c) /\ Found(todo[c]) = {} /\ i \notin Live /\ ~Guarded /\ dirs[i] = Nobody
        BY <1>1, <2>2 DEF PublishExplicit, Goto
    <2>3. CASE /\ ~(ProducerExact(c) /\ Found(todo[c]) # {})
               /\ ~(ProducerExact(c) /\ Found(todo[c]) = {} /\ i \notin Live /\ ~Guarded /\ dirs[i] = Nobody)
        BY <1>1, <2>3 DEF PublishExplicit, Ends
    <2> QED BY <2>1, <2>2, <2>3
<1>4. CASE pc' = [pc EXCEPT ![c] = LastStep(c)] /\ UNCHANGED <<ids, made, dirs, writer>>
    BY <1>2, <1>4, LastSteps, AsideEnds DEF Early
<1>5. CASE /\ Found(todo[c]) = {} /\ i \notin Live /\ dirs[i] = Nobody
           /\ dirs' = [dirs EXCEPT ![i] = c] /\ made' = [made EXCEPT ![c] = {i}] /\ ids' = [ids EXCEPT ![c] = <<i>>]
           /\ writer' = c /\ pc' = [pc EXCEPT ![c] = "inserting"]
    BY <1>1, <1>2, <1>5, InsertBegins
<1> QED BY <1>3, <1>4, <1>5

LEMMA AbortExplicitKeeps ==
    ASSUME CInv, NEW c \in Creators, AbortExplicit(c)
    PROVE  CInv'
<1>1. /\ pc[c] = "inserting" /\ writer' = Nobody
      /\ UNCHANGED <<ask, todo, ids, by, keyed, seq, left, overtaken>>
    BY DEF AbortExplicit, Fault, db
<1>2. /\ pc \in [Creators -> Places] /\ seq \in Nat /\ left \in BOOLEAN
      /\ made \in [Creators -> SUBSET Ids] /\ dirs \in [Ids -> Creators \cup {Nobody}]
    BY DEF CInv, Typed
<1>3. \A d \in Creators \ {c} : pc[d] \notin {"joined", "inserting"} BY <1>1, SoleWriter DEF Joined
<1>4. Busy(c) BY <1>1 DEF Busy
<1>5. PICK a : a = ask[c].address OBVIOUS
<1>6. a \in Ids /\ made[c] = {a} /\ a \notin Live
    <2>1. Fresh(c) /\ ids[c] = <<a>> /\ a \notin Live BY <1>1, <1>5 DEF CInv, Writes
    <2>2. made[c] = {a} BY <2>1 DEF Fresh
    <2> QED BY <1>2, <2>1, <2>2
<1>7. CASE Ends(c, "error") /\ dirs' = [dirs EXCEPT ![ask[c].address] = Nobody] /\ made' = [made EXCEPT ![c] = {}]
    <2>1. PICK R : R = {a} OBVIOUS
    <2>2. dirs' = [i \in Ids |-> IF i \in R THEN Nobody ELSE dirs[i]] BY <1>2, <1>5, <1>6, <1>7, <2>1
    <2>3. PICK p \in {"unlock", "done"} : p = LastStep(c) BY LastSteps
    <2>4. pc' = [pc EXCEPT ![c] = p] BY <1>7, <2>3 DEF Ends
    <2>5. R \in SUBSET made[c] /\ R \cap Live = {} /\ made[c] \subseteq R \cup Live BY <1>6, <2>1
    <2>6. left' \in BOOLEAN /\ (left => left') BY <1>1, <1>2
    <2>7. made' = [made EXCEPT ![c] = {}] /\ UNCHANGED <<ask, todo, ids, by, keyed, seq, overtaken>> BY <1>1, <1>7
    <2> QED BY <1>3, <1>4, <2>2, <2>4, <2>5, <2>6, <2>7, OneEnds
<1>8. CASE CleansUp(c, "error") /\ UNCHANGED <<dirs, made>>
    <2>1. pc' = [pc EXCEPT ![c] = "discard"] BY <1>8 DEF CleansUp
    <2>2. pc' \in [Creators -> Places] /\ pc'[c] = "discard" /\ \A d \in Creators \ {c} : pc'[d] = pc[d]
        BY <1>2, <2>1 DEF Places
    <2>3. Typed' BY <1>1, <1>8, <2>2 DEF CInv, Typed
    <2>4. AllPlaced'
        <3>1. Placed(c)' BY <2>2, PlacedLate
        <3> QED BY <1>1, <1>8, <2>2, <3>1, OthersPlaced
    <2>5. Writes' BY <1>3, <2>2, Unwritten
    <2>6. SequenceAhead'
        <3>1. seq' \in Nat /\ seq <= seq' BY <1>1, <1>2
        <3>2. Live' = Live BY <1>1, SameRows
        <3>3. ~overtaken => \A i \in Live' : i < seq' BY <1>1, <3>2 DEF CInv, SequenceAhead
        <3>4. \A d \in Creators : pc'[d] = pc[d] \/ Below(d)' BY <2>2 DEF Below
        <3> QED BY <1>1, <1>2, <3>1, <3>3, <3>4, AheadStays
    <2>7. \A d \in Creators : Busy(d)' = Busy(d) BY <1>1, <2>2 DEF Busy
    <2>8. OwnDirectories' /\ NoneLeft' /\ RowsHaveInputs' /\ OneJobPerKey' BY <1>1, <1>8, <2>7, DirectoriesKept
    <2> QED BY <2>3, <2>4, <2>5, <2>6, <2>8 DEF CInv
<1> QED BY <1>7, <1>8 DEF AbortExplicit

LEMMA ReserveKeeps ==
    ASSUME CInv, NEW c \in Creators, Reserve(c)
    PROVE  CInv'
<1>1. PICK n : n = Len(todo[c]) OBVIOUS
<1>2. PICK m : m = NextId OBVIOUS
<1>3. PICK q : q = [k \in 1 .. n |-> m + k - 1] OBVIOUS
<1>4. /\ pc[c] = "reserve" /\ writer = Nobody /\ m + n - 1 <= MaxId
      /\ UNCHANGED <<ask, todo, made, by, keyed, dirs, writer, left, overtaken>>
      /\ \/ pc' = [pc EXCEPT ![c] = LastStep(c)] /\ UNCHANGED <<ids, seq>>
         \/ ids' = [ids EXCEPT ![c] = q] /\ seq' = m + n /\ pc' = [pc EXCEPT ![c] = "preparing"]
    BY <1>1, <1>2, <1>3 DEF Reserve, Ends, Goto, budget
<1>5. /\ seq \in Nat /\ todo[c] \in Seq(AllKeys) /\ ids \in [Creators -> Seq(Ids)] /\ pc \in [Creators -> Places]
      /\ Placed(c) /\ Typed /\ SequenceAhead
    BY DEF CInv, Typed, AllPlaced
<1>6. CASE pc' = [pc EXCEPT ![c] = LastStep(c)] /\ UNCHANGED <<ids, seq>>
    BY <1>4, <1>6, LastSteps, AsideEnds DEF Early
<1>7. CASE ids' = [ids EXCEPT ![c] = q] /\ seq' = m + n /\ pc' = [pc EXCEPT ![c] = "preparing"]
    <2>1. m \in Nat \ {0} /\ (~overtaken => seq <= m /\ \A i \in Live : i < m) BY <1>2, <1>5, NextIds
    <2>2. /\ made[c] = {} /\ ask[c].kind = "batch" /\ todo[c] # <<>> /\ Distinct(todo[c])
        BY <1>4, <1>5 DEF Placed, Early
    <2>3. n \in Nat \ {0} BY <1>1, <1>5, <2>2
    <2>4. \A k \in 1 .. n : q[k] = m + k - 1 /\ q[k] \in Ids /\ q[k] < m + n
        BY <1>3, <1>4, <2>1, <2>3, BoundsAreNat DEF Ids
    <2>5. q \in [1 .. n -> Ids] /\ DOMAIN q = 1 .. n BY <1>3, <2>4
    <2>6. q \in Seq(Ids) /\ Len(q) = n BY <2>3, <2>5
    <2>7. OneEach(q) BY <2>1, <2>3, <2>4, <2>5 DEF OneEach
    <2>8. pc' \in [Creators -> Places] /\ pc'[c] = "preparing" /\ \A d \in Creators \ {c} : pc'[d] = pc[d]
        BY <1>5, <1>7 DEF Places
    <2>9. ids' \in [Creators -> Seq(Ids)] /\ ids'[c] = q /\ \A d \in Creators \ {c} : ids'[d] = ids[d]
        BY <1>5, <1>7, <2>6
    <2>10. seq' \in Nat /\ seq' = m + n BY <1>7, <2>1, <2>3
    <2>11. Typed' BY <1>4, <2>8, <2>9, <2>10 DEF CInv, Typed
    <2>12. AllPlaced'
        <3>1. Cardinality(made'[c]) = 0 /\ made'[c] = {} BY <1>4, <2>2, FS_EmptySet
        <3>2. made'[c] = FirstOf(q, 0) BY <3>1 DEF FirstOf
        <3>3. todo'[c] = todo[c] /\ ask'[c].kind = "batch" BY <1>4, <2>2
        <3>4. Placed(c)' BY <1>1, <2>2, <2>3, <2>6, <2>7, <2>8, <2>9, <3>1, <3>2, <3>3 DEF Placed, Early
        <3> QED BY <1>4, <2>8, <2>9, <3>4, OthersPlaced
    <2>13. Writes' BY <1>4, <2>8, NoWriter, Unwritten
    <2>14. Live' = Live BY <1>4, SameRows
    <2>15. SequenceAhead'
        <3> SUFFICES ASSUME ~overtaken PROVE (\A i \in Live : i < seq') /\ \A d \in Creators : Below(d)'
            BY <1>4, <2>14 DEF SequenceAhead
        <3>1. seq <= seq' BY <1>5, <2>1, <2>3, <2>10
        <3>2. Live \subseteq Nat BY IdsAreNat DEF Live
        <3>3. \A i \in Live : i < seq' BY <2>1, <2>3, <2>10, <3>2
        <3>4. Below(c)' BY <2>4, <2>5, <2>9, <2>10 DEF Below
        <3>5. \A d \in Creators : (pc'[d] = pc[d] /\ ids'[d] = ids[d]) \/ (~overtaken => Below(d)')
            BY <2>8, <2>9, <3>4 DEF Below
        <3>6. SequenceAhead' BY <1>4, <1>5, <2>10, <2>14, <3>1, <3>3, <3>5, AheadStays
        <3> QED BY <1>4, <3>3, <3>6 DEF SequenceAhead
    <2>16. \A d \in Creators : (Busy(d) => Busy(d)') /\ (Busy(d)' => Busy(d) \/ made[d] = {})
        BY <1>4, <2>2, <2>8 DEF Busy
    <2>17. OwnDirectories' /\ NoneLeft' /\ RowsHaveInputs' /\ OneJobPerKey' BY <1>4, <2>16, DirectoriesKept
    <2> QED BY <2>11, <2>12, <2>13, <2>15, <2>17 DEF CInv
<1> QED BY <1>4, <1>6, <1>7

LEMMA MakeDirectoryKeeps ==
    ASSUME CInv, NEW c \in Creators, MakeDirectory(c)
    PROVE  CInv'
<1>1. PICK n : n = Cardinality(made[c]) OBVIOUS
<1>2. PICK i : i = ids[c][n + 1] OBVIOUS
<1>3. /\ pc[c] = "preparing" /\ UNCHANGED <<ask, todo, ids, by, keyed, seq, writer, left, overtaken>>
      /\ \/ pc' = [pc EXCEPT ![c] = "discard"] /\ UNCHANGED <<dirs, made>>
         \/ /\ dirs[i] = Nobody /\ dirs' = [dirs EXCEPT ![i] = c] /\ made' = [made EXCEPT ![c] = made[c] \cup {i}]
            /\ pc' = [pc EXCEPT ![c] = IF n + 1 = Len(ids[c]) THEN "commit" ELSE "preparing"]
    BY <1>1, <1>2 DEF MakeDirectory, CleansUp, Goto, db, budget
<1>4. /\ seq \in Nat /\ ids \in [Creators -> Seq(Ids)] /\ pc \in [Creators -> Places]
      /\ made \in [Creators -> SUBSET Ids] /\ dirs \in [Ids -> Creators \cup {Nobody}] /\ Placed(c)
    BY DEF CInv, Typed, AllPlaced
<1>5. CASE pc' = [pc EXCEPT ![c] = "discard"] /\ UNCHANGED <<dirs, made>>
    BY <1>3, <1>5, AsideCleansUp
<1>6. CASE /\ dirs[i] = Nobody /\ dirs' = [dirs EXCEPT ![i] = c] /\ made' = [made EXCEPT ![c] = made[c] \cup {i}]
           /\ pc' = [pc EXCEPT ![c] = IF n + 1 = Len(ids[c]) THEN "commit" ELSE "preparing"]
    <2>1. PICK q : q = ids[c] OBVIOUS
    <2>2. /\ Len(q) = Len(todo[c]) /\ OneEach(q) /\ Distinct(todo[c]) /\ ask[c].kind \in {"batch", "default"}
          /\ ask[c].kind = "default" => \A k \in DOMAIN todo[c] : todo[c][k] = NoKey
          /\ made[c] = FirstOf(q, n) /\ n < Len(q)
        BY <1>1, <1>3, <1>4, <2>1 DEF Placed
    <2>3. made[c] \subseteq Ids /\ IsFiniteSet(made[c]) /\ n \in Nat
        BY <1>1, <1>4, IdsAreNat, FS_Subset, FS_CardinalityType
    <2>4. q \in Seq(Ids) /\ Len(q) \in Nat /\ DOMAIN q = 1 .. Len(q) BY <1>4, <2>1
    <2>5. n + 1 \in DOMAIN q /\ i = q[n + 1] /\ i \in Ids BY <1>2, <2>1, <2>2, <2>3, <2>4
    <2>6. i \notin made[c]
        <3> SUFFICES ASSUME NEW k \in 1 .. n, q[k] = i PROVE FALSE BY <2>2 DEF FirstOf
        <3>1. k \in DOMAIN q /\ k # n + 1 BY <2>2, <2>3, <2>4
        <3> QED BY <2>2, <2>5, <3>1 DEF OneEach
    <2>7. Cardinality(made[c] \cup {i}) = n + 1 BY <1>1, <2>3, <2>6, FS_AddElement
    <2>8. made[c] \cup {i} = FirstOf(q, n + 1)
        <3>1. 1 .. n + 1 = (1 .. n) \cup {n + 1} BY <2>3
        <3> QED BY <2>2, <2>5, <3>1 DEF FirstOf
    <2>9. /\ dirs'[i] = c /\ \A j \in Ids \ {i} : dirs'[j] = dirs[j]
          /\ made'[c] = made[c] \cup {i} /\ dirs' \in [Ids -> Creators \cup {Nobody}]
          /\ made' \in [Creators -> SUBSET Ids] /\ \A d \in Creators \ {c} : made'[d] = made[d]
        BY <1>4, <1>6, <2>5
    <2>10. /\ pc' \in [Creators -> Places] /\ \A d \in Creators \ {c} : pc'[d] = pc[d]
           /\ pc'[c] = IF n + 1 = Len(q) THEN "commit" ELSE "preparing"
        BY <1>4, <1>6, <2>1 DEF Places
    <2>11. Typed' BY <1>3, <2>9, <2>10 DEF CInv, Typed
    <2>12. AllPlaced'
        <3>1. ids'[c] = q /\ todo'[c] = todo[c] /\ ask' = ask BY <1>3, <2>1
        <3>2. (n + 1 # Len(q) => n + 1 < Len(q)) /\ q # <<>> BY <2>2, <2>3, <2>4
        <3>3. Cardinality(made'[c]) = n + 1 /\ made'[c] = FirstOf(q, n + 1) BY <2>7, <2>8, <2>9
        <3>4. Placed(c)' BY <2>2, <2>10, <3>1, <3>2, <3>3 DEF Placed, Early
        <3> QED BY <1>3, <2>9, <2>10, <3>4, OthersPlaced
    <2>13. Writes'
        <3>1. \A j \in Ids : dirs[j] # Nobody => dirs'[j] = dirs[j] BY <1>6, <2>9
        <3> QED BY <1>3, <2>9, <2>10, <3>1, WritesBeside
    <2>14. SequenceAhead'
        <3>1. seq' \in Nat /\ seq <= seq' BY <1>3, <1>4
        <3>2. Live' = Live BY <1>3, SameRows
        <3>3. ~overtaken => \A j \in Live' : j < seq' BY <1>3, <3>2 DEF CInv, SequenceAhead
        <3>4. Below(c) => Below(c)' BY <1>3 DEF Below
        <3>5. ~overtaken => Below(c) BY DEF CInv, SequenceAhead
        <3>6. \A d \in Creators : (pc'[d] = pc[d] /\ ids'[d] = ids[d]) \/ (~overtaken => Below(d)')
            BY <1>3, <2>10, <3>4, <3>5 DEF Below
        <3> QED BY <1>3, <1>4, <3>1, <3>3, <3>6, AheadStays
    <2>15. OwnDirectories' /\ NoneLeft' /\ RowsHaveInputs' /\ OneJobPerKey'
        <3>1. Busy(c)' /\ Busy(c) BY <1>3, <2>10 DEF Busy
        <3> QED BY <1>3, <1>6, <2>5, <2>10, <3>1, DirectoryMade
    <2> QED BY <2>11, <2>12, <2>13, <2>14, <2>15 DEF CInv
<1> QED BY <1>3, <1>5, <1>6

-----------------------------------------------------------------------------
(***************************************************************************)
(* New rows.                                                               *)
(***************************************************************************)
Rowy(new) ==
    /\ DOMAIN new \subseteq Ids
    /\ \A i \in DOMAIN new : /\ new[i].by \in Creators /\ new[i].key \in AllKeys
                             /\ Resolves(new[i].key) = {} /\ (~overtaken => dirs[i] = new[i].by)
    /\ \A i, j \in DOMAIN new : new[i].key = new[j].key => i = j \/ new[i].key = NoKey

LEMMA RowsGrow ==
    ASSUME CInv, NEW new, Rowy(new), Register(new), dirs' = dirs, overtaken' = overtaken
    PROVE  /\ Live' = Live \cup DOMAIN new
           /\ by' \in [Ids -> Creators \cup {Nobody}] /\ keyed' \in [Ids -> AllKeys]
           /\ RowsHaveInputs' /\ OneJobPerKey'
<1>1. by \in [Ids -> Creators \cup {Nobody}] /\ keyed \in [Ids -> AllKeys] BY DEF CInv, Typed
<1>2. PICK D : D = DOMAIN new OBVIOUS
<1>3. /\ D \subseteq Ids
      /\ \A i \in D : /\ new[i].by \in Creators /\ new[i].key \in AllKeys
                      /\ Resolves(new[i].key) = {} /\ (~overtaken => dirs[i] = new[i].by)
      /\ \A i, j \in D : new[i].key = new[j].key => i = j \/ new[i].key = NoKey
    BY <1>2 DEF Rowy
<1>4. /\ by' = [i \in Ids |-> IF i \in D THEN new[i].by ELSE by[i]]
      /\ keyed' = [i \in Ids |-> IF i \in D THEN new[i].key ELSE keyed[i]]
    BY <1>2 DEF Register
<1>5. \A i \in Ids : i \in D => by'[i] = new[i].by /\ keyed'[i] = new[i].key BY <1>4
<1>6. \A i \in Ids : i \notin D => by'[i] = by[i] /\ keyed'[i] = keyed[i] BY <1>4
<1>7. Nobody \notin Creators BY AsksAreValid
<1>8. Live' = Live \cup D BY <1>3, <1>5, <1>6, <1>7 DEF Live
<1>9. by' \in [Ids -> Creators \cup {Nobody}] /\ keyed' \in [Ids -> AllKeys] BY <1>1, <1>3, <1>4
<1>10. Live \subseteq Ids BY DEF Live
<1>11. RowsHaveInputs'
    <2> SUFFICES ASSUME ~overtaken, NEW i \in Live \cup D PROVE dirs[i] = by'[i]
        BY <1>8 DEF RowsHaveInputs
    <2>1. CASE i \in D BY <1>3, <1>5, <2>1
    <2>2. CASE i \notin D
        <3>1. dirs[i] = by[i] BY <2>2 DEF CInv, RowsHaveInputs
        <3> QED BY <1>6, <1>10, <2>2, <3>1
    <2> QED BY <2>1, <2>2
<1>12. \A i, j \in Live : keyed[i] # NoKey /\ keyed[i] = keyed[j] => i = j BY DEF CInv, OneJobPerKey
<1>13. \A i \in D : \A j \in Live : keyed[j] = new[i].key => new[i].key = NoKey BY <1>3 DEF Resolves
<1>14. OneJobPerKey'
    <2> SUFFICES ASSUME NEW i \in Live \cup D, NEW j \in Live \cup D, keyed'[i] # NoKey, keyed'[i] = keyed'[j]
                 PROVE  i = j
        BY <1>8 DEF OneJobPerKey
    <2>1. i \in Ids /\ j \in Ids BY <1>3, <1>10
    <2>2. CASE i \in D /\ j \in D BY <1>3, <1>5, <2>1, <2>2
    <2>3. CASE i \in D /\ j \notin D BY <1>5, <1>6, <1>13, <2>1, <2>3
    <2>4. CASE i \notin D /\ j \in D BY <1>5, <1>6, <1>13, <2>1, <2>4
    <2>5. CASE i \notin D /\ j \notin D BY <1>6, <1>12, <2>1, <2>5
    <2> QED BY <2>2, <2>3, <2>4, <2>5
<1> QED BY <1>2, <1>8, <1>9, <1>11, <1>14

(* The rows of one creator, or of those of its jobs that N names.          *)
LEMMA OwnRows ==
    ASSUME CInv, NEW c \in Creators, OneEach(ids[c]), Len(ids[c]) = Len(todo[c]), Distinct(todo[c]),
           NEW N \in SUBSET DOMAIN ids[c], NEW new, DOMAIN new = {ids[c][n] : n \in N},
           \A i \in DOMAIN new : new[i] = NewRows(c)[i],
           \A n \in N : Resolves(todo[c][n]) = {} /\ (~overtaken => dirs[ids[c][n]] = c)
    PROVE  Rowy(new)
<1>1. PICK q : q = ids[c] OBVIOUS
<1>2. PICK ks : ks = todo[c] OBVIOUS
<1>3. q \in Seq(Ids) /\ ks \in Seq(AllKeys) BY <1>1, <1>2 DEF CInv, Typed
<1>4. DOMAIN q = DOMAIN ks /\ (\A n \in DOMAIN q : q[n] \in Ids /\ ks[n] \in AllKeys) BY <1>1, <1>2, <1>3
<1>5. OneEach(q) /\ Distinct(ks) /\ N \subseteq DOMAIN q /\ DOMAIN new = {q[n] : n \in N} BY <1>1, <1>2
<1>6. ASSUME NEW n \in N PROVE new[q[n]].by = c /\ new[q[n]].key = ks[n]
    <2>1. PICK i : i = q[n] OBVIOUS
    <2>2. i \in DOMAIN new /\ i \in {q[m] : m \in DOMAIN q} BY <1>5, <2>1
    <2>3. PICK m : m = CHOOSE k \in DOMAIN q : q[k] = i OBVIOUS
    <2>4. m \in DOMAIN q /\ q[m] = i BY <1>5, <2>1, <2>3
    <2>5. m = n BY <1>5, <2>1, <2>4 DEF OneEach
    <2>6. NewRows(c)[i] = [by |-> c, key |-> ks[m]] BY <1>1, <1>2, <2>2, <2>3 DEF NewRows
    <2>7. new[i] = [by |-> c, key |-> ks[n]] BY <2>2, <2>5, <2>6
    <2> QED BY <2>1, <2>7
<1>7. \A i \in DOMAIN new : \E n \in N : i = q[n] BY <1>5
<1>8. DOMAIN new \subseteq Ids BY <1>4, <1>5, <1>7
<1>9. ASSUME NEW i \in DOMAIN new
      PROVE  /\ new[i].by \in Creators /\ new[i].key \in AllKeys
             /\ Resolves(new[i].key) = {} /\ (~overtaken => dirs[i] = new[i].by)
    <2>1. PICK n \in N : i = q[n] BY <1>7
    <2>2. new[i].by = c /\ new[i].key = ks[n] BY <1>6, <2>1
    <2>3. Resolves(ks[n]) = {} /\ (~overtaken => dirs[i] = c) BY <1>1, <1>2, <2>1
    <2> QED BY <1>4, <1>5, <2>2, <2>3
<1>10. ASSUME NEW i \in DOMAIN new, NEW j \in DOMAIN new, new[i].key = new[j].key
       PROVE  i = j \/ new[i].key = NoKey
    <2>1. PICK n \in N : i = q[n] BY <1>7
    <2>2. PICK m \in N : j = q[m] BY <1>7
    <2>3. new[i].key = ks[n] /\ new[j].key = ks[m] BY <1>6, <2>1, <2>2
    <2> QED BY <1>4, <1>5, <1>10, <2>1, <2>2, <2>3 DEF Distinct
<1> QED BY <1>8, <1>9, <1>10 DEF Rowy

(* One creator commits the rows new, ends or cleans up.                    *)
LEMMA CommitKeeps ==
    ASSUME CInv, NEW c \in Creators, NEW new, Rowy(new), Register(new), Busy(c),
           NEW p \in {"unlock", "done", "discard"}, pc' = [pc EXCEPT ![c] = p],
           \A d \in Creators \ {c} : pc[d] \notin {"joined", "inserting"},
           NEW m \in SUBSET made[c], made' = [made EXCEPT ![c] = m],
           made[c] \subseteq m \cup DOMAIN new, p = "discard" \/ made[c] \subseteq DOMAIN new,
           seq' \in Nat, seq <= seq', ~overtaken => \A i \in DOMAIN new : i < seq',
           UNCHANGED <<ask, todo, ids, dirs, left, overtaken>>
    PROVE  CInv'
<1>1. /\ seq \in Nat /\ pc \in [Creators -> Places] /\ made \in [Creators -> SUBSET Ids] BY DEF CInv, Typed
<1>2. /\ pc' \in [Creators -> Places] /\ pc'[c] = p /\ made' \in [Creators -> SUBSET Ids] /\ made'[c] = m
      /\ \A d \in Creators \ {c} : pc'[d] = pc[d] /\ made'[d] = made[d]
    BY <1>1 DEF Places
<1>3. /\ Live' = Live \cup DOMAIN new
      /\ by' \in [Ids -> Creators \cup {Nobody}] /\ keyed' \in [Ids -> AllKeys]
      /\ RowsHaveInputs' /\ OneJobPerKey'
    BY RowsGrow
<1>4. Typed' BY <1>2, <1>3 DEF CInv, Typed
<1>5. AllPlaced'
    <2>1. Placed(c)' BY <1>2, PlacedLate
    <2> QED BY <1>2, <2>1, OthersPlaced
<1>6. Writes'
    <2>1. \A d \in Creators : pc'[d] \notin {"joined", "inserting"} BY <1>2
    <2> QED BY <2>1, Unwritten
<1>7. SequenceAhead'
    <2>1. ~overtaken => \A i \in Live' : i < seq'
        <3> SUFFICES ASSUME ~overtaken, NEW i \in Live, i \notin DOMAIN new PROVE i < seq' BY <1>3
        <3>1. i < seq BY DEF CInv, SequenceAhead
        <3>2. i \in Nat BY IdsAreNat DEF Live
        <3> QED BY <1>1, <3>1, <3>2
    <2>2. \A d \in Creators : (pc'[d] = pc[d] /\ ids'[d] = ids[d]) \/ Below(d)' BY <1>2 DEF Below
    <2> QED BY <1>1, <2>1, <2>2, AheadStays
<1>8. \A d \in Creators : Busy(d)' => Busy(d) /\ made'[d] \subseteq made[d] BY <1>2 DEF Busy
<1>9. OwnDirectories' BY <1>8 DEF CInv, OwnDirectories
<1>10. NoneLeft'
    <2> SUFFICES ASSUME ~left, NEW i \in Ids, NEW d, d = dirs[i], d # Nobody
                 PROVE  i \in Live \cup DOMAIN new \/ (Busy(d)' /\ i \in made'[d])
        BY <1>3 DEF NoneLeft, Busy
    <2>1. d \in Creators BY DEF CInv, Typed
    <2>2. i \in Live \/ (Busy(d) /\ i \in made[d]) BY DEF CInv, NoneLeft
    <2>3. CASE d = c
        <3>1. p = "discard" => Busy(d)' BY <1>2, <2>3 DEF Busy
        <3> QED BY <1>2, <2>2, <2>3, <3>1
    <2>4. CASE d # c
        <3>1. Busy(d)' = Busy(d) BY <1>2, <2>1, <2>4 DEF Busy
        <3> QED BY <1>2, <2>1, <2>2, <2>4, <3>1
    <2> QED BY <2>3, <2>4
<1> QED BY <1>3, <1>4, <1>5, <1>6, <1>7, <1>9, <1>10 DEF CInv

LEMMA AheadOf ==
    ASSUME NEW i \in Nat, seq \in Nat
    PROVE  Ahead(i) \in Nat /\ seq <= Ahead(i) /\ i < Ahead(i)
<1>1. PICK S : S = {seq, i + 1} OBVIOUS
<1>2. PICK b \in Nat : b = seq + i + 1 OBVIOUS
<1>3. S \in SUBSET (0 .. b) /\ S # {} BY <1>1, <1>2
<1>4. Max(S) \in S /\ \A y \in S : Max(S) >= y BY <1>3, Greatest
<1>5. PICK x : x = Max(S) OBVIOUS
<1>6. x \in Nat /\ x >= seq /\ x >= i + 1 BY <1>1, <1>4, <1>5
<1>7. Ahead(i) = IF seq = 0 THEN i + 1 ELSE x BY <1>1, <1>5 DEF Ahead
<1> QED BY <1>6, <1>7

LEMMA CommitExplicitKeeps ==
    ASSUME CInv, NEW c \in Creators, CommitExplicit(c)
    PROVE  CInv'
<1>1. PICK a : a = ask[c].address OBVIOUS
<1>2. PICK new : new = NewRows(c) OBVIOUS
<1>3. /\ pc[c] = "inserting" /\ Register(new) /\ seq' = Ahead(a)
      /\ pc' = [pc EXCEPT ![c] = LastStep(c)] \/ pc' = [pc EXCEPT ![c] = "discard"]
      /\ UNCHANGED <<ask, todo, ids, made, dirs, left, overtaken>>
    BY <1>1, <1>2 DEF CommitExplicit, Ends, CleansUp, NoFault, Fault, budget, made_vars
<1>4. Fresh(c) /\ ids[c] = <<a>> /\ a \notin Live BY <1>1, <1>3 DEF CInv, Writes
<1>5. made[c] = {a} /\ Len(todo[c]) = 1 /\ dirs[a] = c /\ Resolves(todo[c][1]) = {} BY <1>4 DEF Fresh
<1>6. seq \in Nat /\ made \in [Creators -> SUBSET Ids] /\ todo[c] \in Seq(AllKeys) BY DEF CInv, Typed
<1>7. a \in Nat BY <1>5, <1>6, IdsAreNat
<1>8. DOMAIN ids[c] = {1} /\ DOMAIN todo[c] = {1} /\ Len(ids[c]) = 1 /\ ids[c][1] = a BY <1>4, <1>5, <1>6
<1>9. DOMAIN new = {a}
    <2>1. DOMAIN new = {ids[c][n] : n \in DOMAIN ids[c]} BY <1>2 DEF NewRows
    <2> QED BY <1>8, <2>1
<1>10. OneEach(ids[c]) /\ Distinct(todo[c]) BY <1>8 DEF OneEach, Distinct
<1>11. Rowy(new)
    <2>1. PICK N : N = DOMAIN ids[c] OBVIOUS
    <2>2. N \in SUBSET DOMAIN ids[c] /\ DOMAIN new = {ids[c][n] : n \in N} BY <1>8, <1>9, <2>1
    <2>3. \A n \in N : Resolves(todo[c][n]) = {} /\ (~overtaken => dirs[ids[c][n]] = c) BY <1>5, <1>8, <2>1
    <2>4. \A i \in DOMAIN new : new[i] = NewRows(c)[i] BY <1>2
    <2>5. Len(ids[c]) = Len(todo[c]) BY <1>5, <1>8
    <2> QED BY <1>10, <2>2, <2>3, <2>4, <2>5, OwnRows
<1>12. seq' \in Nat /\ seq <= seq' /\ a < seq' BY <1>3, <1>6, <1>7, AheadOf
<1>13. Busy(c) /\ \A d \in Creators \ {c} : pc[d] \notin {"joined", "inserting"}
    BY <1>3, SoleWriter DEF Joined, Busy
<1>14. PICK p \in {"unlock", "done", "discard"} : pc' = [pc EXCEPT ![c] = p] BY <1>3, LastSteps
<1>15. PICK m \in SUBSET made[c] : m = made[c] OBVIOUS
<1>16. made' = [made EXCEPT ![c] = m] BY <1>3, <1>6, <1>15
<1>17. made[c] \subseteq m \cup DOMAIN new /\ made[c] \subseteq DOMAIN new BY <1>5, <1>9
<1>18. ~overtaken => \A i \in DOMAIN new : i < seq' BY <1>9, <1>12
<1> QED BY <1>3, <1>11, <1>12, <1>13, <1>14, <1>16, <1>17, <1>18, CommitKeeps

LEMMA AtCommit ==
    ASSUME CInv, NEW c \in Creators, pc[c] = "commit"
    PROVE  /\ made[c] = {ids[c][n] : n \in DOMAIN ids[c]} /\ DOMAIN ids[c] = DOMAIN todo[c] /\ DOMAIN ids[c] # {}
           /\ Len(ids[c]) = Len(todo[c]) /\ OneEach(ids[c]) /\ Distinct(todo[c])
           /\ ask[c].kind = "default" => \A n \in DOMAIN todo[c] : todo[c][n] = NoKey
           /\ ~overtaken => \A n \in DOMAIN ids[c] : dirs[ids[c][n]] = c
           /\ \A n \in DOMAIN ids[c] : ids[c][n] \in Ids
           /\ Busy(c)
<1>1. Placed(c) /\ ids[c] \in Seq(Ids) /\ todo[c] \in Seq(AllKeys) BY DEF CInv, AllPlaced, Typed
<1>2. /\ Len(ids[c]) = Len(todo[c]) /\ OneEach(ids[c]) /\ Distinct(todo[c])
      /\ ask[c].kind = "default" => \A n \in DOMAIN todo[c] : todo[c][n] = NoKey
      /\ made[c] = FirstOf(ids[c], Len(ids[c])) /\ ids[c] # <<>>
    BY <1>1 DEF Placed
<1>3. DOMAIN ids[c] = 1 .. Len(ids[c]) /\ DOMAIN ids[c] = DOMAIN todo[c] /\ DOMAIN ids[c] # {}
    <2>1. DOMAIN ids[c] = 1 .. Len(ids[c]) /\ DOMAIN todo[c] = 1 .. Len(todo[c]) BY <1>1
    <2>2. Len(ids[c]) \in Nat /\ Len(ids[c]) # 0 BY <1>1, <1>2
    <2>3. 1 \in 1 .. Len(ids[c]) BY <2>2
    <2> QED BY <1>2, <2>1, <2>3
<1>4. made[c] = {ids[c][n] : n \in DOMAIN ids[c]} BY <1>2, <1>3 DEF FirstOf
<1>5. Busy(c) BY DEF Busy
<1>6. ~overtaken => \A n \in DOMAIN ids[c] : dirs[ids[c][n]] = c BY <1>4, <1>5 DEF CInv, OwnDirectories
<1>7. \A n \in DOMAIN ids[c] : ids[c][n] \in Ids BY <1>1
<1> QED BY <1>2, <1>3, <1>4, <1>5, <1>6, <1>7

LEMMA CommitBatchKeeps ==
    ASSUME CInv, NEW c \in Creators, CommitBatch(c)
    PROVE  CInv'
<1>1. PICK N : N = BatchNew(c) OBVIOUS
<1>2. PICK new : new = [i \in {ids[c][n] : n \in N} |-> NewRows(c)[i]] OBVIOUS
<1>3. DOMAIN new = {ids[c][n] : n \in N} /\ \A i \in DOMAIN new : new[i] = NewRows(c)[i] BY <1>2
<1>4. PICK lose : lose = made[c] \ DOMAIN new OBVIOUS
<1>5. /\ pc[c] = "commit" /\ ask[c].kind = "batch" /\ writer = Nobody
      /\ UNCHANGED <<ask, todo, ids, seq, dirs, writer, left, overtaken>>
      /\ \/ pc' = [pc EXCEPT ![c] = "discard"] /\ UNCHANGED <<by, keyed, made>>
         \/ /\ Register(new)
            /\ \/ /\ made' = [made EXCEPT ![c] = lose]
                  /\ pc' = [pc EXCEPT ![c] = IF lose = {} THEN LastStep(c) ELSE "discard"]
               \/ pc' = [pc EXCEPT ![c] = "discard"] /\ UNCHANGED made
    BY <1>1, <1>2, <1>4 DEF CommitBatch, Ends, CleansUp, NoFault, Fault, budget
<1>6. CASE pc' = [pc EXCEPT ![c] = "discard"] /\ UNCHANGED <<by, keyed, made>>
    BY <1>5, <1>6, AsideCleansUp
<1>7. CASE /\ Register(new)
           /\ \/ /\ made' = [made EXCEPT ![c] = lose]
                 /\ pc' = [pc EXCEPT ![c] = IF lose = {} THEN LastStep(c) ELSE "discard"]
              \/ pc' = [pc EXCEPT ![c] = "discard"] /\ UNCHANGED made
    <2>1. /\ made[c] = {ids[c][n] : n \in DOMAIN ids[c]} /\ Len(ids[c]) = Len(todo[c])
          /\ OneEach(ids[c]) /\ Distinct(todo[c]) /\ Busy(c)
          /\ ~overtaken => \A n \in DOMAIN ids[c] : dirs[ids[c][n]] = c
          /\ \A n \in DOMAIN ids[c] : ids[c][n] \in Ids
        BY <1>5, AtCommit
    <2>2. N \in SUBSET DOMAIN ids[c] /\ \A n \in N : Resolves(todo[c][n]) = {} BY <1>1 DEF BatchNew
    <2>3. Rowy(new)
        <3>1. \A n \in N : Resolves(todo[c][n]) = {} /\ (~overtaken => dirs[ids[c][n]] = c) BY <2>1, <2>2
        <3> QED BY <1>3, <2>1, <2>2, <3>1, OwnRows
    <2>4. seq \in Nat /\ made \in [Creators -> SUBSET Ids] BY DEF CInv, Typed
    <2>5. seq' \in Nat /\ seq <= seq' BY <1>5, <2>4
    <2>6. ~overtaken => \A i \in DOMAIN new : i < seq'
        <3>1. ~overtaken => \A n \in DOMAIN ids[c] : ids[c][n] < seq BY <1>5 DEF CInv, SequenceAhead, Below
        <3> QED BY <1>3, <1>5, <2>2, <3>1
    <2>7. \A d \in Creators \ {c} : pc[d] \notin {"joined", "inserting"} BY <1>5, NoWriter
    <2>8. PICK m \in SUBSET made[c], p \in {"unlock", "done", "discard"} :
              /\ made' = [made EXCEPT ![c] = m] /\ pc' = [pc EXCEPT ![c] = p]
              /\ made[c] \subseteq m \cup DOMAIN new
              /\ p = "discard" \/ made[c] \subseteq DOMAIN new
        <3>1. CASE made' = [made EXCEPT ![c] = lose] /\ pc' = [pc EXCEPT ![c] = IF lose = {} THEN LastStep(c) ELSE "discard"]
            <4>1. lose \in SUBSET made[c] /\ made[c] \subseteq lose \cup DOMAIN new BY <1>4
            <4>2. CASE lose = {}
                <5>1. pc' = [pc EXCEPT ![c] = LastStep(c)] /\ made[c] \subseteq DOMAIN new BY <1>4, <3>1, <4>2
                <5> QED BY <3>1, <4>1, <5>1, LastSteps
            <4>3. CASE lose # {}
                <5>1. pc' = [pc EXCEPT ![c] = "discard"] BY <3>1, <4>3
                <5> QED BY <3>1, <4>1, <5>1
            <4> QED BY <4>2, <4>3
        <3>2. CASE pc' = [pc EXCEPT ![c] = "discard"] /\ UNCHANGED made
            <4>1. made' = [made EXCEPT ![c] = made[c]] BY <2>4, <3>2
            <4> QED BY <3>2, <4>1
        <3> QED BY <1>7, <3>1, <3>2
    <2> QED BY <1>5, <1>7, <2>1, <2>3, <2>5, <2>6, <2>7, <2>8, CommitKeeps
<1> QED BY <1>5, <1>6, <1>7

LEMMA CommitDefaultKeeps ==
    ASSUME CInv, NEW c \in Creators, CommitDefault(c)
    PROVE  CInv'
<1>1. PICK want : want = {ids[c][n] : n \in DOMAIN ids[c]} OBVIOUS
<1>2. PICK new : new = NewRows(c) OBVIOUS
<1>3. DOMAIN new = want /\ \A i \in DOMAIN new : new[i] = NewRows(c)[i] BY <1>1, <1>2 DEF NewRows
<1>4. /\ pc[c] = "commit" /\ ask[c].kind = "default" /\ writer = Nobody
      /\ UNCHANGED <<ask, todo, ids, made, dirs, writer, left, overtaken>>
      /\ \/ pc' = [pc EXCEPT ![c] = "discard"] /\ UNCHANGED <<by, keyed, seq>>
         \/ /\ Register(new) /\ seq' = Ahead(Max(want))
            /\ pc' = [pc EXCEPT ![c] = LastStep(c)] \/ pc' = [pc EXCEPT ![c] = "discard"]
    BY <1>1, <1>2 DEF CommitDefault, Ends, CleansUp, NoFault, Fault, budget
<1>5. CASE pc' = [pc EXCEPT ![c] = "discard"] /\ UNCHANGED <<by, keyed, seq>>
    BY <1>4, <1>5, AsideCleansUp
<1>6. CASE /\ Register(new) /\ seq' = Ahead(Max(want))
           /\ pc' = [pc EXCEPT ![c] = LastStep(c)] \/ pc' = [pc EXCEPT ![c] = "discard"]
    <2>1. /\ made[c] = want /\ Len(ids[c]) = Len(todo[c]) /\ want # {} /\ DOMAIN ids[c] = DOMAIN todo[c]
          /\ OneEach(ids[c]) /\ Distinct(todo[c]) /\ Busy(c)
          /\ \A n \in DOMAIN todo[c] : todo[c][n] = NoKey
          /\ ~overtaken => \A n \in DOMAIN ids[c] : dirs[ids[c][n]] = c
        <3>1. /\ made[c] = want /\ Len(ids[c]) = Len(todo[c]) /\ DOMAIN ids[c] # {} /\ DOMAIN ids[c] = DOMAIN todo[c]
              /\ OneEach(ids[c]) /\ Distinct(todo[c]) /\ Busy(c)
              /\ \A n \in DOMAIN todo[c] : todo[c][n] = NoKey
              /\ ~overtaken => \A n \in DOMAIN ids[c] : dirs[ids[c][n]] = c
            BY <1>1, <1>4, AtCommit
        <3>2. PICK n : n \in DOMAIN ids[c] BY <3>1
        <3>3. ids[c][n] \in want BY <1>1, <3>2
        <3> QED BY <3>1, <3>3
    <2>2. Rowy(new)
        <3>1. PICK N : N = DOMAIN ids[c] OBVIOUS
        <3>2. N \in SUBSET DOMAIN ids[c] /\ DOMAIN new = {ids[c][n] : n \in N} BY <1>1, <1>3, <3>1
        <3>3. \A n \in N : Resolves(todo[c][n]) = {} /\ (~overtaken => dirs[ids[c][n]] = c)
            BY <2>1, <3>1 DEF Resolves
        <3> QED BY <1>3, <2>1, <3>2, <3>3, OwnRows
    <2>3. seq \in Nat /\ made \in [Creators -> SUBSET Ids] BY DEF CInv, Typed
    <2>4. want \in SUBSET (0 .. MaxId) /\ MaxId \in Nat BY <2>1, <2>3, IdsAreNat, BoundsAreNat
    <2>5. Max(want) \in want /\ \A y \in want : Max(want) >= y BY <2>1, <2>4, Greatest
    <2>6. PICK x : x = Max(want) OBVIOUS
    <2>7. x \in Nat /\ \A y \in want : y \in Nat /\ x >= y
        <3>1. \A y \in want : y \in 0 .. MaxId BY <2>4
        <3>2. \A y \in want : y \in Nat BY <2>4, <3>1
        <3> QED BY <2>5, <2>6, <3>2
    <2>8. seq' \in Nat /\ seq <= seq' /\ x < seq' BY <1>6, <2>3, <2>6, <2>7, AheadOf
    <2>9. ~overtaken => \A i \in DOMAIN new : i < seq' BY <1>3, <2>7, <2>8
    <2>10. \A d \in Creators \ {c} : pc[d] \notin {"joined", "inserting"} BY <1>4, NoWriter
    <2>11. PICK p \in {"unlock", "done", "discard"} : pc' = [pc EXCEPT ![c] = p] BY <1>6, LastSteps
    <2>12. PICK m \in SUBSET made[c] : m = made[c] OBVIOUS
    <2>13. made' = [made EXCEPT ![c] = m] BY <1>4, <2>3, <2>12
    <2>14. made[c] \subseteq m \cup DOMAIN new /\ made[c] \subseteq DOMAIN new BY <1>3, <2>1
    <2> QED BY <1>4, <1>6, <2>1, <2>2, <2>8, <2>9, <2>10, <2>11, <2>13, <2>14, CommitKeeps
<1> QED BY <1>4, <1>5, <1>6

LEMMA CommitGroupKeeps ==
    ASSUME CInv, CommitGroup
    PROVE  CInv'
<1>1. PICK P : P = Pending OBVIOUS
<1>2. PICK new : new = [i \in P |-> [by |-> dirs[i], key |-> todo[dirs[i]][1]]] OBVIOUS
<1>3. /\ writer = Group /\ Register(new) /\ seq' = (IF P = {} THEN seq ELSE GroupNext)
      /\ UNCHANGED <<ask, todo, ids, made, dirs, left, overtaken>>
    BY <1>1, <1>2 DEF CommitGroup, NoFault, Fault, budget, made_vars
<1>4. PICK lost \in SUBSET Joined :
          pc' = [c \in Creators |-> IF c \in lost THEN "discard" ELSE IF c \in Joined THEN "done" ELSE pc[c]]
    BY DEF CommitGroup
<1>5. /\ \A i \in P : /\ i \in Ids /\ dirs[i] \in Joined
                      /\ Fresh(dirs[i]) /\ made[dirs[i]] = {i} /\ ids[dirs[i]] = <<i>>
      /\ \A c \in Joined : c \in Creators /\ Busy(c) /\ made[c] \subseteq P
    BY <1>1, Members
<1>6. /\ P \in SUBSET Ids /\ Cardinality(P) \in Nat /\ NextId \in Nat \ {0}
      /\ GroupNext = NextId + Cardinality(P) /\ P = NextId .. GroupNext - 1
    BY <1>1, PendingAhead
<1>7. /\ seq \in Nat /\ pc \in [Creators -> Places] /\ todo \in [Creators -> Seq(AllKeys)] /\ Typed /\ SequenceAhead
    BY DEF CInv, Typed
<1>8. DOMAIN new = P /\ \A i \in P : new[i].by = dirs[i] /\ new[i].key = todo[dirs[i]][1] BY <1>2
<1>9. \A i \in P : todo[dirs[i]] \in Seq(AllKeys) /\ Len(todo[dirs[i]]) = 1 /\ Resolves(todo[dirs[i]][1]) = {}
    BY <1>5, <1>7 DEF Fresh
<1>10. Rowy(new)
    <2>1. \A i \in P : todo[dirs[i]][1] \in AllKeys /\ todo[dirs[i]] = <<todo[dirs[i]][1]>> BY <1>9
    <2>2. \A c, d \in Joined : made[c] # {} /\ made[d] # {} /\ todo[c] = todo[d] => c = d \/ todo[c] = <<NoKey>>
        BY DEF CInv, Writes
    <2>3. ASSUME NEW i \in P, NEW j \in P, new[i].key = new[j].key PROVE i = j \/ new[i].key = NoKey
        <3>1. PICK c \in Joined : c = dirs[i] /\ made[c] = {i} BY <1>5
        <3>2. PICK d \in Joined : d = dirs[j] /\ made[d] = {j} BY <1>5
        <3>3. todo[c][1] = todo[d][1] /\ new[i].key = todo[c][1] BY <1>8, <2>3, <3>1, <3>2
        <3>4. todo[c] = <<todo[c][1]>> /\ todo[d] = <<todo[d][1]>> BY <2>1, <3>1, <3>2
        <3>5. todo[c] = todo[d] BY <3>3, <3>4
        <3>6. c = d \/ todo[c] = <<NoKey>> BY <2>2, <3>1, <3>2, <3>5
        <3>7. CASE c = d BY <3>1, <3>2, <3>7
        <3>8. CASE todo[c] = <<NoKey>> BY <3>3, <3>8
        <3> QED BY <3>6, <3>7, <3>8
    <2>4. \A i \in P : /\ new[i].by \in Creators /\ new[i].key \in AllKeys
                       /\ Resolves(new[i].key) = {} /\ (~overtaken => dirs[i] = new[i].by)
        BY <1>5, <1>8, <1>9, <2>1
    <2> QED BY <1>6, <1>8, <2>3, <2>4 DEF Rowy
<1>11. /\ Live' = Live \cup P
       /\ by' \in [Ids -> Creators \cup {Nobody}] /\ keyed' \in [Ids -> AllKeys]
       /\ RowsHaveInputs' /\ OneJobPerKey'
    BY <1>3, <1>8, <1>10, RowsGrow
<1>12. pc' \in [Creators -> Places] /\ \A c \in Creators \ Joined : pc'[c] = pc[c] BY <1>4, <1>7 DEF Places
<1>13. \A c \in Joined : pc'[c] \in {"done", "discard"} BY <1>4, <1>5
<1>14. seq' \in Nat
    <2>1. GroupNext \in Nat BY <1>6
    <2> QED BY <1>3, <1>7, <2>1
<1>15. Typed' BY <1>3, <1>11, <1>12, <1>14 DEF CInv, Typed
<1>16. AllPlaced'
    <2> SUFFICES ASSUME NEW d \in Creators PROVE Placed(d)' BY DEF AllPlaced
    <2>1. CASE d \in Joined BY <1>13, <2>1, PlacedLate
    <2>2. CASE d \notin Joined
        <3>1. Placed(d) BY DEF CInv, AllPlaced
        <3> QED BY <1>3, <1>12, <2>2, <3>1, PlacedSame
    <2> QED BY <2>1, <2>2
<1>17. Writes'
    <2>1. \A d \in Creators : pc[d] # "inserting" BY <1>3, GroupWriter
    <2>2. \A d \in Creators : pc'[d] \notin {"joined", "inserting"} BY <1>12, <1>13, <2>1 DEF Joined
    <2> QED BY <2>2, Unwritten
<1>18. SequenceAhead'
    <2> SUFFICES ASSUME ~overtaken, ~overtaken' PROVE (\A i \in Live' : i < seq') /\ \A d \in Creators : Below(d)'
        BY <1>3 DEF SequenceAhead
    <2>1. Live \subseteq Nat BY IdsAreNat DEF Live
    <2>2. seq <= NextId /\ \A i \in Live : i < NextId BY <1>7, NextIds
    <2>3. seq <= seq' /\ \A i \in Live' : i < seq'
        <3>1. CASE P = {}
            <4>1. seq' = seq /\ Live' = Live BY <1>3, <1>11, <3>1
            <4> QED BY <1>7, <4>1 DEF SequenceAhead
        <3>2. CASE P # {}
            <4>1. PICK n \in Nat, k \in Nat : n = NextId /\ k = Cardinality(P) /\ seq' = n + k /\ P = n .. n + k - 1
                BY <1>3, <1>6, <3>2
            <4>2. \A i \in Live : i < n + k BY <2>1, <2>2, <4>1
            <4>3. \A i \in P : i < n + k
                <5> SUFFICES ASSUME NEW i \in n .. n + k - 1 PROVE i < n + k BY <4>1
                <5> QED OBVIOUS
            <4>4. seq <= n + k BY <1>7, <2>2, <4>1
            <4> QED BY <1>11, <4>1, <4>2, <4>3, <4>4
        <3> QED BY <3>1, <3>2
    <2>4. \A d \in Joined : Below(d)' BY <1>13 DEF Below
    <2>5. \A d \in Creators : (pc'[d] = pc[d] /\ ids'[d] = ids[d]) \/ (~overtaken => Below(d)') BY <1>3, <1>12, <2>4
    <2>6. SequenceAhead' BY <1>3, <1>7, <1>14, <2>3, <2>5, AheadStays
    <2> QED BY <2>6 DEF SequenceAhead
<1>19. \A d \in Creators : Busy(d)' => Busy(d) BY <1>5, <1>12 DEF Busy
<1>20. OwnDirectories' BY <1>3, <1>19 DEF CInv, OwnDirectories
<1>21. NoneLeft'
    <2> SUFFICES ASSUME ~left, NEW i \in Ids, NEW d, d = dirs[i], d # Nobody
                 PROVE  i \in Live \cup P \/ (Busy(d)' /\ i \in made[d])
        BY <1>3, <1>11 DEF NoneLeft, Busy
    <2>1. d \in Creators BY DEF CInv, Typed
    <2>2. i \in Live \/ (Busy(d) /\ i \in made[d]) BY DEF CInv, NoneLeft
    <2>3. CASE d \in Joined BY <1>5, <2>2, <2>3
    <2>4. CASE d \notin Joined
        <3>1. Busy(d)' = Busy(d) BY <1>12, <2>1, <2>4 DEF Busy
        <3> QED BY <2>2, <3>1
    <2> QED BY <2>3, <2>4
<1> QED BY <1>11, <1>15, <1>16, <1>17, <1>18, <1>20, <1>21 DEF CInv

-----------------------------------------------------------------------------
(***************************************************************************)
(* The other session, and the rest of the steps.                           *)
(***************************************************************************)
LEMMA DeleteJobsKeeps ==
    ASSUME CInv, DeleteJobs
    PROVE  CInv'
<1>1. /\ writer = Nobody /\ UNCHANGED <<ask, pc, todo, ids, made, left>>
    BY DEF DeleteJobs, made_vars
<1>2. PICK gone \in SUBSET Live :
          /\ by' = [i \in Ids |-> IF i \in gone THEN Nobody ELSE by[i]]
          /\ keyed' = [i \in Ids |-> IF i \in gone THEN NoKey ELSE keyed[i]]
          /\ dirs' = [i \in Ids |-> IF i \in gone THEN Nobody ELSE dirs[i]]
          /\ seq' = IF gone = {} THEN seq ELSE 1 + Max((Live \ gone) \cup {0})
          /\ overtaken' = (overtaken \/ (gone # {} /\ Unsettled # {}))
    BY DEF DeleteJobs
<1>3. /\ by \in [Ids -> Creators \cup {Nobody}] /\ dirs \in [Ids -> Creators \cup {Nobody}]
      /\ keyed \in [Ids -> AllKeys] /\ seq \in Nat
    BY DEF CInv, Typed
<1>4. Live \subseteq Ids /\ gone \subseteq Ids BY DEF Live
<1>5. \A i \in Ids \ gone : by'[i] = by[i] /\ keyed'[i] = keyed[i] /\ dirs'[i] = dirs[i] BY <1>2
<1>6. \A i \in gone : by'[i] = Nobody /\ dirs'[i] = Nobody BY <1>2, <1>4
<1>7. Live' = Live \ gone BY <1>4, <1>5, <1>6 DEF Live
<1>8. PICK m : m = Max((Live \ gone) \cup {0}) OBVIOUS
<1>9. m \in Nat /\ \A i \in Live \ gone : i \in Nat /\ m >= i
    <2>1. PICK S : S = (Live \ gone) \cup {0} OBVIOUS
    <2>2. MaxId \in Nat /\ 0 \in 0 .. MaxId BY BoundsAreNat
    <2>3. S \in SUBSET (0 .. MaxId) /\ S # {} BY <1>4, <2>1, <2>2, IdsAreNat
    <2>4. Max(S) \in S /\ \A y \in S : Max(S) >= y BY <2>2, <2>3, Greatest
    <2>5. \A y \in S : y \in Nat BY <1>4, <2>1, IdsAreNat
    <2> QED BY <1>8, <2>1, <2>4, <2>5
<1>10. seq' = IF gone = {} THEN seq ELSE 1 + m BY <1>2, <1>8
<1>11. Typed'
    <2>1. by' \in [Ids -> Creators \cup {Nobody}] /\ dirs' \in [Ids -> Creators \cup {Nobody}] BY <1>2, <1>3
    <2>2. keyed' \in [Ids -> AllKeys] BY <1>2, <1>3 DEF AllKeys
    <2>3. seq' \in Nat BY <1>3, <1>9, <1>10
    <2>4. overtaken' \in BOOLEAN BY <1>2 DEF CInv, Typed
    <2> QED BY <1>1, <2>1, <2>2, <2>3, <2>4 DEF CInv, Typed
<1>12. AllPlaced'
    <2> SUFFICES ASSUME NEW d \in Creators PROVE Placed(d)' BY DEF AllPlaced
    <2>1. Placed(d) BY DEF CInv, AllPlaced
    <2> QED BY <1>1, <2>1, PlacedSame
<1>13. \A d \in Creators : pc[d] \notin {"joined", "inserting"} BY <1>1, NoWriter
<1>14. Writes' BY <1>1, <1>13, Unwritten
<1>15. ~overtaken' => ~overtaken /\ (gone = {} \/ \A d \in Creators : ~Busy(d))
    BY <1>2, <1>13 DEF Unsettled, Busy
<1>16. SequenceAhead'
    <2> SUFFICES ASSUME ~overtaken' PROVE (\A i \in Live \ gone : i < seq') /\ \A d \in Creators : Below(d)'
        BY <1>7 DEF SequenceAhead
    <2>1. (\A i \in Live : i < seq) /\ \A d \in Creators : Below(d) BY <1>15 DEF CInv, SequenceAhead
    <2>2. CASE gone = {} BY <1>1, <1>10, <2>1, <2>2 DEF Below
    <2>3. CASE gone # {}
        <3>1. \A i \in Live \ gone : i < seq' BY <1>9, <1>10, <2>3
        <3>2. \A d \in Creators : Below(d)' BY <1>1, <1>15, <2>3 DEF Below, Busy
        <3> QED BY <3>1, <3>2
    <2> QED BY <2>2, <2>3
<1>17. \A d \in Creators : Busy(d)' = Busy(d) BY <1>1 DEF Busy
<1>18. OwnDirectories'
    <2> SUFFICES ASSUME ~overtaken', NEW d \in Creators, Busy(d), NEW i \in made[d]
                 PROVE  dirs'[i] = d
        BY <1>1, <1>17 DEF OwnDirectories
    <2>1. gone = {} /\ dirs[i] = d /\ i \in Ids BY <1>15 DEF CInv, OwnDirectories, Typed
    <2> QED BY <1>5, <2>1
<1>19. NoneLeft'
    <2> SUFFICES ASSUME ~left, NEW i \in Ids, NEW d, d = dirs'[i], d # Nobody
                 PROVE  i \in Live \ gone \/ (Busy(d) /\ i \in made[d])
        BY <1>1, <1>7 DEF NoneLeft, Busy
    <2>1. i \notin gone /\ d = dirs[i] BY <1>5, <1>6
    <2> QED BY <2>1 DEF CInv, NoneLeft
<1>20. RowsHaveInputs'
    <2> SUFFICES ASSUME ~overtaken', NEW i \in Live \ gone PROVE dirs'[i] = by'[i]
        BY <1>7 DEF RowsHaveInputs
    <2>1. dirs[i] = by[i] BY <1>15 DEF CInv, RowsHaveInputs
    <2> QED BY <1>4, <1>5, <2>1
<1>21. OneJobPerKey'
    <2>1. \A i, j \in Live : keyed[i] # NoKey /\ keyed[i] = keyed[j] => i = j BY DEF CInv, OneJobPerKey
    <2> QED BY <1>4, <1>5, <1>7, <2>1 DEF OneJobPerKey
<1> QED BY <1>11, <1>12, <1>14, <1>16, <1>18, <1>19, <1>20, <1>21 DEF CInv

LEMMA NothingCreated ==
    ASSUME CInv, UNCHANGED <<ask, pc, todo, ids, made, by, keyed, seq, dirs, writer, left, overtaken>>
    PROVE  CInv'
<1>1. Typed' BY DEF CInv, Typed
<1>2. AllPlaced'
    <2> SUFFICES ASSUME NEW d \in Creators PROVE Placed(d)' BY DEF AllPlaced
    <2>1. Placed(d) BY DEF CInv, AllPlaced
    <2> QED BY <2>1, PlacedSame
<1>3. Live' = Live /\ (\A k : Resolves(k)' = Resolves(k)) /\ NextId' = NextId BY SameRows, SameNext
<1>4. Joined' = Joined /\ Pending' = Pending BY DEF Joined, Pending
<1>5. GroupNext' = GroupNext BY <1>3, <1>4 DEF GroupNext
<1>6. \A c \in Creators : Fresh(c)' = Fresh(c) BY <1>3 DEF Fresh
<1>7. Writes'
    <2>1. Writes BY DEF CInv
    <2>2. Joined \subseteq Creators BY DEF Joined
    <2> QED BY <1>3, <1>4, <1>5, <1>6, <2>1, <2>2 DEF Writes
<1>8. \A c \in Creators : Below(c)' = Below(c) /\ Busy(c)' = Busy(c) BY DEF Below, Busy
<1>9. SequenceAhead' BY <1>3, <1>8 DEF CInv, SequenceAhead
<1>10. OwnDirectories' /\ NoneLeft' /\ RowsHaveInputs' /\ OneJobPerKey' BY <1>8, DirectoriesKept
<1> QED BY <1>1, <1>2, <1>7, <1>9, <1>10 DEF CInv

LEMMA InitCInv ==
    ASSUME Init
    PROVE  CInv
<1> USE DEF Init
<1>1. ask \in [Creators -> [kind : {"auto", "explicit", "batch", "default", "idle"},
                           keys : Seq(Keys \cup {NoKey}), address : 0 .. MaxId]]
    BY AsksAreValid
<1>2. \A c \in Creators : /\ ask[c].kind \in {"auto", "explicit", "batch", "default", "idle"}
                          /\ ask[c].keys \in Seq(AllKeys)
    BY <1>1 DEF AllKeys
<1>3. \A c \in Creators : /\ pc[c] \in {"start", "lock", "done"} /\ made[c] = {}
                          /\ pc[c] = "lock" => ask[c].kind = "default"
    BY <1>2 DEF First
<1>4. Live = {} BY DEF Live
<1>5. Typed
    <2>1. pc \in [Creators -> Places] BY <1>3 DEF Places
    <2>2. todo \in [Creators -> Seq(AllKeys)] /\ ids \in [Creators -> Seq(Ids)] BY <1>2
    <2> QED BY <2>1, <2>2 DEF Typed, AllKeys
<1>6. AllPlaced BY <1>3 DEF AllPlaced, Placed
<1>7. Writes
    <2>1. Joined = {} BY <1>3 DEF Joined
    <2> QED BY <1>3, <2>1 DEF Writes
<1>8. SequenceAhead BY <1>3, <1>4 DEF SequenceAhead, Below
<1>9. OwnDirectories /\ NoneLeft BY <1>3 DEF OwnDirectories, NoneLeft
<1>10. RowsHaveInputs /\ OneJobPerKey BY <1>4 DEF RowsHaveInputs, OneJobPerKey
<1> QED BY <1>5, <1>6, <1>7, <1>8, <1>9, <1>10 DEF CInv

LEMMA StepKeeps ==
    ASSUME CInv, [Next]_vars
    PROVE  CInv'
<1>1. CASE UNCHANGED vars BY <1>1, NothingCreated DEF vars, made_vars, db, budget
<1>2. ASSUME NEW c \in Creators, Step(c) PROVE CInv'
    BY <1>2, RefuseKeeps, AddKeeps, LockNodeKeeps, UnlockKeeps, JoinKeeps, RecheckKeeps, PublishExplicitKeeps,
       CommitExplicitKeeps, ReserveKeeps, ListDefaultKeeps, MakeDirectoryKeeps, CommitBatchKeeps,
       CommitDefaultKeeps, DiscardKeeps, Zenon DEF Step
<1>3. ASSUME NEW c \in Creators, RestartProducer(c) PROVE CInv'
    BY <1>3, NothingCreated DEF RestartProducer, Fault, made_vars, db
<1>4. ASSUME NEW c \in Creators, AbortExplicit(c) \/ CommitFails(c) \/ LockTimesOut(c) \/ DiscardFails(c)
      PROVE  CInv'
    BY <1>4, AbortExplicitKeeps, CommitFailsKeeps, LockTimesOutKeeps, DiscardFailsKeeps, Zenon
<1>5. CASE CommitGroup \/ AbortGroup \/ GroupCommitFails
    BY <1>5, CommitGroupKeeps, AbortGroupKeeps, GroupCommitFailsKeeps, Zenon
<1>6. CASE HoldGuard \/ ReleaseGuard
    BY <1>6, NothingCreated DEF HoldGuard, ReleaseGuard, made_vars, db, budget
<1>7. CASE DeleteJobs BY <1>7, DeleteJobsKeeps
<1>8. CASE Crash BY <1>8, CrashKeeps
<1> QED BY <1>1, <1>2, <1>3, <1>4, <1>5, <1>6, <1>7, <1>8, Zenon DEF Next

-----------------------------------------------------------------------------
(* The inductive invariant holds in every state of creation: directories   *)
(* in the making belong to the creator that makes them, the sequence stays *)
(* ahead of every row and reservation, and the members of a group hold the *)
(* addresses that follow the next id.                                      *)
THEOREM CreationInvariant == Spec => []CInv
<1>1. Init => CInv BY InitCInv
<1>2. CInv /\ [Next]_vars => CInv' BY StepKeeps
<1> QED BY <1>1, <1>2, PTL DEF Spec

(* One idempotency key stands for one job, however single, explicit and    *)
(* batch publications that carry it interleave, with any number of         *)
(* creators, faults and process deaths.                                    *)
THEOREM KeysAreUnique == Spec => []OneJobPerKey
<1>1. CInv => OneJobPerKey BY DEF CInv
<1> QED BY <1>1, CreationInvariant, PTL

(* The clean-up after refusals, errors and lost answers removes exactly    *)
(* what has no row: every registered job keeps its input, no creator that  *)
(* ended leaves a directory behind, and the next address is free.          *)
THEOREM CleanupIsExact == Spec => []DirectoriesMatchRows
<1>1. ASSUME CInv PROVE NoLitter
    <2> SUFFICES ASSUME ~left, NEW i \in Ids, dirs[i] # Nobody, pc[dirs[i]] = "done" PROVE i \in Live
        BY DEF NoLitter
    <2> QED BY <1>1 DEF CInv, NoneLeft, Busy
<1>2. ASSUME CInv PROVE AddressFree
    <2> SUFFICES ASSUME \A c \in Creators : pc[c] \in {"start", "lock", "publish", "reserve", "done"},
                        ~left, ~overtaken, ~(NextId > MaxId), dirs[NextId] # Nobody
                 PROVE  FALSE
        BY DEF AddressFree
    <2>1. Typed /\ SequenceAhead /\ NoneLeft BY <1>2 DEF CInv
    <2>2. NextId \in Nat \ {0} /\ \A i \in Live : i < NextId BY <2>1, NextIds
    <2>3. NextId \in Ids BY <2>2, BoundsAreNat DEF Ids
    <2>4. NextId \notin Live BY <2>2
    <2>5. dirs[NextId] \in Creators BY <2>1, <2>3 DEF Typed
    <2>6. Busy(dirs[NextId]) BY <2>1, <2>3, <2>4 DEF NoneLeft
    <2> QED BY <2>5, <2>6 DEF Busy
<1>3. CInv => DirectoriesMatchRows BY <1>1, <1>2 DEF DirectoriesMatchRows, CInv
<1> QED BY <1>3, CreationInvariant, PTL
=============================================================================
