------------------------- MODULE TaskExecutionProofs -------------------------
(***************************************************************************)
(* Proofs for TaskExecution: API capacity is exact and no attempt times    *)
(* out for the framework's own delay, for any set of jobs and lanes and    *)
(* any limits.                                                             *)
(***************************************************************************)
EXTENDS TaskExecution, TLAPS, FiniteSetTheorems, NaturalsInduction, WellFoundedInduction

(***************************************************************************)
(* The inductive invariant: types.                                         *)
(***************************************************************************)
Places == {"idle", "pulled", "permit", "asked", "releasing", "attempt", "wait", "restart", "done", "failed",
           "stuck", "over"}
Answers == {"none", "pending", "yes", "no", "refused", "lost"}
Hands == {"none", "start", "run", "saving", "enter", "net", "replay", "left", "over", "yield"}
Controllers == [pc : Places, gen : Nat, att : Nat, next : Places]
Requests == [act : {"acquire", "release"}, job : Jobs, gen : Nat]
Timers == {"total", "chk", "ext"}
Watches == [state : {"none", "active", "handler_done", "timed_out", "superseded"}, gen : Nat,
            total : {"off", "armed", "due"}, chk : {"off", "armed", "due"}, ext : {"off", "armed", "due"},
            exempt : SUBSET Timers, why : Timers \cup {"none"}, wake : BOOLEAN, cancel : BOOLEAN]

JobTypes == gen \in [Jobs -> Nat] /\ ctl \in [Jobs -> Controllers]
WatchTypes == hand \in [Jobs -> Hands] /\ watch \in [Jobs -> Watches]
PermitTypes ==
    /\ held \subseteq Jobs /\ permits \subseteq Jobs \X Nat /\ answer \in [Jobs -> Answers]
    /\ mail \in Seq(Requests) /\ apiLimit \in Nat
LaneTypes ==
    /\ lane \in [Jobs -> Lanes \cup {None}] /\ gone \subseteq Lanes
    /\ limit \in Nat /\ share \in [Lanes -> Int]

(***************************************************************************)
(* The checkpoint deadline.  While it runs, the handler is in user code or *)
(* has said that it is not; while it is off, the framework has the job.    *)
(***************************************************************************)
Honest(w, h, slow) ==
    /\ w.why = "chk" => slow
    /\ w.state = "active" =>
          /\ w.chk = "due" /\ "chk" \notin w.exempt => slow
          /\ w.chk = "armed" => h \in {"run", "yield"} \/ "chk" \in w.exempt
          /\ h \in {"saving", "net", "replay"} => w.chk = "off"
TimeInv == \A j \in Jobs : Honest(watch[j], hand[j], j \in late)

(***************************************************************************)
(* The permits.  A controller knows whether it has one, except between an  *)
(* answer and the step that takes it.                                      *)
(***************************************************************************)
Waiting == {"asked", "releasing"}
Bare == {"idle", "pulled", "permit", "restart", "done", "failed", "over"}
Owns(j) == <<j, ctl[j].gen>> \in permits
Knows(j) ==
    /\ At(j) = "asked" => j \notin held /\ (Owns(j) <=> Granted(j))
    /\ At(j) = "releasing" =>
          /\ j \in held /\ answer[j] # "no" /\ (Owns(j) <=> ~Granted(j))
          /\ ctl[j].next \in {"stuck", "restart", "permit", "done", "failed"}
    /\ At(j) \notin Waiting => answer[j] = "none" /\ (j \in held <=> Owns(j))
    /\ At(j) \in Bare => j \notin held
    /\ j \in Api /\ (At(j) = "attempt" \/ (At(j) = "wait" /\ hand[j] # "left")) /\ ctl[j].att = 1 => j \in held
    /\ At(j) \in {"attempt", "wait"} \/ hand[j] = "yield" => ctl[j].att > 0
    /\ j \notin Api => j \notin held /\ At(j) \notin {"pulled", "permit", "stuck"} \cup Waiting
Placed(j) ==
    /\ hand[j] \in Hands \ {"none", "left", "yield"} => At(j) = "wait"
    /\ hand[j] = "yield" => j \in Api /\ At(j) \in {"permit", "restart", "stuck"} \cup Waiting
    /\ hand[j] = "yield" /\ At(j) = "releasing" => ctl[j].next \in {"stuck", "restart", "permit"}
    /\ hand[j] = "left" => At(j) \in {"wait", "stuck"}
    /\ At(j) = "attempt" => hand[j] = "none"
Posted ==
    /\ \A n \in 1 .. Len(mail) : LET r == mail[n] IN
          /\ answer[r.job] = "pending" /\ r.gen = ctl[r.job].gen
          /\ At(r.job) = IF r.act = "acquire" THEN "asked" ELSE "releasing"
    /\ \A n, m \in 1 .. Len(mail) : mail[n].job = mail[m].job => n = m
Budget ==
    /\ IsFiniteSet(permits)
    /\ Cardinality(permits) + Foreign <= apiLimit \/ permits \subseteq keptPermits
    /\ \A p \in permits : p[1] \in Api /\ p[2] = ctl[p[1]].gen
Closed == settled => /\ gone = Lanes /\ permits = {}
                     /\ \A j \in Api : At(j) \in {"idle", "stuck", "over"}
PermitInv == (\A j \in Jobs : Knows(j) /\ Placed(j)) /\ Posted /\ Budget /\ Closed

(***************************************************************************)
(* The lanes: but for fibers of a higher limit, each keeps within its      *)
(* share.                                                                  *)
(***************************************************************************)
Counted(l) == Fibers(l) \ kept
LaneInv ==
    /\ \A j \in Api : lane[j] \notin gone
    /\ \A l \in Lanes \ gone : Cardinality(Counted(l)) <= LimitFor(l)

JInv == JobTypes /\ WatchTypes /\ PermitTypes /\ TimeInv /\ PermitInv
LInv == LaneTypes /\ LaneInv
TInv == JInv /\ LInv

(***************************************************************************)
(* A step of one job leaves the others alone.                              *)
(***************************************************************************)
Same(k) ==
    /\ ctl'[k] = ctl[k] /\ hand'[k] = hand[k] /\ watch'[k] = watch[k] /\ answer'[k] = answer[k]
    /\ k \in held' <=> k \in held
    /\ k \in late' <=> k \in late
Elsewhere(i) == \A k \in Jobs : k # i => Same(k)
Typed ==
    /\ gen \in [Jobs -> Nat] /\ ctl \in [Jobs -> Controllers] /\ hand \in [Jobs -> Hands]
    /\ watch \in [Jobs -> Watches] /\ answer \in [Jobs -> Answers] /\ held \subseteq Jobs
Asks(i, act) ==
    /\ mail' = Append(mail, [act |-> act, job |-> i, gen |-> ctl'[i].gen])
    /\ answer'[i] = "pending"
    /\ ctl'[i].pc = IF act = "acquire" THEN "asked" ELSE "releasing"

LEMMA SameKeeps ==
    ASSUME NEW k \in Jobs, Same(k), permits' = permits, Knows(k), Placed(k),
           Honest(watch[k], hand[k], k \in late)
    PROVE  Knows(k)' /\ Placed(k)' /\ Honest(watch'[k], hand'[k], k \in late')
<1>1. Knows(k)' BY DEF Same, Knows, Owns, Granted, At
<1>2. Placed(k)' BY DEF Same, Placed, At
<1>3. Honest(watch'[k], hand'[k], k \in late') BY DEF Same, Honest
<1> QED BY <1>1, <1>2, <1>3

(* So it is enough to look at the job that moved and at what it asks for.  *)
LEMMA Onward ==
    ASSUME JInv, NEW i \in Jobs, Elsewhere(i), Typed',
           UNCHANGED <<grantVars, settled, gone>>,
           Honest(watch'[i], hand'[i], i \in late'), Knows(i)', Placed(i)',
           answer[i] # "pending",
           mail' = mail \/ \E act \in {"acquire", "release"} : Asks(i, act),
           ctl'[i].gen = ctl[i].gen \/ ~Owns(i),
           ctl'[i].pc = ctl[i].pc \/ (i \in Api => At(i) \notin {"idle", "stuck", "over"})
    PROVE  JInv'
<1>1. JobTypes' /\ WatchTypes' BY DEF Typed, JobTypes, WatchTypes
<1>2. mail \in Seq(Requests) BY DEF JInv, PermitTypes
<1>3. PermitTypes'
    <2>1. CASE mail' = mail BY <2>1 DEF JInv, PermitTypes, Typed, grantVars
    <2>2. ASSUME NEW act \in {"acquire", "release"}, Asks(i, act) PROVE PermitTypes'
        <3>1. ctl'[i].gen \in Nat BY DEF Typed, Controllers
        <3>2. [act |-> act, job |-> i, gen |-> ctl'[i].gen] \in Requests BY <3>1 DEF Requests
        <3>3. mail' \in Seq(Requests) BY <1>2, <2>2, <3>2 DEF Asks
        <3> QED BY <3>3 DEF JInv, PermitTypes, Typed, grantVars
    <2> QED BY <2>1, <2>2
<1>4. \A k \in Jobs : k # i => Knows(k)' /\ Placed(k)' /\ Honest(watch'[k], hand'[k], k \in late')
    BY SameKeeps DEF Elsewhere, JInv, TimeInv, PermitInv, grantVars
<1>5. TimeInv' BY <1>4 DEF TimeInv
<1>6. \A n \in 1 .. Len(mail) : mail[n].job \in Jobs /\ mail[n].job # i
    <2> SUFFICES ASSUME NEW n \in 1 .. Len(mail) PROVE mail[n].job \in Jobs /\ mail[n].job # i OBVIOUS
    <2>1. mail[n] \in Requests BY <1>2
    <2>2. answer[mail[n].job] = "pending" BY DEF JInv, PermitInv, Posted
    <2> QED BY <2>1, <2>2 DEF Requests
<1>7. ASSUME NEW n \in 1 .. Len(mail)
      PROVE  /\ answer'[mail[n].job] = "pending" /\ mail[n].gen = ctl'[mail[n].job].gen
             /\ ctl'[mail[n].job].pc = IF mail[n].act = "acquire" THEN "asked" ELSE "releasing"
    <2>1. Same(mail[n].job) BY <1>6 DEF Elsewhere
    <2> QED BY <2>1 DEF Same, JInv, PermitInv, Posted, At
<1>8. Posted'
    <2>1. CASE mail' = mail
        <3>1. \A n, m \in 1 .. Len(mail) : mail[n].job = mail[m].job => n = m BY DEF JInv, PermitInv, Posted
        <3> QED BY <1>7, <2>1, <3>1 DEF Posted, At
    <2>2. ASSUME NEW act \in {"acquire", "release"}, Asks(i, act) PROVE Posted'
        <3>1. PICK r : r = [act |-> act, job |-> i, gen |-> ctl'[i].gen] OBVIOUS
        <3>2. r.act = act /\ r.job = i /\ r.gen = ctl'[i].gen BY <3>1
        <3>3. mail' = Append(mail, r) BY <2>2, <3>1 DEF Asks
        <3>4. /\ Len(mail) \in Nat /\ Len(mail') = Len(mail) + 1 /\ mail'[Len(mail) + 1] = r
              /\ \A n \in 1 .. Len(mail) : mail'[n] = mail[n]
            BY <1>2, <3>3
        <3>5. ASSUME NEW n \in 1 .. Len(mail')
              PROVE  /\ answer'[mail'[n].job] = "pending" /\ mail'[n].gen = ctl'[mail'[n].job].gen
                     /\ ctl'[mail'[n].job].pc = IF mail'[n].act = "acquire" THEN "asked" ELSE "releasing"
            <4>1. CASE n = Len(mail) + 1 BY <2>2, <3>2, <3>4, <4>1 DEF Asks
            <4>2. CASE n # Len(mail) + 1
                <5>1. n \in 1 .. Len(mail) BY <3>4, <4>2
                <5> QED BY <1>7, <3>4, <5>1
            <4> QED BY <4>1, <4>2
        <3>6. ASSUME NEW n \in 1 .. Len(mail'), NEW m \in 1 .. Len(mail'), mail'[n].job = mail'[m].job
              PROVE  n = m
            <4>1. \A x \in 1 .. Len(mail') : x = Len(mail) + 1 \/ x \in 1 .. Len(mail) BY <3>4
            <4>2. CASE n = Len(mail) + 1 BY <1>6, <3>2, <3>4, <3>6, <4>1, <4>2
            <4>3. CASE m = Len(mail) + 1 BY <1>6, <3>2, <3>4, <3>6, <4>1, <4>3
            <4>4. CASE n \in 1 .. Len(mail) /\ m \in 1 .. Len(mail)
                BY <3>4, <3>6, <4>4 DEF JInv, PermitInv, Posted
            <4> QED BY <4>1, <4>2, <4>3, <4>4
        <3> QED BY <3>5, <3>6 DEF Posted, At
    <2> QED BY <2>1, <2>2
<1>9. Budget'
    <2>1. ASSUME NEW p \in permits PROVE p[1] \in Api /\ p[2] = ctl'[p[1]].gen
        <3>1. p[1] \in Api /\ p[1] \in Jobs /\ p = <<p[1], p[2]>> /\ p[2] = ctl[p[1]].gen
            BY DEF JInv, PermitTypes, PermitInv, Budget
        <3>2. CASE p[1] = i BY <3>1, <3>2 DEF Owns
        <3>3. CASE p[1] # i BY <3>1, <3>3 DEF Elsewhere, Same
        <3> QED BY <3>1, <3>2, <3>3
    <2> QED BY <2>1 DEF JInv, PermitInv, Budget, grantVars
<1>10. Closed'
    <2> SUFFICES ASSUME settled PROVE \A j \in Api : ctl'[j].pc \in {"idle", "stuck", "over"}
        BY DEF JInv, PermitInv, Closed, At, grantVars
    <2>1. \A j \in Api : j \in Jobs /\ ctl[j].pc \in {"idle", "stuck", "over"}
        BY TaskAssumption DEF JInv, PermitInv, Closed, At
    <2> QED BY <2>1 DEF Elsewhere, Same, At
<1> QED BY <1>1, <1>3, <1>4, <1>5, <1>8, <1>9, <1>10 DEF JInv, PermitInv

(***************************************************************************)
(* The handler and what it tells the watch.                                *)
(***************************************************************************)
(* The handler of a job that waits for it moves on, or is dropped.         *)
LEMMA HandStep ==
    ASSUME JInv, NEW i \in Jobs, NEW h \in Hands, NEW w \in Watches,
           hand' = [hand EXCEPT ![i] = h], watch' = [watch EXCEPT ![i] = w],
           UNCHANGED <<gen, ctl, permitVars, gone, settled, late>>,
           \/ At(i) = "wait" /\ h \notin {"none", "yield"} /\ (i \in Api => hand[i] # "left")
           \/ At(i) = "stuck" /\ h = "none",
           Honest(w, h, i \in late)
    PROVE  JInv'
<1>1. Typed' BY DEF JInv, Typed, JobTypes, WatchTypes, PermitTypes, permitVars, grantVars
<1>2. hand'[i] = h /\ watch'[i] = w BY DEF JInv, WatchTypes
<1>3. Elsewhere(i) BY DEF JInv, WatchTypes, Elsewhere, Same, permitVars, grantVars
<1>4. Knows(i) /\ Placed(i) BY DEF JInv, PermitInv
<1>5. Knows(i)' BY <1>2, <1>4 DEF Knows, At, Owns, Granted, Waiting, Bare, permitVars, grantVars
<1>6. Placed(i)' BY <1>2 DEF Placed, At
<1>7. answer[i] = "none" BY <1>4 DEF Knows, Waiting
<1>8. Honest(watch'[i], hand'[i], i \in late') BY <1>2
<1>9. UNCHANGED <<grantVars, settled, gone>> /\ mail' = mail BY DEF permitVars, grantVars
<1> QED BY <1>1, <1>3, <1>5, <1>6, <1>7, <1>8, <1>9, Onward

(* Only the watches change.                                                *)
LEMMA WatchStep ==
    ASSUME JInv, watch' \in [Jobs -> Watches],
           UNCHANGED <<gen, ctl, hand, permitVars, gone, settled>>, TimeInv'
    PROVE  JInv'
<1>1. JobTypes' /\ WatchTypes' /\ PermitTypes'
    BY DEF JInv, JobTypes, WatchTypes, PermitTypes, permitVars, grantVars
<1>2. PermitInv'
    <2>1. (\A j \in Jobs : Knows(j) /\ Placed(j))'
        BY DEF JInv, PermitInv, Knows, Placed, At, Owns, Granted, permitVars, grantVars
    <2>2. Posted' /\ Budget' /\ Closed'
        BY DEF JInv, PermitInv, Posted, Budget, Closed, At, permitVars, grantVars
    <2> QED BY <2>1, <2>2 DEF PermitInv
<1> QED BY <1>1, <1>2 DEF JInv

LEMMA WatchAt ==
    ASSUME JInv, NEW i \in Jobs, NEW w \in Watches, watch' = [watch EXCEPT ![i] = w],
           UNCHANGED <<gen, ctl, hand, permitVars, gone, settled>>,
           late' = late \/ late' = late \cup {i}, Honest(w, hand[i], i \in late')
    PROVE  JInv'
<1>1. watch' \in [Jobs -> Watches] /\ watch'[i] = w /\ \A k \in Jobs : k # i => watch'[k] = watch[k]
    BY DEF JInv, WatchTypes
<1>2. TimeInv'
    <2> SUFFICES ASSUME NEW k \in Jobs PROVE Honest(watch'[k], hand[k], k \in late') BY DEF TimeInv
    <2>1. CASE k = i BY <1>1, <2>1
    <2>2. CASE k # i
        <3>1. watch'[k] = watch[k] /\ (k \in late' <=> k \in late) BY <1>1, <2>2
        <3> QED BY <3>1 DEF JInv, TimeInv, Honest
    <2> QED BY <2>1, <2>2
<1> QED BY <1>1, <1>2, WatchStep

(* What is known of the watch and the handler of a job.                    *)
LEMMA Watched ==
    ASSUME JInv, NEW i \in Jobs
    PROVE  /\ watch[i] \in Watches /\ hand[i] \in Hands /\ Honest(watch[i], hand[i], i \in late)
           /\ Placed(i) /\ Knows(i)
           /\ watch = [watch EXCEPT ![i] = watch[i]] /\ hand = [hand EXCEPT ![i] = hand[i]]
BY DEF JInv, WatchTypes, TimeInv, PermitInv

LEMMA InHandler ==
    ASSUME JInv, NEW i \in Jobs, hand[i] \in Hands \ {"none", "left", "yield"}
    PROVE  At(i) = "wait"
BY Watched DEF Placed

(* The handler raises: nothing runs any more.                              *)
LEMMA RaiseKeeps ==
    ASSUME JInv, NEW i \in Jobs, hand[i] \in Hands \ {"none", "left", "yield"},
           Raises(i), UNCHANGED <<watch, late, checkpoints, handlerFrame>>
    PROVE  JInv'
<1>1. Honest(watch[i], "left", i \in late) BY Watched DEF Raises, Live, Honest
<1>2. "left" \in Hands BY DEF Hands
<1>3. hand' = [hand EXCEPT ![i] = "left"] /\ watch' = [watch EXCEPT ![i] = watch[i]]
    BY Watched DEF Raises
<1>4. UNCHANGED <<gen, ctl, permitVars, gone, settled, late>> BY DEF handlerFrame, rowVars, laneVars, limitVars, envVars
<1> QED BY <1>1, <1>2, <1>3, <1>4, InHandler, Watched, HandStep

HandlerStep(j) ==
    \/ BeginHandler(j) \/ CheckpointSaved(j) \/ BeginExternalWait(j) \/ RenewExternalWait(j)
    \/ SignalComplete(j) \/ ManagedCall(j) \/ Checkpoint(j) \/ EnterWait(j) \/ Replay(j)
    \/ EndExternalWait(j) \/ \E o \in {"result", "error"} : HandlerExit(j, o)

LEMMA HandlerFrame == ASSUME UNCHANGED handlerFrame PROVE UNCHANGED <<gen, ctl, permitVars, gone, settled>>
BY DEF handlerFrame, rowVars, laneVars, limitVars, envVars

(* One step per action; under it, that the watch stays honest.             *)
LEMMA HandlerKeeps == ASSUME JInv, NEW i \in Jobs, HandlerStep(i) PROVE JInv'
<1> DEFINE old == watch[i]
<1>0. /\ old \in Watches /\ Honest(old, hand[i], i \in late) /\ Placed(i) /\ Knows(i)
      /\ watch = [watch EXCEPT ![i] = old]
    BY Watched
<1>1. ASSUME NEW h \in Hands \ {"none", "yield"}, NEW w \in Watches, UNCHANGED handlerFrame, late' = late,
             hand[i] \in Hands \ {"none", "left", "yield"},
             hand' = [hand EXCEPT ![i] = h], watch' = [watch EXCEPT ![i] = w], Honest(w, h, i \in late)
      PROVE  JInv'
    BY <1>1, InHandler, HandlerFrame, HandStep
<1>2. CASE BeginHandler(i)
    <2>1. CASE Raises(i) /\ UNCHANGED watch
        BY <1>2, <2>1, RaiseKeeps DEF BeginHandler, Hands
    <2>2. CASE ~(Raises(i) /\ UNCHANGED watch)
        <3>1. PICK w : w = [old EXCEPT !.total = IF i \in Timed THEN "armed" ELSE "off",
                                       !.chk = IF i \in Reporting THEN "armed" ELSE "off"] OBVIOUS
        <3>2. watch' = [watch EXCEPT ![i] = w] /\ hand' = [hand EXCEPT ![i] = "run"]
            BY <1>2, <2>2, <3>1 DEF BeginHandler
        <3>3. w \in Watches /\ w.why = old.why /\ w.chk \in {"armed", "off"} BY <1>0, <3>1 DEF Watches
        <3>4. Honest(w, "run", i \in late) BY <1>0, <3>3 DEF Honest
        <3> QED BY <1>1, <1>2, <3>2, <3>3, <3>4 DEF BeginHandler, Hands
    <2> QED BY <2>1, <2>2
<1>3. CASE CheckpointSaved(i)
    <2>1. PICK w : w = IF Live(i) THEN [old EXCEPT !.chk = "armed"] ELSE old OBVIOUS
    <2>2. watch' = [watch EXCEPT ![i] = w] /\ hand' = [hand EXCEPT ![i] = "run"]
        BY <1>0, <1>3, <2>1 DEF CheckpointSaved
    <2>3. /\ w \in Watches /\ w.why = old.why /\ w.state = old.state
          /\ w.state = "active" => w.chk = "armed"
        BY <1>0, <2>1 DEF Watches, Live
    <2>4. Honest(w, "run", i \in late) BY <1>0, <2>3 DEF Honest
    <2> QED BY <1>1, <1>3, <2>2, <2>3, <2>4 DEF CheckpointSaved, Hands
<1>4. CASE BeginExternalWait(i)
    <2>1. CASE Raises(i) /\ UNCHANGED watch
        BY <1>4, <2>1, RaiseKeeps DEF BeginExternalWait, Hands
    <2>2. CASE ~(Raises(i) /\ UNCHANGED watch)
        <3>1. PICK w : w = [old EXCEPT !.ext = "armed", !.chk = "off", !.exempt = {}] OBVIOUS
        <3>2. watch' = [watch EXCEPT ![i] = w] /\ hand' = [hand EXCEPT ![i] = "net"]
            BY <1>4, <2>2, <3>1 DEF BeginExternalWait
        <3>3. w \in Watches /\ w.why = old.why /\ w.chk = "off" BY <1>0, <3>1 DEF Watches
        <3>4. Honest(w, "net", i \in late) BY <1>0, <3>3 DEF Honest
        <3> QED BY <1>1, <1>4, <3>2, <3>3, <3>4 DEF BeginExternalWait, Hands
    <2> QED BY <2>1, <2>2
<1>5. CASE RenewExternalWait(i)
    <2>1. CASE Raises(i) /\ UNCHANGED watch
        BY <1>5, <2>1, RaiseKeeps DEF RenewExternalWait, Hands
    <2>2. CASE ~(Raises(i) /\ UNCHANGED watch)
        <3>1. PICK w : w = [old EXCEPT !.ext = "armed", !.exempt = {}] OBVIOUS
        <3>2. watch' = [watch EXCEPT ![i] = w] /\ hand' = [hand EXCEPT ![i] = "net"] /\ Live(i)
            BY <1>5, <2>2, <3>1 DEF RenewExternalWait
        <3>3. w \in Watches /\ w.why = old.why /\ w.chk = old.chk BY <1>0, <3>1 DEF Watches
        <3>4. old.chk = "off" BY <1>0, <1>5, <3>2 DEF RenewExternalWait, Honest, Live
        <3>5. Honest(w, "net", i \in late) BY <1>0, <3>3, <3>4 DEF Honest
        <3> QED BY <1>1, <1>5, <3>2, <3>3, <3>5 DEF RenewExternalWait, Hands
    <2> QED BY <2>1, <2>2
<1>6. CASE SignalComplete(i)
    <2>1. PICK w : w = IF Signals(i) THEN [old EXCEPT !.state = "handler_done", !.wake = TRUE] ELSE old OBVIOUS
    <2>2. watch' = [watch EXCEPT ![i] = w] /\ hand' = [hand EXCEPT ![i] = "over"]
        BY <1>0, <1>6, <2>1 DEF SignalComplete
    <2>3. w \in Watches /\ w.why = old.why /\ w.state # "active"
        <3>1. CASE Signals(i) BY <1>0, <2>1, <3>1 DEF Watches
        <3>2. CASE ~Signals(i) BY <1>0, <2>1, <3>2 DEF Signals, Live
        <3> QED BY <3>1, <3>2
    <2>4. Honest(w, "over", i \in late) BY <1>0, <2>3 DEF Honest
    <2>5. At(i) = "wait" BY <1>0, <1>6 DEF SignalComplete, Placed, Knows
    <2>6. UNCHANGED <<gen, ctl, permitVars, gone, settled, late>> /\ i \notin Api
        BY <1>6, HandlerFrame DEF SignalComplete
    <2> QED BY <2>2, <2>3, <2>4, <2>5, <2>6, HandStep DEF Hands
<1>7. CASE ManagedCall(i) BY <1>7, RaiseKeeps DEF ManagedCall, Hands
<1>8. CASE Checkpoint(i)
    <2>1. PICK w : w = [old EXCEPT !.chk = "off", !.exempt = {}] OBVIOUS
    <2>2. watch' = [watch EXCEPT ![i] = w] /\ hand' = [hand EXCEPT ![i] = "saving"]
        BY <1>8, <2>1 DEF Checkpoint
    <2>3. w \in Watches /\ w.why = old.why /\ w.chk = "off" BY <1>0, <2>1 DEF Watches
    <2>4. Honest(w, "saving", i \in late) BY <1>0, <2>3 DEF Honest
    <2> QED BY <1>1, <1>8, <2>2, <2>3, <2>4 DEF Checkpoint, Hands
<1>9. ASSUME NEW h \in {"enter", "left"}, hand[i] = "run", hand' = [hand EXCEPT ![i] = h],
             watch' = [watch EXCEPT ![i].exempt = Exempt(i, "chk")], UNCHANGED <<late, handlerFrame>>
      PROVE  JInv'
    <2>1. PICK w : w = [old EXCEPT !.exempt = IF old.chk = "armed" THEN @ \cup {"chk"} ELSE @] OBVIOUS
    <2>2. watch' = [watch EXCEPT ![i] = w] BY <1>0, <1>9, <2>1 DEF Exempt
    <2>3. /\ w \in Watches /\ w.why = old.why /\ w.chk = old.chk /\ w.state = old.state
          /\ w.exempt = IF old.chk = "armed" THEN old.exempt \cup {"chk"} ELSE old.exempt
        BY <1>0, <2>1 DEF Watches, Timers
    <2>4. Honest(w, h, i \in late) BY <1>0, <2>3 DEF Honest
    <2> QED BY <1>1, <1>9, <2>2, <2>3, <2>4 DEF Hands
<1>10. CASE EnterWait(i) BY <1>9, <1>10 DEF EnterWait
<1>11. ASSUME NEW o \in {"result", "error"}, HandlerExit(i, o) PROVE JInv'
    BY <1>9, <1>11 DEF HandlerExit
<1>12. CASE Replay(i)
    <2>1. PICK w : w = [old EXCEPT !.exempt = IF old.ext = "armed" THEN @ \cup {"ext"} ELSE @] OBVIOUS
    <2>2. watch' = [watch EXCEPT ![i] = w] /\ hand' = [hand EXCEPT ![i] = "replay"]
        BY <1>0, <1>12, <2>1 DEF Exempt, Replay
    <2>3. w \in Watches /\ w.why = old.why /\ w.chk = old.chk /\ w.state = old.state
        BY <1>0, <2>1 DEF Watches, Timers
    <2>4. old.state = "active" => old.chk = "off" BY <1>0, <1>12 DEF Replay, Honest
    <2>5. Honest(w, "replay", i \in late) BY <1>0, <2>3, <2>4 DEF Honest
    <2> QED BY <1>1, <1>12, <2>2, <2>3, <2>5 DEF Replay, Hands
<1>13. CASE EndExternalWait(i)
    <2>1. PICK w : w = [old EXCEPT !.ext = "off", !.chk = "armed"] OBVIOUS
    <2>2. watch' = [watch EXCEPT ![i] = w] /\ hand' = [hand EXCEPT ![i] = "run"]
        BY <1>13, <2>1 DEF EndExternalWait
    <2>3. w \in Watches /\ w.why = old.why /\ w.chk = "armed" BY <1>0, <2>1 DEF Watches
    <2>4. Honest(w, "run", i \in late) BY <1>0, <2>3 DEF Honest
    <2> QED BY <1>1, <1>13, <2>2, <2>3, <2>4 DEF EndExternalWait, Hands
<1> QED BY <1>2, <1>3, <1>4, <1>5, <1>6, <1>7, <1>8, <1>10, <1>11, <1>12, <1>13 DEF HandlerStep

(* The supervisor and the deadlines.                                       *)
LEMMA DeadlineKeeps ==
    ASSUME JInv, NEW i \in Jobs, NEW k \in Timers, DeadlinePasses(i, k) \/ Expire(i, k) \/ WakeTimedOut(i)
    PROVE  JInv'
<1> DEFINE old == watch[i]
<1>0. old \in Watches /\ Honest(old, hand[i], i \in late) BY Watched
<1>1. UNCHANGED <<gen, ctl, hand, permitVars, gone, settled>>
    <2>1. UNCHANGED handlerFrame /\ hand' = hand BY DEF DeadlinePasses, Expire, WakeTimedOut
    <2> QED BY <2>1, HandlerFrame
<1>2. CASE DeadlinePasses(i, k)
    <2>1. CASE k = "chk"
        <3>1. PICK w : w = [old EXCEPT !.chk = "due"] OBVIOUS
        <3>2. watch' = [watch EXCEPT ![i] = w] /\ old.chk = "armed" /\ old.state = "active"
            BY <1>2, <2>1, <3>1 DEF DeadlinePasses, Live
        <3>3. /\ w \in Watches /\ w.why = old.why /\ w.chk = "due" /\ w.exempt = old.exempt
              /\ w.state = old.state
            BY <1>0, <3>1 DEF Watches
        <3>4. late' = (IF hand[i] \in {"run", "yield"} THEN late \cup {i} ELSE late)
            BY <1>2, <2>1 DEF DeadlinePasses, InUserCode
        <3>5. hand[i] \in {"run", "yield"} \/ "chk" \in old.exempt BY <1>0, <3>2 DEF Honest
        <3>6. hand[i] \notin {"saving", "net", "replay"} BY <1>0, <3>2 DEF Honest
        <3>7. Honest(w, hand[i], i \in late')
            <4>1. i \in late => i \in late' BY <3>4
            <4>2. "chk" \notin old.exempt => i \in late' BY <3>4, <3>5
            <4>3. (w.why = "chk" => i \in late') BY <1>0, <3>3, <4>1 DEF Honest
            <4> QED BY <3>3, <3>6, <4>2, <4>3 DEF Honest
        <3>8. late' = late \/ late' = late \cup {i} BY <3>4
        <3> QED BY <1>1, <3>2, <3>3, <3>7, <3>8, WatchAt
    <2>2. CASE k # "chk"
        <3>1. PICK w : w = IF k = "total" THEN [old EXCEPT !.total = "due"] ELSE [old EXCEPT !.ext = "due"] OBVIOUS
        <3>2. watch' = [watch EXCEPT ![i] = w] /\ late' = late
            BY <1>2, <2>2, <3>1 DEF DeadlinePasses, Timers
        <3>3. /\ w \in Watches /\ w.why = old.why /\ w.chk = old.chk /\ w.exempt = old.exempt
              /\ w.state = old.state
            BY <1>0, <3>1 DEF Watches
        <3>4. Honest(w, hand[i], i \in late') BY <1>0, <3>2, <3>3 DEF Honest
        <3> QED BY <1>1, <3>2, <3>3, <3>4, WatchAt
    <2> QED BY <2>1, <2>2
<1>3. CASE Expire(i, k)
    <2>1. PICK w : w = [old EXCEPT !.state = "timed_out", !.why = k, !.cancel = TRUE] OBVIOUS
    <2>2. watch' = [watch EXCEPT ![i] = w] /\ late' = late BY <1>3, <2>1 DEF Expire
    <2>3. w \in Watches /\ w.why = k /\ w.state = "timed_out" BY <1>0, <2>1 DEF Watches
    <2>4. k = "chk" => old.state = "active" /\ old.chk = "due" /\ "chk" \notin old.exempt
        BY <1>3 DEF Expire, Expired, Live
    <2>5. Honest(w, hand[i], i \in late') BY <1>0, <2>2, <2>3, <2>4 DEF Honest
    <2> QED BY <1>1, <2>2, <2>3, <2>5, WatchAt
<1>4. CASE WakeTimedOut(i)
    <2>1. PICK w : w = [old EXCEPT !.wake = TRUE] OBVIOUS
    <2>2. watch' = [watch EXCEPT ![i] = w] /\ late' = late /\ old.state = "timed_out"
        BY <1>4, <2>1 DEF WakeTimedOut
    <2>3. w \in Watches /\ w.why = old.why /\ w.state = old.state BY <1>0, <2>1 DEF Watches
    <2>4. Honest(w, hand[i], i \in late') BY <1>0, <2>2, <2>3 DEF Honest
    <2> QED BY <1>1, <2>2, <2>3, <2>4, WatchAt
<1> QED BY <1>2, <1>3, <1>4

LEMMA LeasesKeep == ASSUME JInv, CompareLeases PROVE JInv'
<1>1. UNCHANGED <<gen, ctl, hand, permitVars, gone, settled>> /\ late' = late
    BY DEF CompareLeases, rowVars, laneVars, limitVars, envVars
<1>2. ASSUME NEW k \in Jobs PROVE Superseded(watch[k]) \in Watches /\ Honest(Superseded(watch[k]), hand[k], k \in late)
    <2>1. PICK w : w = Superseded(watch[k]) OBVIOUS
    <2>2. watch[k] \in Watches /\ Honest(watch[k], hand[k], k \in late) BY Watched
    <2>3. w \in Watches /\ w.why = watch[k].why /\ w.state = "superseded" BY <2>1, <2>2 DEF Superseded, Watches
    <2> QED BY <2>1, <2>2, <2>3 DEF Honest
<1>3. \A k \in Jobs : watch'[k] = Superseded(watch[k]) \/ watch'[k] = watch[k] BY DEF CompareLeases
<1>4. watch' \in [Jobs -> Watches]
    <2>1. watch' = [k \in Jobs |-> watch'[k]] BY DEF CompareLeases
    <2>2. \A k \in Jobs : watch'[k] \in Watches BY <1>2, <1>3, Watched
    <2> QED BY <2>1, <2>2
<1>5. TimeInv'
    <2> SUFFICES ASSUME NEW k \in Jobs PROVE Honest(watch'[k], hand[k], k \in late) BY <1>1 DEF TimeInv
    <2> QED BY <1>2, <1>3, Watched
<1> QED BY <1>1, <1>4, <1>5, WatchStep

(* Steps that leave the jobs' controllers, permits and watches alone; the  *)
(* limit of the permits may change.                                        *)
LEMMA FrameKeeps ==
    ASSUME JInv, UNCHANGED <<ctl, held, permits, mail, answer, hand, watch, late, settled>>,
           gen' \in [Jobs -> Nat], settled => gone' = gone,
           \/ UNCHANGED <<apiLimit, keptPermits>>
           \/ /\ apiLimit' \in Nat
              /\ keptPermits' = IF apiLimit' < apiLimit THEN permits ELSE keptPermits
    PROVE  JInv'
<1>1. JobTypes' /\ WatchTypes' /\ PermitTypes' /\ TimeInv'
    BY DEF JInv, JobTypes, WatchTypes, PermitTypes, TimeInv
<1>2. (\A j \in Jobs : Knows(j) /\ Placed(j))'
    BY DEF JInv, PermitInv, Knows, Placed, At, Owns, Granted
<1>3. Posted' BY DEF JInv, PermitInv, Posted, At
<1>4. Closed' BY DEF JInv, PermitInv, Closed, At
<1>5. Budget'
    <2>1. Budget /\ apiLimit \in Nat BY DEF JInv, PermitTypes, PermitInv
    <2>2. Cardinality(permits) \in Nat /\ Foreign \in Nat BY <2>1, TaskAssumption, FS_CardinalityType DEF Budget
    <2>3. Cardinality(permits) + Foreign <= apiLimit' \/ permits \subseteq keptPermits'
        BY <2>1, <2>2 DEF Budget
    <2> QED BY <2>1, <2>3 DEF Budget
<1> QED BY <1>1, <1>2, <1>3, <1>4, <1>5 DEF JInv, PermitInv

LEMMA OthersKeep ==
    ASSUME JInv, \/ ReadRevision \/ CompareFails \/ SetNodeLimit \/ SetApiLimit
                 \/ \E l \in Lanes : ReadLimit(l) \/ LaneReturns(l)
                 \/ \E j \in Jobs : RestartJob(j) \/ PauseJob(j) \/ ResumeJob(j)
    PROVE  JInv'
<1> USE DEF permitVars, grantVars, attemptVars, envVars, laneVars
<1>1. UNCHANGED <<ctl, held, permits, mail, answer, hand, watch, late, settled>>
    BY DEF ReadRevision, CompareFails, SetNodeLimit, SetApiLimit, ReadLimit, LaneReturns, RestartJob, PauseJob, ResumeJob
<1>2. gen' \in [Jobs -> Nat]
    <2>1. gen \in [Jobs -> Nat] BY DEF JInv, JobTypes
    <2>2. ASSUME NEW j \in Jobs, RestartJob(j) PROVE gen' \in [Jobs -> Nat] BY <2>1, <2>2 DEF RestartJob
    <2>3. CASE gen' = gen BY <2>1, <2>3
    <2> QED BY <2>2, <2>3
            DEF ReadRevision, CompareFails, SetNodeLimit, SetApiLimit, ReadLimit, LaneReturns, PauseJob, ResumeJob, rowVars
<1>3. settled => gone' = gone
    <2>1. settled => gone = Lanes BY DEF JInv, PermitInv, Closed
    <2>2. ASSUME NEW l \in Lanes, LaneReturns(l) PROVE ~settled BY <2>1, <2>2 DEF LaneReturns
    <2> QED BY <2>2 DEF ReadRevision, CompareFails, SetNodeLimit, SetApiLimit, ReadLimit, RestartJob, PauseJob, ResumeJob
<1>4. \/ UNCHANGED <<apiLimit, keptPermits>>
      \/ /\ apiLimit' \in Nat
         /\ keptPermits' = IF apiLimit' < apiLimit THEN permits ELSE keptPermits
    <2>1. CASE SetApiLimit BY <2>1, TaskAssumption DEF SetApiLimit
    <2> QED BY <2>1 DEF ReadRevision, CompareFails, SetNodeLimit, ReadLimit, LaneReturns, RestartJob, PauseJob, ResumeJob
<1> QED BY <1>1, <1>2, <1>3, <1>4, FrameKeeps

(***************************************************************************)
(* The controllers.                                                        *)
(***************************************************************************)
(* Job i gets the controller c, the handler h, the watch w and the answer  *)
(* a; nothing else of the jobs changes.                                    *)
Settles(c, h, w, a, i) ==
    /\ c \in Controllers /\ h \in Hands /\ w \in Watches /\ a \in Answers
    /\ ctl' = [ctl EXCEPT ![i] = c] /\ hand' = [hand EXCEPT ![i] = h]
    /\ watch' = [watch EXCEPT ![i] = w] /\ answer' = [answer EXCEPT ![i] = a]
    /\ held' = held \/ held' = held \cup {i} \/ held' = held \ {i}
    /\ late' = late \/ late' = late \ {i}
    /\ UNCHANGED <<gen, grantVars, settled, gone>>

LEMMA Moves ==
    ASSUME JInv, NEW i \in Jobs, NEW c, NEW h, NEW w, NEW a, Settles(c, h, w, a, i),
           Honest(w, h, i \in late'), Knows(i)', Placed(i)', answer[i] # "pending",
           mail' = mail \/ \E act \in {"acquire", "release"} : Asks(i, act),
           c.gen = ctl[i].gen \/ ~Owns(i),
           c.pc = ctl[i].pc \/ (i \in Api => At(i) \notin {"idle", "stuck", "over"})
    PROVE  JInv'
<1>1. Typed' BY DEF Settles, JInv, Typed, JobTypes, WatchTypes, PermitTypes
<1>2. ctl'[i] = c /\ hand'[i] = h /\ watch'[i] = w
    BY DEF Settles, JInv, JobTypes, WatchTypes, PermitTypes
<1>3. Elsewhere(i)
    BY DEF Settles, JInv, JobTypes, WatchTypes, PermitTypes, Elsewhere, Same
<1>4. UNCHANGED <<grantVars, settled, gone>> BY DEF Settles
<1> QED BY <1>1, <1>2, <1>3, <1>4, Onward

(* What is known of a controller.                                          *)
LEMMA Controlled ==
    ASSUME JInv, NEW i \in Jobs
    PROVE  /\ ctl[i] \in Controllers /\ answer[i] \in Answers /\ gen[i] \in Nat
           /\ ctl = [ctl EXCEPT ![i] = ctl[i]] /\ answer = [answer EXCEPT ![i] = answer[i]]
           /\ \A x : [ctl EXCEPT ![i] = x][i] = x /\ [answer EXCEPT ![i] = x][i] = x
           /\ \A x : [hand EXCEPT ![i] = x][i] = x
BY DEF JInv, JobTypes, PermitTypes, WatchTypes

LEMMA NoWatchFits ==
    /\ NoWatch \in Watches
    /\ \A h, late1 : Honest(NoWatch, h, late1)
    /\ \A g \in Nat : LET w == [NoWatch EXCEPT !.state = "active", !.gen = g] IN
          w \in Watches /\ \A late1 : Honest(w, "start", late1)
BY DEF NoWatch, Watches, Honest, Timers

(* A controller that holds no permit and asks for none goes to another     *)
(* place, or to another generation.                                        *)
LEMMA BareStep ==
    ASSUME JInv, NEW i \in Jobs, NEW c, NEW h, NEW w, Settles(c, h, w, answer[i], i),
           At(i) \in {"idle", "pulled", "permit", "restart", "done", "failed", "attempt"},
           i \in Api => At(i) # "idle",
           mail' = mail, held' = held, Honest(w, h, i \in late'),
           At(i) = "attempt" => c.gen = ctl[i].gen,
           \/ At(i) # "attempt" /\ c.pc \in Bare /\ h = "none" /\ (i \notin Api => c.pc \notin {"pulled", "permit"})
           \/ At(i) # "attempt" /\ i \notin Api /\ c.pc = "attempt" /\ c.att = 1 /\ h = "none"
           \/ At(i) = "attempt" /\ c.pc = "wait" /\ c.att = ctl[i].att /\ h = "start"
           \/ At(i) = "permit" /\ hand[i] = "yield" /\ h = "left" /\ c.pc \in {"wait", "stuck"} /\ c.att = ctl[i].att
           \/ At(i) = "permit" /\ c.pc = "restart" /\ h = hand[i] /\ c.att = ctl[i].att
    PROVE  JInv'
<1>1. Knows(i) /\ Placed(i) /\ hand[i] \in Hands BY Watched
<1>2. ctl'[i] = c /\ hand'[i] = h /\ answer'[i] = answer[i] /\ permits' = permits
    <2>1. /\ ctl' = [ctl EXCEPT ![i] = c] /\ hand' = [hand EXCEPT ![i] = h] /\ permits' = permits
          /\ answer' = [answer EXCEPT ![i] = answer[i]]
        BY DEF Settles, grantVars
    <2>2. ctl'[i] = c /\ hand'[i] = h BY <2>1, Controlled, Zenon
    <2>3. answer'[i] = answer[i] BY <2>1, Controlled, Zenon
    <2> QED BY <2>1, <2>2, <2>3
<1>3. answer[i] = "none" /\ (i \in held <=> Owns(i)) BY <1>1 DEF Knows, Waiting
<1>4. At(i) # "attempt" => ~Owns(i) BY <1>1, <1>3 DEF Knows, Bare
<1>5. i \in held => c.gen = ctl[i].gen BY <1>3, <1>4
<1>6. Owns(i)' <=> i \in held
    <2>1. CASE c.gen = ctl[i].gen BY <1>2, <1>3, <2>1 DEF Owns
    <2>2. CASE c.gen # ctl[i].gen
        <3>1. \A p \in permits : p[1] = i => p[2] = ctl[i].gen BY DEF JInv, PermitInv, Budget
        <3> QED BY <1>2, <1>5, <2>2, <3>1 DEF Owns
    <2> QED BY <2>1, <2>2
<1>7. Knows(i)' BY <1>1, <1>2, <1>3, <1>4, <1>6 DEF Knows, At, Waiting, Bare, Hands
<1>8. Placed(i)' BY <1>1, <1>2 DEF Placed, Knows, At, Bare, Hands, Waiting
<1> QED BY <1>1, <1>3, <1>4, <1>7, <1>8, Moves

LEMMA BareKeeps ==
    ASSUME JInv, NEW i \in Jobs,
           \/ StartFiber(i) \/ AbandonUnstarted(i) \/ ClaimJob(i) \/ CreateAttempt(i) \/ Publish(i)
           \/ Reclaim(i) \/ RaisePaused(i)
    PROVE  JInv'
<1> USE DEF rowVars, permitVars, grantVars, attemptVars, laneVars, limitVars, envVars
<1>0. /\ Knows(i) /\ Placed(i) /\ Honest(watch[i], hand[i], i \in late)
      /\ watch[i] \in Watches /\ hand[i] \in Hands /\ ctl[i] \in Controllers /\ gen[i] \in Nat
      /\ answer[i] \in Answers
    BY Watched, Controlled
<1>1. /\ watch = [watch EXCEPT ![i] = watch[i]] /\ hand = [hand EXCEPT ![i] = hand[i]]
      /\ answer = [answer EXCEPT ![i] = answer[i]]
    BY Watched, Controlled
<1>2. ASSUME NEW place \in Places, Go(i, place)
      PROVE  \E c \in Controllers : /\ ctl' = [ctl EXCEPT ![i] = c] /\ c.pc = place /\ c.gen = ctl[i].gen
                                    /\ c.att = ctl[i].att
    <2>1. PICK c : c = [ctl[i] EXCEPT !.pc = place] OBVIOUS
    <2>2. c \in Controllers /\ c.pc = place /\ c.gen = ctl[i].gen /\ c.att = ctl[i].att
        BY <1>0, <2>1 DEF Controllers
    <2>3. ctl' = [ctl EXCEPT ![i] = c] BY <1>2, <2>1 DEF Go
    <2> QED BY <2>2, <2>3
<1>3. ASSUME NEW place \in Places, Go(i, place),
             UNCHANGED <<gen, permitVars, hand, watch, late, settled, gone>>,
             At(i) \in {"pulled", "done", "failed"}, place \in Bare,
             i \notin Api => place \notin {"pulled", "permit"}
      PROVE  JInv'
    <2>1. PICK c \in Controllers : ctl' = [ctl EXCEPT ![i] = c] /\ c.pc = place /\ c.gen = ctl[i].gen
        BY <1>2, <1>3
    <2>2. Settles(c, hand[i], watch[i], answer[i], i) BY <1>0, <1>1, <1>3, <2>1 DEF Settles
    <2>3. hand[i] = "none" BY <1>0, <1>3 DEF Placed, Hands, Waiting
    <2> QED BY <1>0, <1>3, <2>1, <2>2, <2>3, BareStep
<1>4. CASE StartFiber(i)
    <2>1. i \in Api BY <1>0, <1>4 DEF StartFiber, Knows
    <2> QED BY <1>3, <1>4, <2>1 DEF StartFiber, Places, Bare
<1>5. CASE AbandonUnstarted(i) BY <1>3, <1>5 DEF AbandonUnstarted, Places, Bare
<1>6. CASE Publish(i) BY <1>3, <1>6 DEF Publish, Places, Bare
<1>7. CASE ClaimJob(i)
    <2>1. PICK c : c = [pc |-> "attempt", gen |-> gen[i], att |-> 1, next |-> "over"] OBVIOUS
    <2>2. c \in Controllers /\ c.pc = "attempt" /\ c.att = 1 BY <1>0, <2>1 DEF Controllers, Places
    <2>3. Settles(c, hand[i], watch[i], answer[i], i) BY <1>0, <1>1, <1>7, <2>1, <2>2 DEF Settles, ClaimJob
    <2>4. hand[i] = "none" BY <1>0, <1>7 DEF ClaimJob, Placed, Hands, Waiting
    <2> QED BY <1>0, <1>7, <2>2, <2>3, <2>4, BareStep DEF ClaimJob
<1>8. CASE CreateAttempt(i)
    <2>1. PICK c \in Controllers : /\ ctl' = [ctl EXCEPT ![i] = c] /\ c.pc = "wait" /\ c.gen = ctl[i].gen
                                   /\ c.att = ctl[i].att
        BY <1>2, <1>8 DEF CreateAttempt, Places
    <2>2. PICK w : w = [NoWatch EXCEPT !.state = "active", !.gen = ctl[i].gen] OBVIOUS
    <2>3. w \in Watches /\ Honest(w, "start", i \in late')
        <3>1. ctl[i].gen \in Nat BY <1>0 DEF Controllers
        <3> QED BY <2>2, <3>1, NoWatchFits
    <2>4. Settles(c, "start", w, answer[i], i)
        BY <1>0, <1>1, <1>8, <2>1, <2>2, <2>3 DEF Settles, CreateAttempt, Hands
    <2>5. At(i) = "attempt" /\ mail' = mail /\ held' = held BY <1>8 DEF CreateAttempt
    <2> QED BY <2>1, <2>3, <2>4, <2>5, BareStep
<1>9. CASE Reclaim(i)
    <2>1. PICK c : c = [pc |-> IF i \in Api THEN "permit" ELSE "attempt", gen |-> gen[i], att |-> 1, next |-> "over"]
        OBVIOUS
    <2>2. c \in Controllers /\ c.pc = (IF i \in Api THEN "permit" ELSE "attempt") /\ c.att = 1
        BY <1>0, <2>1 DEF Controllers, Places
    <2>3. NoWatch \in Watches /\ Honest(NoWatch, "none", i \in late') BY NoWatchFits
    <2>4. Settles(c, "none", NoWatch, answer[i], i)
        BY <1>0, <1>1, <1>9, <2>1, <2>2, <2>3 DEF Settles, Reclaim, Hands
    <2>5. At(i) = "restart" /\ mail' = mail /\ held' = held BY <1>9 DEF Reclaim
    <2> QED BY <2>2, <2>3, <2>4, <2>5, BareStep DEF Bare
<1>10. CASE RaisePaused(i)
    <2>1. PICK place \in {"wait", "stuck"} : Go(i, place) BY <1>10 DEF RaisePaused
    <2>2. PICK c \in Controllers : /\ ctl' = [ctl EXCEPT ![i] = c] /\ c.pc = place /\ c.gen = ctl[i].gen
                                   /\ c.att = ctl[i].att
        BY <1>2, <2>1 DEF Places
    <2>3. Honest(watch[i], "left", i \in late') BY <1>0, <1>10 DEF RaisePaused, Raises, Live, Honest
    <2>4. Settles(c, "left", watch[i], answer[i], i)
        BY <1>0, <1>1, <1>10, <2>2 DEF Settles, RaisePaused, Raises, Hands
    <2>5. At(i) = "permit" /\ hand[i] = "yield" /\ mail' = mail /\ held' = held BY <1>10 DEF RaisePaused
    <2> QED BY <2>2, <2>3, <2>4, <2>5, BareStep
<1> QED BY <1>4, <1>5, <1>6, <1>7, <1>8, <1>9, <1>10

LEMMA StopKeeps == ASSUME JInv, NEW i \in Jobs, StopLane(i) PROVE JInv'
<1>1. UNCHANGED <<gen, ctl, permitVars, gone, settled, late>> BY DEF StopLane, rowVars, envVars
<1>2. NoWatch \in Watches /\ Honest(NoWatch, "none", i \in late) BY NoWatchFits
<1> QED BY <1>1, <1>2, HandStep DEF StopLane, Hands

(***************************************************************************)
(* The permit controllers.                                                 *)
(***************************************************************************)
(* A holder asks for the release, whatever comes next.                     *)
Returns(i, place) ==
    Ask(i, "release") /\ ctl' = [ctl EXCEPT ![i].pc = "releasing", ![i].next = place]
LEMMA ReleaseStep ==
    ASSUME JInv, NEW i \in Jobs, i \in Api, NEW place \in {"stuck", "restart", "permit", "done", "failed"},
           NEW h \in Hands, NEW w \in Watches, answer[i] # "pending", Owns(i),
           At(i) \notin {"idle", "stuck", "over"}, i \in held',
           held' = held \/ held' = held \cup {i}, late' = late \/ late' = late \ {i},
           h \in {"none", "yield"}, h = "yield" => ctl[i].att > 0 /\ place \in {"stuck", "restart", "permit"},
           Honest(w, h, i \in late'),
           hand' = [hand EXCEPT ![i] = h], watch' = [watch EXCEPT ![i] = w],
           Returns(i, place),
           UNCHANGED <<gen, grantVars, settled, gone>>
    PROVE  JInv'
<1>1. PICK c : c = [ctl[i] EXCEPT !.pc = "releasing", !.next = place] OBVIOUS
<1>2. ctl[i] \in Controllers BY Controlled
<1>3. /\ c \in Controllers /\ c.pc = "releasing" /\ c.next = place /\ c.gen = ctl[i].gen
      /\ c.att = ctl[i].att
    BY <1>1, <1>2 DEF Controllers, Places
<1>4. Settles(c, h, w, "pending", i) BY <1>1, <1>3 DEF Settles, Returns, Ask, Answers
<1>5. ctl'[i] = c /\ hand'[i] = h /\ answer'[i] = "pending" BY <1>4, Controlled DEF Settles
<1>6. Owns(i)' BY <1>3, <1>5 DEF Owns, grantVars
<1>7. Knows(i)' BY <1>3, <1>5, <1>6 DEF Knows, At, Waiting, Bare, Granted
<1>8. Placed(i)' BY <1>3, <1>5 DEF Placed, At, Waiting, Hands
<1>9. Asks(i, "release") BY <1>3, <1>5 DEF Asks, Returns, Ask
<1> QED BY <1>3, <1>4, <1>7, <1>8, <1>9, Moves

(* Without a permit the controller goes on at once.                        *)
LEMMA EmptyStep ==
    ASSUME JInv, NEW i \in Jobs, NEW place \in {"stuck", "restart", "permit", "done", "failed"},
           NEW h \in Hands, NEW w \in Watches, answer[i] # "pending", ~Owns(i), i \notin held,
           At(i) \notin {"idle", "stuck", "over"}, UNCHANGED <<held, mail>>,
           late' = late \/ late' = late \ {i}, i \notin Api => place \notin {"permit", "stuck"},
           h \in {"none", "yield"},
           h = "yield" => ctl[i].att > 0 /\ i \in Api /\ place \in {"stuck", "restart", "permit"},
           Honest(w, h, i \in late'),
           hand' = [hand EXCEPT ![i] = h], watch' = [watch EXCEPT ![i] = w],
           Go(i, place), answer' = [answer EXCEPT ![i] = "none"],
           UNCHANGED <<gen, grantVars, settled, gone>>
    PROVE  JInv'
<1>1. PICK c : c = [ctl[i] EXCEPT !.pc = place] OBVIOUS
<1>2. ctl[i] \in Controllers BY Controlled
<1>3. /\ c \in Controllers /\ c.pc = place /\ c.gen = ctl[i].gen /\ c.att = ctl[i].att
    BY <1>1, <1>2 DEF Controllers, Places
<1>4. Settles(c, h, w, "none", i) BY <1>1, <1>3 DEF Settles, Go, Answers
<1>5. ctl'[i] = c /\ hand'[i] = h /\ answer'[i] = "none" BY <1>4, Controlled DEF Settles, grantVars
<1>6. ~Owns(i)' BY <1>3, <1>5 DEF Owns, grantVars
<1>7. Knows(i)' BY <1>3, <1>5, <1>6 DEF Knows, At, Waiting, Bare, Granted
<1>8. Placed(i)' BY <1>3, <1>5 DEF Placed, At, Waiting, Hands
<1> QED BY <1>3, <1>4, <1>7, <1>8, Moves

LEMMA AcquireKeeps == ASSUME JInv, NEW i \in Jobs, Acquire(i) PROVE JInv'
<1> USE DEF rowVars, attemptVars, laneVars, limitVars, envVars
<1>0. /\ Knows(i) /\ Placed(i) /\ Honest(watch[i], hand[i], i \in late)
      /\ watch[i] \in Watches /\ hand[i] \in Hands /\ ctl[i] \in Controllers
    BY Watched, Controlled
<1>1. /\ watch = [watch EXCEPT ![i] = watch[i]] /\ hand = [hand EXCEPT ![i] = hand[i]]
      /\ answer = [answer EXCEPT ![i] = answer[i]]
    BY Watched, Controlled
<1>2. At(i) = "permit" /\ i \in Api /\ i \notin held /\ ~Owns(i) /\ answer[i] = "none"
      /\ hand[i] \in {"none", "yield"}
    BY <1>0 DEF Acquire, Knows, Bare, Waiting, Placed, Hands
<1>3. CASE Current(i)
    <2>1. PICK c : c = [ctl[i] EXCEPT !.pc = "asked"] OBVIOUS
    <2>2. c \in Controllers /\ c.pc = "asked" /\ c.gen = ctl[i].gen /\ c.att = ctl[i].att
        BY <1>0, <2>1 DEF Controllers, Places
    <2>3. Settles(c, hand[i], watch[i], "pending", i)
        BY <1>0, <1>1, <1>3, <2>1, <2>2 DEF Settles, Acquire, Go, Ask, Answers
    <2>4. ctl'[i] = c /\ hand'[i] = hand[i] /\ answer'[i] = "pending" /\ held' = held
        BY <2>3, <1>1, Controlled DEF Settles, Acquire
    <2>5. ~Owns(i)' BY <1>2, <2>2, <2>4 DEF Owns, Acquire, grantVars
    <2>6. Knows(i)' BY <1>0, <1>2, <2>2, <2>4, <2>5 DEF Knows, At, Waiting, Bare, Granted
    <2>7. Placed(i)' BY <1>0, <1>2, <2>2, <2>4 DEF Placed, At, Waiting, Hands
    <2>8. Asks(i, "acquire") BY <1>3, <2>2, <2>4 DEF Asks, Ask, Acquire
    <2>9. late' = late BY DEF Acquire
    <2> QED BY <1>0, <1>2, <2>2, <2>3, <2>6, <2>7, <2>8, <2>9, Moves
<1>4. CASE ~Current(i)
    <2>1. answer' = [answer EXCEPT ![i] = "none"] BY <1>1, <1>2, <1>4 DEF Acquire
    <2>2. hand[i] = "yield" => ctl[i].att > 0 BY <1>0 DEF Knows
    <2> QED BY <1>0, <1>1, <1>2, <1>4, <2>1, <2>2, EmptyStep DEF Acquire
<1> QED BY <1>3, <1>4

LEMMA TakeKeeps == ASSUME JInv, NEW i \in Jobs, TakeAnswer(i) PROVE JInv'
<1> USE DEF rowVars, laneVars, limitVars, envVars
<1>0. /\ Knows(i) /\ Placed(i) /\ Honest(watch[i], hand[i], i \in late)
      /\ watch[i] \in Watches /\ hand[i] \in Hands /\ ctl[i] \in Controllers
    BY Watched, Controlled
<1>1. watch = [watch EXCEPT ![i] = watch[i]] /\ hand = [hand EXCEPT ![i] = hand[i]]
    BY Watched
<1>2. /\ At(i) = "asked" /\ i \in Api /\ i \notin held /\ (Owns(i) <=> Granted(i)) /\ answer[i] # "pending"
      /\ hand[i] \in {"none", "yield"} /\ (hand[i] = "yield" => ctl[i].att > 0)
    BY <1>0 DEF TakeAnswer, Knows, Bare, Waiting, Placed, Hands
<1>3. UNCHANGED <<gen, grantVars, watch, late, settled, gone>> BY DEF TakeAnswer
<1>4. held' = IF Granted(i) THEN held \cup {i} ELSE held BY DEF TakeAnswer
<1>5. ASSUME NEW place \in {"stuck", "restart", "permit"}, GiveUp(i, place), UNCHANGED hand PROVE JInv'
    <2>1. CASE Granted(i)
        BY <1>0, <1>1, <1>2, <1>3, <1>4, <1>5, <2>1, ReleaseStep DEF GiveUp, Returns
    <2>2. CASE ~Granted(i)
        BY <1>0, <1>1, <1>2, <1>3, <1>4, <1>5, <2>2, EmptyStep DEF GiveUp
    <2> QED BY <2>1, <2>2
<1>6. ASSUME answer[i] = "yes", answer' = [answer EXCEPT ![i] = "none"], mail' = mail,
             IF hand[i] = "yield" THEN Go(i, "wait") /\ hand' = [hand EXCEPT ![i] = "run"]
             ELSE ctl' = [ctl EXCEPT ![i].pc = "attempt", ![i].att = 1] /\ UNCHANGED hand
      PROVE  JInv'
    <2>1. PICK c : c = IF hand[i] = "yield" THEN [ctl[i] EXCEPT !.pc = "wait"]
                       ELSE [ctl[i] EXCEPT !.pc = "attempt", !.att = 1] OBVIOUS
    <2>2. PICK h : h = IF hand[i] = "yield" THEN "run" ELSE "none" OBVIOUS
    <2>3. /\ c \in Controllers /\ c.gen = ctl[i].gen
          /\ c.pc = IF hand[i] = "yield" THEN "wait" ELSE "attempt"
          /\ c.att = IF hand[i] = "yield" THEN ctl[i].att ELSE 1
        BY <1>0, <2>1 DEF Controllers, Places
    <2>4. ctl' = [ctl EXCEPT ![i] = c] BY <1>6, <2>1 DEF Go
    <2>5. h \in Hands /\ hand' = [hand EXCEPT ![i] = h] BY <1>1, <1>2, <1>6, <2>2 DEF Hands
    <2>6. Settles(c, h, watch[i], "none", i)
        BY <1>0, <1>1, <1>3, <1>4, <1>6, <2>3, <2>4, <2>5 DEF Settles, Answers
    <2>7. ctl'[i] = c /\ hand'[i] = h /\ answer'[i] = "none" BY <2>6, Controlled DEF Settles
    <2>8. Granted(i) BY <1>6 DEF Granted
    <2>9. i \in held' BY <1>4, <2>8
    <2>10. Owns(i)' BY <1>2, <1>3, <2>3, <2>7, <2>8 DEF Owns, grantVars
    <2>11. Knows(i)' BY <1>2, <2>2, <2>3, <2>7, <2>9, <2>10 DEF Knows, At, Waiting, Bare
    <2>12. Placed(i)' BY <1>2, <2>2, <2>3, <2>7 DEF Placed, At, Waiting, Hands
    <2>13. Honest(watch[i], h, i \in late') BY <1>0, <1>2, <1>3, <2>2 DEF Honest
    <2> QED BY <1>2, <1>6, <2>3, <2>6, <2>11, <2>12, <2>13, Moves
<1> QED BY <1>5, <1>6 DEF TakeAnswer

LEMMA ReleasedKeeps == ASSUME JInv, NEW i \in Jobs, Released(i) PROVE JInv'
<1> USE DEF rowVars, attemptVars, laneVars, limitVars, envVars
<1>0. /\ Knows(i) /\ Placed(i) /\ Honest(watch[i], hand[i], i \in late)
      /\ watch[i] \in Watches /\ hand[i] \in Hands /\ ctl[i] \in Controllers /\ answer[i] \in Answers
    BY Watched, Controlled
<1>1. watch = [watch EXCEPT ![i] = watch[i]] /\ hand = [hand EXCEPT ![i] = hand[i]]
    BY Watched
<1>2. /\ At(i) = "releasing" /\ i \in Api /\ i \in held /\ (Owns(i) <=> ~Granted(i)) /\ answer[i] # "pending"
      /\ hand[i] \in {"none", "yield"} /\ (hand[i] = "yield" => ctl[i].att > 0)
      /\ ctl[i].next \in {"stuck", "restart", "permit", "done", "failed"}
      /\ answer[i] \in {"yes", "lost", "refused"}
    BY <1>0 DEF Released, Knows, Bare, Waiting, Placed, Hands, Answers
<1>3. PICK place \in {ctl[i].next, "stuck"} :
          /\ place = "stuck" \/ answer[i] = "yes"
          /\ ctl' = [ctl EXCEPT ![i].pc = place, ![i].next = "over"]
    BY DEF Released
<1>4. PICK c : c = [ctl[i] EXCEPT !.pc = place, !.next = "over"] OBVIOUS
<1>5. c \in Controllers /\ c.pc = place /\ c.gen = ctl[i].gen /\ c.att = ctl[i].att
    BY <1>0, <1>2, <1>4 DEF Controllers, Places
<1>6. Settles(c, hand[i], watch[i], "none", i)
    BY <1>0, <1>1, <1>3, <1>4, <1>5 DEF Settles, Answers, Released
<1>7. ctl'[i] = c /\ hand'[i] = hand[i] /\ answer'[i] = "none" BY <1>1, <1>6, Controlled DEF Settles
<1>8. i \in held' <=> answer[i] = "refused" BY <1>2 DEF Released
<1>9. Owns(i)' <=> answer[i] = "refused" BY <1>2, <1>5, <1>7 DEF Owns, Granted, Released, grantVars
<1>10. Knows(i)' BY <1>2, <1>3, <1>5, <1>7, <1>8, <1>9 DEF Knows, At, Waiting, Bare
<1>11. Placed(i)' BY <1>0, <1>2, <1>3, <1>5, <1>7 DEF Placed, At, Waiting, Hands
<1>12. late' = late /\ mail' = mail BY DEF Released
<1> QED BY <1>0, <1>2, <1>5, <1>6, <1>10, <1>11, <1>12, Moves

(* The end of an attempt, and a pause.                                     *)
LEMMA LeaveKeeps ==
    ASSUME JInv, NEW i \in Jobs, NEW place \in {"restart", "permit", "done", "failed"}, Leave(i, place),
           NEW h \in {"none", "yield"}, NEW w \in Watches, At(i) = "wait",
           h = "yield" => i \in Api /\ place = "permit", i \notin Api => place # "permit",
           Honest(w, h, i \in late'), late' = late \/ late' = late \ {i},
           hand' = [hand EXCEPT ![i] = h], watch' = [watch EXCEPT ![i] = w],
           UNCHANGED <<gen, held, grantVars, settled, gone>>
    PROVE  JInv'
<1>1. /\ answer[i] = "none" /\ (i \in held <=> Owns(i)) /\ ctl[i].att > 0
      /\ (i \in held => i \in Api) /\ h \in Hands
    BY Watched DEF Knows, Waiting, Hands
<1>2. CASE i \in held
    <2>1. i \in Api /\ i \in held' /\ held' = held BY <1>1, <1>2
    <2>2. Returns(i, place) BY <1>2 DEF Leave, Returns
    <2> QED BY <1>1, <1>2, <2>1, <2>2, ReleaseStep
<1>3. CASE i \notin held
    <2>1. answer' = [answer EXCEPT ![i] = "none"] BY <1>1, <1>3, Controlled DEF Leave
    <2>2. Go(i, place) /\ mail' = mail /\ held' = held BY <1>3 DEF Leave
    <2> QED BY <1>1, <1>3, <2>1, <2>2, EmptyStep
<1> QED BY <1>2, <1>3

LEMMA FinishKeeps == ASSUME JInv, NEW i \in Jobs, FinishAttempt(i) PROVE JInv'
<1> USE DEF rowVars, laneVars, limitVars, envVars
<1>0. Knows(i) /\ Placed(i) /\ hand[i] \in Hands /\ ctl[i] \in Controllers BY Watched, Controlled
<1>1. /\ At(i) = "wait" /\ watch' = [watch EXCEPT ![i] = NoWatch] /\ hand' = [hand EXCEPT ![i] = "none"]
      /\ late' = late \ {i} /\ UNCHANGED <<gen, held, grantVars, settled, gone>>
    BY DEF FinishAttempt
<1>2. NoWatch \in Watches /\ Honest(NoWatch, "none", i \in late') BY NoWatchFits
<1>3. ASSUME NEW place \in {"restart", "done", "failed"}, Leave(i, place) PROVE JInv'
    BY <1>1, <1>2, <1>3, LeaveKeeps
<1>4. ASSUME ctl' = [ctl EXCEPT ![i].pc = "attempt", ![i].att = @ + 1], UNCHANGED <<mail, answer>> PROVE JInv'
    <2>0. PICK n \in Nat : n = ctl[i].att + 1 BY <1>0 DEF Controllers
    <2>1. PICK c : c = [ctl[i] EXCEPT !.pc = "attempt", !.att = n] OBVIOUS
    <2>2. c \in Controllers /\ c.pc = "attempt" /\ c.gen = ctl[i].gen /\ c.att = ctl[i].att + 1
        BY <1>0, <2>0, <2>1 DEF Controllers, Places
    <2>10. ctl' = [ctl EXCEPT ![i] = c] BY <1>4, <2>0, <2>1
    <2>3. answer[i] = "none" /\ ctl[i].att > 0 /\ (i \in held <=> Owns(i)) /\ (i \notin Api => i \notin held)
        BY <1>0, <1>1 DEF Knows, Waiting
    <2>4. Settles(c, "none", NoWatch, "none", i)
        BY <1>1, <1>2, <1>4, <2>2, <2>3, <2>10, Controlled DEF Settles, Hands, Answers
    <2>5. ctl'[i] = c /\ hand'[i] = "none" /\ answer'[i] = "none" BY <2>4, Controlled DEF Settles
    <2>6. Owns(i)' <=> i \in held' BY <1>1, <2>2, <2>3, <2>5 DEF Owns, grantVars
    <2>7. c.att # 1 /\ c.att > 0
        <3>1. ctl[i].att \in Nat BY <1>0 DEF Controllers
        <3> QED BY <2>2, <2>3, <3>1
    <2>8. Knows(i)' BY <1>1, <2>2, <2>3, <2>5, <2>6, <2>7 DEF Knows, At, Waiting, Bare
    <2>9. Placed(i)' BY <2>2, <2>5 DEF Placed, At, Waiting, Hands
    <2> QED BY <1>1, <1>2, <1>4, <2>2, <2>3, <2>4, <2>8, <2>9, Moves
<1> QED BY <1>3, <1>4 DEF FinishAttempt

LEMMA YieldKeeps == ASSUME JInv, NEW i \in Jobs, YieldPermit(i) PROVE JInv'
<1> USE DEF rowVars, laneVars, limitVars, envVars
<1>1. hand[i] = "run" /\ i \in Api /\ Leave(i, "permit") BY DEF YieldPermit
<1>2. At(i) = "wait" BY <1>1, InHandler DEF Hands
<1>3. Honest(watch[i], hand[i], i \in late) /\ watch[i] \in Watches /\ watch = [watch EXCEPT ![i] = watch[i]]
    BY Watched
<1>4. /\ hand' = [hand EXCEPT ![i] = "yield"] /\ UNCHANGED <<watch, late>>
      /\ UNCHANGED <<gen, held, grantVars, settled, gone>>
    BY DEF YieldPermit
<1>5. Honest(watch[i], "yield", i \in late') BY <1>1, <1>3, <1>4 DEF Honest
<1>6. watch' = [watch EXCEPT ![i] = watch[i]] BY <1>3, <1>4
<1> QED BY <1>1, <1>2, <1>3, <1>4, <1>5, <1>6, LeaveKeeps

(***************************************************************************)
(* The mutation lane applies the requests one after the other.             *)
(***************************************************************************)
(* A table that is within the limit or has nothing new, an answer that     *)
(* tells the truth, and one request applied; Steps(f, m) unrolls the       *)
(* recursion of Batch.                                                     *)
Mailed(j, n) == \E m \in 1 .. n : mail[m].job = j
Within(rows) ==
    /\ rows \subseteq Jobs \X Nat /\ IsFiniteSet(rows)
    /\ Cardinality(rows) + Foreign <= apiLimit \/ rows \subseteq permits
    /\ \A p \in rows : p[1] \in Api /\ p[2] = ctl[p[1]].gen
Answered(rows, say, r) ==
    LET in == <<r.job, r.gen>> \in rows IN
    IF r.act = "acquire" THEN say \in {"yes", "no", "refused"} /\ (in <=> say = "yes")
    ELSE say \in {"yes", "refused"} /\ (in <=> say # "yes")
Stepped(s, n) ==
    [rows |-> Applied(s.rows, mail[n]).rows,
     say |-> [s.say EXCEPT ![mail[n].job] = Applied(s.rows, mail[n]).say]]
Steps(f, m) ==
    /\ DOMAIN f = 0 .. m /\ f[0] = [rows |-> permits, say |-> answer]
    /\ \A n \in 1 .. m : f[n] = Stepped(f[n - 1], n)

LEMMA LeastNatural ==
    ASSUME NEW S \in SUBSET Nat, S # {}
    PROVE  \E n \in S : \A m \in S : n <= m
<1>1. PICK n \in S : \A m \in S : ~ (<<m, n>> \in OpToRel(<, Nat))
    BY NatLessThanWellFounded, WFMin
<1>2. \A m \in S : ~ (m < n) BY <1>1 DEF OpToRel
<1> QED BY <1>2

LEMMA StepsExist == ASSUME NEW m \in Nat PROVE \E f : Steps(f, m)
<1> DEFINE Bad == {n \in Nat : ~ \E f : Steps(f, n)}
<1>1. SUFFICES ASSUME Bad # {} PROVE FALSE OBVIOUS
<1>2. PICK n \in Bad : \A l \in Bad : n <= l BY <1>1, LeastNatural
<1>3. n # 0
    <2>1. PICK v : v = [rows |-> permits, say |-> answer] OBVIOUS
    <2>2. PICK f : f = [i \in 0 .. 0 |-> v] OBVIOUS
    <2>3. Steps(f, 0) BY <2>1, <2>2 DEF Steps
    <2> QED BY <2>3
<1>4. n - 1 \in Nat /\ n - 1 \notin Bad BY <1>2, <1>3
<1>5. PICK g : Steps(g, n - 1) BY <1>4
<1>6. PICK h : h = Stepped(g[n - 1], n) OBVIOUS
<1>7. PICK f : f = [i \in 0 .. n |-> IF i = n THEN h ELSE g[i]] OBVIOUS
<1>8. DOMAIN f = 0 .. n /\ f[n] = h /\ \A i \in 0 .. n - 1 : f[i] = g[i] BY <1>4, <1>7
<1>9. f[0] = [rows |-> permits, say |-> answer] BY <1>4, <1>5, <1>8 DEF Steps
<1>10. \A i \in 1 .. n : f[i] = Stepped(f[i - 1], i)
    <2> SUFFICES ASSUME NEW i \in 1 .. n PROVE f[i] = Stepped(f[i - 1], i) OBVIOUS
    <2>1. i - 1 \in 0 .. n - 1 BY <1>4
    <2>2. f[i - 1] = g[i - 1] BY <1>8, <2>1
    <2>3. CASE i = n BY <1>6, <1>8, <2>2, <2>3
    <2>4. CASE i # n
        <3>1. i \in 1 .. n - 1 /\ i \in 0 .. n - 1 BY <2>4, <1>4
        <3> QED BY <1>5, <1>8, <2>2, <3>1 DEF Steps
    <2> QED BY <2>3, <2>4
<1>11. Steps(f, n) BY <1>8, <1>9, <1>10 DEF Steps
<1> QED BY <1>11, <1>2

LEMMA BatchSteps ==
    ASSUME mail \in Seq(Requests)
    PROVE  \E f : Steps(f, Len(mail)) /\ Batch = f[Len(mail)]
<1> DEFINE N == Len(mail)
<1> DEFINE D(f) == [n \in 0 .. N |->
              IF n = 0 THEN [rows |-> permits, say |-> answer]
              ELSE LET a == Applied(f[n - 1].rows, mail[n])
                   IN  [rows |-> a.rows, say |-> [f[n - 1].say EXCEPT ![mail[n].job] = a.say]]]
<1> DEFINE g == CHOOSE f : f = D(f)
<1>1. N \in Nat OBVIOUS
<1>2. Batch = g[N] BY Zenon DEF Batch
<1>3. g = D(g)
    <2>1. PICK f : Steps(f, N) BY <1>1, StepsExist
    <2> HIDE DEF N
    <2>2. PICK e : e = [n \in 0 .. N |-> f[n]] OBVIOUS
    <2>3. DOMAIN e = 0 .. N /\ \A n \in 0 .. N : e[n] = f[n] BY <2>2
    <2>4. \A n \in 0 .. N : e[n] = D(e)[n]
        <3> SUFFICES ASSUME NEW n \in 0 .. N PROVE e[n] = D(e)[n] OBVIOUS
        <3>1. CASE n = 0 BY <1>1, <2>1, <2>3, <3>1 DEF Steps
        <3>2. CASE n # 0
            <4>1. n \in 1 .. N /\ n - 1 \in 0 .. N BY <1>1, <3>2
            <4>2. f[n] = Stepped(f[n - 1], n) BY <2>1, <4>1 DEF Steps
            <4>3. e[n] = Stepped(e[n - 1], n) BY <2>3, <4>1, <4>2
            <4> QED BY <3>2, <4>3 DEF Stepped
        <3> QED BY <3>1, <3>2
    <2>5. e = D(e) BY <2>2, <2>3, <2>4
    <2>6. \E x : x = D(x) BY <2>5
    <2> HIDE DEF D
    <2> QED BY <2>6
<1> HIDE DEF g, N
<1>4. Steps(g, N)
    <2>1. DOMAIN g = 0 .. N BY <1>3
    <2>2. g[0] = [rows |-> permits, say |-> answer] BY <1>1, <1>3
    <2>3. ASSUME NEW n \in 1 .. N PROVE g[n] = Stepped(g[n - 1], n)
        <3>1. n \in 0 .. N /\ n # 0 BY <1>1
        <3>2. g[n] = D(g)[n] BY <1>3
        <3> HIDE DEF D
        <3>3. D(g)[n] = Stepped(g[n - 1], n) BY <3>1 DEF D, Stepped
        <3> QED BY <3>2, <3>3
    <2> QED BY <2>1, <2>2, <2>3 DEF Steps
<1> QED BY <1>2, <1>4 DEF N

(* One request: the limit holds and its answer tells what was done.        *)
LEMMA AppliedFacts ==
    ASSUME apiLimit \in Nat, NEW rows, Within(rows), NEW r \in Requests, r.job \in Api, r.gen = ctl[r.job].gen,
           r.act = "acquire" <=> <<r.job, r.gen>> \notin rows
    PROVE  /\ Within(Applied(rows, r).rows)
           /\ Answered(Applied(rows, r).rows, Applied(rows, r).say, r)
           /\ \A p : p # <<r.job, r.gen>> => (p \in Applied(rows, r).rows <=> p \in rows)
<1>1. PICK id : id = <<r.job, r.gen>> OBVIOUS
<1>2. r.act \in {"acquire", "release"} /\ id \in Jobs \X Nat /\ id[1] = r.job /\ id[2] = r.gen
    BY <1>1 DEF Requests
<1>3. Cardinality(rows) \in Nat /\ Foreign \in Nat /\ apiLimit \in Nat /\ IsFiniteSet(rows)
    BY FS_CardinalityType, TaskAssumption DEF Within
<1>4. ASSUME id \notin rows, Free(rows) PROVE Within(rows \cup {id})
    <2>1. IsFiniteSet(rows \cup {id}) /\ Cardinality(rows \cup {id}) = Cardinality(rows) + 1
        BY <1>3, <1>4, FS_AddElement
    <2>2. Cardinality(rows) + 1 + Foreign <= apiLimit BY <1>3, <1>4 DEF Free
    <2>3. Cardinality(rows \cup {id}) + Foreign <= apiLimit BY <2>1, <2>2
    <2>4. \A p \in rows \cup {id} : p[1] \in Api /\ p[2] = ctl[p[1]].gen BY <1>2 DEF Within
    <2> QED BY <1>2, <2>1, <2>3, <2>4 DEF Within
<1>5. ASSUME id \in rows PROVE Within(rows \ {id})
    <2>1. IsFiniteSet(rows \ {id}) /\ Cardinality(rows \ {id}) = Cardinality(rows) - 1
        BY <1>3, <1>5, FS_RemoveElement
    <2> QED BY <1>3, <2>1 DEF Within
<1>6. PICK a : a = Applied(rows, r) OBVIOUS
<1>7. CASE r.act = "acquire"
    <2>1. id \notin rows BY <1>1, <1>7
    <2>2. \/ a = [rows |-> rows, say |-> "refused"]
          \/ a = [rows |-> rows, say |-> "no"]
          \/ Free(rows) /\ a = [rows |-> rows \cup {id}, say |-> "yes"]
        BY <1>1, <1>6, <1>7, <2>1 DEF Applied
    <2>3. \/ a.rows = rows /\ a.say \in {"no", "refused"}
          \/ Free(rows) /\ a.rows = rows \cup {id} /\ a.say = "yes"
        BY <2>2
    <2> QED BY <1>1, <1>4, <1>6, <1>7, <2>1, <2>3 DEF Answered
<1>8. CASE r.act = "release"
    <2>1. id \in rows BY <1>1, <1>8
    <2>2. a = [rows |-> rows \ {id}, say |-> "yes"]
        BY <1>1, <1>6, <1>8, <2>1 DEF Applied
    <2> QED BY <1>1, <1>5, <1>6, <1>8, <2>1, <2>2 DEF Answered
<1> QED BY <1>2, <1>7, <1>8

(* A request in the mail: its controller waits, and knows what it has.     *)
LEMMA MailFacts ==
    ASSUME JInv, NEW n \in 1 .. Len(mail)
    PROVE  /\ mail[n] \in Requests /\ mail[n].job \in Api /\ mail[n].job \in Jobs
           /\ mail[n].gen = ctl[mail[n].job].gen
           /\ mail[n].act = "acquire" <=> <<mail[n].job, mail[n].gen>> \notin permits
           /\ At(mail[n].job) = IF mail[n].act = "acquire" THEN "asked" ELSE "releasing"
<1>1. mail[n] \in Requests BY DEF JInv, PermitTypes
<1>2. PICK j \in Jobs : j = mail[n].job BY <1>1 DEF Requests
<1>3. /\ answer[j] = "pending" /\ mail[n].gen = ctl[j].gen
      /\ At(j) = IF mail[n].act = "acquire" THEN "asked" ELSE "releasing"
    BY <1>2 DEF JInv, PermitInv, Posted
<1>4. Knows(j) BY DEF JInv, PermitInv
<1>5. j \in Api /\ ~Granted(j) BY <1>3, <1>4 DEF Knows, Waiting, Granted
<1>6. mail[n].act = "acquire" <=> ~Owns(j)
    <2>1. CASE mail[n].act = "acquire" BY <1>3, <1>4, <1>5, <2>1 DEF Knows
    <2>2. CASE mail[n].act # "acquire" BY <1>3, <1>4, <1>5, <2>2 DEF Knows
    <2> QED BY <2>1, <2>2
<1> QED BY <1>1, <1>2, <1>3, <1>5, <1>6 DEF Owns

(* The table and the answers after the first n requests.                   *)
Progress(s, n) ==
    /\ Within(s.rows) /\ s.say \in [Jobs -> Answers]
    /\ \A j \in Jobs : ~Mailed(j, n) =>
          s.say[j] = answer[j] /\ (<<j, ctl[j].gen>> \in s.rows <=> <<j, ctl[j].gen>> \in permits)
    /\ \A m \in 1 .. n : Answered(s.rows, s.say[mail[m].job], mail[m])

LEMMA ProgressStep ==
    ASSUME JInv, NEW n \in 1 .. Len(mail), NEW s, Progress(s, n - 1)
    PROVE  Progress(Stepped(s, n), n)
<1>1. PICK r : r = mail[n] OBVIOUS
<1>2. /\ r \in Requests /\ r.job \in Api /\ r.job \in Jobs /\ r.gen = ctl[r.job].gen
      /\ r.act = "acquire" <=> <<r.job, r.gen>> \notin permits
    BY <1>1, MailFacts
<1>3. Len(mail) \in Nat /\ n \in Nat /\ n - 1 \in Nat BY DEF JInv, PermitTypes
<1>4. \A m \in 1 .. n - 1 : m \in 1 .. Len(mail) /\ mail[m].job # r.job
    <2> SUFFICES ASSUME NEW m \in 1 .. n - 1 PROVE m \in 1 .. Len(mail) /\ mail[m].job # r.job OBVIOUS
    <2>1. m \in 1 .. Len(mail) /\ m # n BY <1>3
    <2> QED BY <1>1, <2>1 DEF JInv, PermitInv, Posted
<1>5. ~Mailed(r.job, n - 1) BY <1>4 DEF Mailed
<1>6. r.act = "acquire" <=> <<r.job, r.gen>> \notin s.rows BY <1>2, <1>5 DEF Progress
<1>7. PICK a : a = Applied(s.rows, r) OBVIOUS
<1>8. /\ Within(a.rows) /\ Answered(a.rows, a.say, r)
      /\ \A p : p # <<r.job, r.gen>> => (p \in a.rows <=> p \in s.rows)
    <2>1. Within(s.rows) /\ apiLimit \in Nat BY DEF Progress, JInv, PermitTypes
    <2> QED BY <1>2, <1>6, <1>7, <2>1, AppliedFacts
<1>9. a.say \in Answers BY <1>8 DEF Answered, Answers
<1>10. PICK t : t = Stepped(s, n) OBVIOUS
<1>11. t.rows = a.rows /\ t.say = [s.say EXCEPT ![r.job] = a.say] BY <1>1, <1>7, <1>10 DEF Stepped
<1>12. s.say \in [Jobs -> Answers] BY DEF Progress
<1>13. t.say \in [Jobs -> Answers] /\ t.say[r.job] = a.say /\ \A j \in Jobs : j # r.job => t.say[j] = s.say[j]
    BY <1>2, <1>9, <1>11, <1>12
<1>14. ASSUME NEW j \in Jobs, ~Mailed(j, n)
       PROVE  t.say[j] = answer[j] /\ (<<j, ctl[j].gen>> \in t.rows <=> <<j, ctl[j].gen>> \in permits)
    <2>1. j # r.job BY <1>1, <1>3, <1>14 DEF Mailed
    <2>2. ~Mailed(j, n - 1) BY <1>3, <1>14 DEF Mailed
    <2>3. s.say[j] = answer[j] /\ (<<j, ctl[j].gen>> \in s.rows <=> <<j, ctl[j].gen>> \in permits)
        BY <2>2 DEF Progress
    <2> QED BY <1>8, <1>11, <1>13, <2>1, <2>3
<1>15. ASSUME NEW m \in 1 .. n PROVE Answered(t.rows, t.say[mail[m].job], mail[m])
    <2>1. CASE m = n BY <1>1, <1>8, <1>11, <1>13, <2>1
    <2>2. CASE m # n
        <3>1. m \in 1 .. n - 1 BY <1>3, <2>2
        <3>2. PICK q : q = mail[m] OBVIOUS
        <3>3. q.job \in Jobs /\ q.job # r.job BY <1>4, <3>1, <3>2, MailFacts
        <3>4. Answered(s.rows, s.say[q.job], q) BY <3>1, <3>2 DEF Progress
        <3>5. <<q.job, q.gen>> \in t.rows <=> <<q.job, q.gen>> \in s.rows BY <1>8, <1>11, <3>3
        <3>6. t.say[q.job] = s.say[q.job] BY <1>13, <3>3
        <3> QED BY <3>2, <3>4, <3>5, <3>6 DEF Answered
    <2> QED BY <2>1, <2>2
<1> QED BY <1>8, <1>10, <1>11, <1>13, <1>14, <1>15 DEF Progress

LEMMA BatchFacts == ASSUME JInv PROVE Progress(Batch, Len(mail))
<1>1. PICK N \in Nat : N = Len(mail) BY DEF JInv, PermitTypes
<1>2. PICK f : Steps(f, N) /\ Batch = f[N] BY <1>1, BatchSteps DEF JInv, PermitTypes
<1> DEFINE Bad == {n \in 0 .. N : ~Progress(f[n], n)}
<1>3. SUFFICES ASSUME Bad # {} PROVE FALSE BY <1>1, <1>2
<1>4. Bad \in SUBSET Nat BY <1>1
<1>5. PICK n \in Bad : \A l \in Bad : n <= l BY <1>3, <1>4, LeastNatural
<1>6. n # 0
    <2>1. PICK s : s = f[0] /\ s.rows = permits /\ s.say = answer BY <1>2 DEF Steps
    <2>2. Within(permits) BY DEF JInv, PermitTypes, PermitInv, Budget, Within
    <2>3. answer \in [Jobs -> Answers] BY DEF JInv, PermitTypes
    <2>4. Progress(s, 0) BY <2>1, <2>2, <2>3 DEF Progress, Mailed
    <2> QED BY <1>5, <2>1, <2>4
<1>7. n \in 1 .. N /\ n - 1 \in 0 .. N /\ n - 1 \notin Bad BY <1>1, <1>5, <1>6
<1>8. Progress(f[n - 1], n - 1) /\ f[n] = Stepped(f[n - 1], n) BY <1>2, <1>7 DEF Steps
<1> QED BY <1>1, <1>5, <1>7, <1>8, ProgressStep

(* The requests are answered and the mail is empty.                        *)
Answering(j, n) ==
    /\ answer'[j] \in {"yes", "no", "refused", "lost"}
    /\ mail[n].act = "acquire" => (<<j, ctl[j].gen>> \in permits' <=> answer'[j] \in {"yes", "lost"})
    /\ mail[n].act # "acquire" =>
          answer'[j] # "no" /\ (<<j, ctl[j].gen>> \in permits' <=> answer'[j] \notin {"yes", "lost"})

LEMMA AnswerStep ==
    ASSUME JInv, mail # <<>>, mail' = <<>>, UNCHANGED <<gen, ctl, held, hand, watch, late, settled, gone>>,
           Within(permits'), apiLimit' = apiLimit, keptPermits \cap permits' \subseteq keptPermits',
           answer' \in [Jobs -> Answers],
           \A j \in Jobs : ~Mailed(j, Len(mail)) =>
              answer'[j] = answer[j] /\ (<<j, ctl[j].gen>> \in permits' <=> Owns(j)),
           \A n \in 1 .. Len(mail) : Answering(mail[n].job, n)
    PROVE  JInv'
<1>1. JobTypes' /\ WatchTypes' /\ TimeInv' BY DEF JInv, JobTypes, WatchTypes, TimeInv
<1>2. PermitTypes' BY DEF JInv, PermitTypes, Within
<1>3. ASSUME NEW j \in Jobs PROVE Knows(j)' /\ Placed(j)'
    <2>1. Knows(j) /\ Placed(j) BY DEF JInv, PermitInv
    <2>2. Placed(j)' BY <2>1 DEF Placed, At
    <2>3. CASE ~Mailed(j, Len(mail))
        <3>1. answer'[j] = answer[j] /\ (Owns(j)' <=> Owns(j)) BY <2>3 DEF Owns
        <3> QED BY <2>1, <2>2, <3>1 DEF Knows, At, Granted
    <2>4. CASE Mailed(j, Len(mail))
        <3>1. PICK n \in 1 .. Len(mail) : mail[n].job = j BY <2>4 DEF Mailed
        <3>2. At(j) = (IF mail[n].act = "acquire" THEN "asked" ELSE "releasing") /\ Answering(j, n)
            BY <3>1, MailFacts
        <3>3. At(j)' = At(j) /\ (Granted(j)' <=> answer'[j] \in {"yes", "lost"}) BY DEF At, Granted
        <3>4. Owns(j)' <=> <<j, ctl[j].gen>> \in permits' BY DEF Owns
        <3>5. At(j) = "asked" => (Owns(j)' <=> Granted(j)') BY <3>2, <3>3, <3>4 DEF Answering
        <3>6. At(j) = "releasing" => answer'[j] # "no" /\ (Owns(j)' <=> ~Granted(j)')
            BY <3>2, <3>3, <3>4 DEF Answering
        <3>7. At(j) \in Waiting BY <3>2 DEF Waiting
        <3>8. Knows(j)' BY <2>1, <3>3, <3>5, <3>6, <3>7 DEF Knows, Waiting, Bare, At
        <3> QED BY <2>2, <3>8
    <2> QED BY <2>3, <2>4
<1>4. Posted' BY DEF Posted
<1>5. Budget'
    <2>1. Budget /\ apiLimit \in Nat /\ IsFiniteSet(permits') BY DEF JInv, PermitTypes, PermitInv, Within
    <2>2. Cardinality(permits) \in Nat /\ Cardinality(permits') \in Nat /\ Foreign \in Nat
        BY <2>1, TaskAssumption, FS_CardinalityType DEF Budget
    <2>3. permits' \subseteq permits => Cardinality(permits') <= Cardinality(permits)
        BY <2>1, FS_Subset DEF Budget
    <2>4. Cardinality(permits') + Foreign <= apiLimit \/ permits' \subseteq keptPermits'
        BY <2>1, <2>2, <2>3 DEF Budget, Within
    <2> QED BY <2>1, <2>4 DEF Budget, Within
<1>6. ~settled
    <2>1. 1 \in 1 .. Len(mail) BY DEF JInv, PermitTypes
    <2>2. mail[1].job \in Api /\ At(mail[1].job) \in {"asked", "releasing"} BY <2>1, MailFacts
    <2> QED BY <2>2 DEF JInv, PermitInv, Closed
<1>7. Closed' BY <1>6 DEF Closed
<1> QED BY <1>1, <1>2, <1>3, <1>4, <1>5, <1>7 DEF JInv, PermitInv

LEMMA BatchKeeps == ASSUME JInv, WriteBatch \/ BatchFails PROVE JInv'
<1> USE DEF rowVars, attemptVars, laneVars, limitVars, envVars
<1>1. /\ mail # <<>> /\ mail' = <<>> /\ UNCHANGED <<gen, ctl, held, hand, watch, late, settled, gone>>
    BY DEF WriteBatch, BatchFails
<1>2. PICK b : b = Batch OBVIOUS
<1>3. Progress(b, Len(mail)) BY <1>2, BatchFacts
<1>4. Within(b.rows) /\ b.say \in [Jobs -> Answers] BY <1>3 DEF Progress
<1>5. ASSUME NEW n \in 1 .. Len(mail)
      PROVE  Answered(b.rows, b.say[mail[n].job], mail[n])
    BY <1>3 DEF Progress
<1>6. ASSUME NEW j \in Jobs, ~Mailed(j, Len(mail))
      PROVE  b.say[j] = answer[j] /\ (<<j, ctl[j].gen>> \in b.rows <=> Owns(j))
    BY <1>3, <1>6 DEF Progress, Owns
<1>7. CASE WriteBatch
    <2>1. /\ permits' = b.rows /\ answer' = b.say /\ apiLimit' = apiLimit
          /\ keptPermits' = keptPermits \cap permits'
        BY <1>2, <1>7 DEF WriteBatch
    <2>2. ASSUME NEW n \in 1 .. Len(mail) PROVE Answering(mail[n].job, n)
        BY <1>5, <2>1, MailFacts DEF Answered, Answering
    <2> QED BY <1>1, <1>4, <1>6, <2>1, <2>2, AnswerStep
<1>8. CASE BatchFails
    <2>1. ASSUME permits' = permits, UNCHANGED <<apiLimit, keptPermits>>,
                 answer' = [j \in Jobs |-> IF \E n \in 1 .. Len(mail) : mail[n].job = j THEN "refused" ELSE answer[j]]
          PROVE  JInv'
        <3>1. answer' \in [Jobs -> Answers] BY <2>1, Controlled DEF Answers
        <3>2. Within(permits') BY <2>1 DEF JInv, PermitTypes, PermitInv, Budget, Within
        <3>3. ASSUME NEW n \in 1 .. Len(mail) PROVE Answering(mail[n].job, n)
            <4>1. mail[n].job \in Jobs /\ answer'[mail[n].job] = "refused" BY <2>1, MailFacts
            <4> QED BY <2>1, <4>1, MailFacts DEF Answering
        <3>4. ASSUME NEW j \in Jobs, ~Mailed(j, Len(mail))
              PROVE  answer'[j] = answer[j] /\ (<<j, ctl[j].gen>> \in permits' <=> Owns(j))
            BY <2>1, <3>4 DEF Mailed, Owns
        <3> QED BY <1>1, <2>1, <3>1, <3>2, <3>3, <3>4, AnswerStep
    <2>2. ASSUME permits' = b.rows, apiLimit' = apiLimit, keptPermits' = keptPermits \cap permits',
                 answer' = [j \in Jobs |-> IF /\ \E n \in 1 .. Len(mail) : mail[n].job = j
                                              /\ b.say[j] = "yes"
                                           THEN "lost" ELSE b.say[j]]
          PROVE  JInv'
        <3>1. answer' \in [Jobs -> Answers] BY <1>4, <2>2 DEF Answers
        <3>2. ASSUME NEW n \in 1 .. Len(mail) PROVE Answering(mail[n].job, n)
            <4>1. mail[n].job \in Jobs BY MailFacts
            <4>2. answer'[mail[n].job] = IF b.say[mail[n].job] = "yes" THEN "lost" ELSE b.say[mail[n].job]
                BY <2>2, <4>1
            <4> QED BY <1>5, <2>2, <4>2, MailFacts DEF Answered, Answering
        <3>3. ASSUME NEW j \in Jobs, ~Mailed(j, Len(mail))
              PROVE  answer'[j] = answer[j] /\ (<<j, ctl[j].gen>> \in permits' <=> Owns(j))
            BY <1>6, <2>2, <3>3 DEF Mailed
        <3> QED BY <1>1, <1>4, <2>2, <3>1, <3>2, <3>3, AnswerStep
    <2> QED BY <1>2, <1>8, <2>1, <2>2 DEF BatchFails
<1> QED BY <1>7, <1>8

(***************************************************************************)
(* A pull claims several jobs; the session is settled.                     *)
(***************************************************************************)
LEMMA PullKeeps == ASSUME JInv, NEW l \in Lanes, Pull(l) PROVE JInv'
<1> USE DEF permitVars, grantVars, attemptVars, envVars
<1>1. PICK S \in SUBSET {j \in Api : row[j] = "queued" /\ At(j) = "idle"} :
          ctl' = [j \in Jobs |-> IF j \in S THEN [ctl[j] EXCEPT !.pc = "pulled", !.gen = gen[j]] ELSE ctl[j]]
    BY DEF Pull
<1>2. UNCHANGED <<gen, held, grantVars, mail, answer, hand, watch, late, settled, gone>> BY DEF Pull
<1>3. ~settled BY DEF Pull, JInv, PermitInv, Closed
<1>4. ASSUME NEW j \in Jobs, j \in S
      PROVE  /\ ctl'[j] \in Controllers /\ ctl'[j].pc = "pulled" /\ At(j) = "idle" /\ j \in Api
             /\ answer[j] = "none" /\ j \notin held /\ hand[j] = "none" /\ \A p \in permits : p[1] # j
    <2>1. Knows(j) /\ Placed(j) /\ hand[j] \in Hands BY Watched
    <2>2. At(j) = "idle" /\ j \in Api BY <1>4
    <2>3. answer[j] = "none" /\ j \notin held /\ ~Owns(j) BY <2>1, <2>2 DEF Knows, Waiting, Bare
    <2>4. hand[j] = "none" BY <2>1, <2>2 DEF Placed, Hands, Waiting
    <2>5. PICK c : c = [ctl[j] EXCEPT !.pc = "pulled", !.gen = gen[j]] OBVIOUS
    <2>6. ctl[j] \in Controllers /\ gen[j] \in Nat BY Controlled
    <2>7. c \in Controllers /\ c.pc = "pulled" BY <2>5, <2>6 DEF Controllers, Places
    <2>8. ctl'[j] = c BY <1>1, <1>4, <2>5
    <2>9. \A p \in permits : p[1] # j
        <3> SUFFICES ASSUME NEW p \in permits, p[1] = j PROVE FALSE OBVIOUS
        <3>1. p = <<p[1], p[2]>> /\ p[2] = ctl[p[1]].gen BY DEF JInv, PermitTypes, PermitInv, Budget
        <3> QED BY <2>3, <3>1 DEF Owns
    <2> QED BY <2>2, <2>3, <2>4, <2>7, <2>8, <2>9
<1>5. \A j \in Jobs : j \notin S => ctl'[j] = ctl[j] BY <1>1
<1>6. JobTypes'
    <2>1. \A j \in Jobs : ctl'[j] \in Controllers BY <1>4, <1>5, Controlled
    <2>2. ctl' = [j \in Jobs |-> ctl'[j]] BY <1>1
    <2>3. ctl' \in [Jobs -> Controllers] BY <2>1, <2>2
    <2> QED BY <1>2, <2>3 DEF JInv, JobTypes
<1>7. WatchTypes' /\ PermitTypes' /\ TimeInv' BY <1>2 DEF JInv, WatchTypes, PermitTypes, TimeInv
<1>8. ASSUME NEW j \in Jobs PROVE Knows(j)' /\ Placed(j)'
    <2>1. Knows(j) /\ Placed(j) BY DEF JInv, PermitInv
    <2>2. CASE j \in S
        <3>1. ~Owns(j)' BY <1>2, <1>4, <2>2 DEF Owns
        <3>2. Knows(j)' BY <1>2, <1>4, <2>2, <3>1 DEF Knows, At, Waiting, Bare
        <3>3. Placed(j)' BY <1>2, <1>4, <2>2 DEF Placed, At, Hands
        <3> QED BY <3>2, <3>3
    <2>3. CASE j \notin S
        <3>1. ctl'[j] = ctl[j] BY <1>5, <2>3
        <3> QED BY <1>2, <2>1, <3>1 DEF Knows, Placed, At, Owns, Granted
    <2> QED BY <2>2, <2>3
<1>9. Posted'
    <2>1. ASSUME NEW n \in 1 .. Len(mail) PROVE ctl'[mail[n].job] = ctl[mail[n].job]
        <3>1. mail[n].job \in Jobs /\ At(mail[n].job) \in {"asked", "releasing"} BY MailFacts
        <3> QED BY <1>4, <1>5, <3>1
    <2> QED BY <1>2, <2>1 DEF JInv, PermitInv, Posted, At
<1>10. Budget'
    <2>1. ASSUME NEW p \in permits PROVE p[1] \in Api /\ p[2] = ctl'[p[1]].gen
        <3>1. p[1] \in Api /\ p[1] \in Jobs /\ p[2] = ctl[p[1]].gen
            BY DEF JInv, PermitTypes, PermitInv, Budget
        <3> QED BY <1>4, <1>5, <3>1
    <2> QED BY <1>2, <2>1 DEF JInv, PermitInv, Budget
<1>11. Closed' BY <1>2, <1>3 DEF Closed
<1> QED BY <1>6, <1>7, <1>8, <1>9, <1>10, <1>11 DEF JInv, PermitInv

LEMMA SettleKeeps == ASSUME JInv, SettleSession PROVE JInv'
<1> USE DEF attemptVars, laneVars, limitVars
<1>1. /\ UNCHANGED <<ctl, apiLimit, keptPermits, mail, answer, hand, watch, late, gone>>
      /\ permits' = {} /\ held' = {} /\ gone = Lanes
    BY DEF SettleSession
<1>2. \A j \in Jobs : At(j) \in {"idle", "stuck", "over"} BY DEF SettleSession
<1>3. gen' \in [Jobs -> Nat]
    <2>1. gen' = [j \in Jobs |-> IF row[j] = "running" THEN gen[j] + 1 ELSE gen[j]] BY DEF SettleSession
    <2>2. \A j \in Jobs : gen[j] \in Nat BY Controlled
    <2> QED BY <2>1, <2>2
<1>4. JobTypes' /\ WatchTypes' /\ PermitTypes' /\ TimeInv'
    BY <1>1, <1>3 DEF JInv, JobTypes, WatchTypes, PermitTypes, TimeInv
<1>5. ASSUME NEW j \in Jobs PROVE Knows(j)' /\ Placed(j)'
    <2>1. Knows(j) /\ Placed(j) /\ At(j) \in {"idle", "stuck", "over"} BY <1>2 DEF JInv, PermitInv
    <2>2. ~Owns(j)' BY <1>1 DEF Owns
    <2>3. Knows(j)' BY <1>1, <2>1, <2>2 DEF Knows, At, Waiting, Bare
    <2>4. Placed(j)' BY <1>1, <2>1 DEF Placed, At
    <2> QED BY <2>3, <2>4
<1>6. Posted' BY <1>1 DEF JInv, PermitInv, Posted, At
<1>7. Budget'
    <2>1. IsFiniteSet({}) /\ Cardinality({}) = 0 BY FS_EmptySet
    <2> QED BY <1>1, <2>1, TaskAssumption DEF Budget
<1>8. Closed' BY <1>1, <1>2, TaskAssumption DEF Closed, At
<1> QED BY <1>4, <1>5, <1>6, <1>7, <1>8 DEF JInv, PermitInv

LEMMA JobsInit == ASSUME Init PROVE JInv
<1>1. ASSUME NEW j \in Jobs
      PROVE  /\ ctl[j] = [pc |-> "idle", gen |-> 0, att |-> 0, next |-> "over"] /\ hand[j] = "none"
             /\ answer[j] = "none" /\ watch[j] = NoWatch /\ gen[j] = 0
    BY DEF Init
<1>2. ASSUME NEW j \in Jobs PROVE ctl[j] \in Controllers /\ ctl[j].pc = "idle"
    BY <1>1 DEF Controllers, Places
<1>3. JobTypes BY <1>2 DEF Init, JobTypes
<1>4. WatchTypes BY NoWatchFits DEF Init, WatchTypes, Hands
<1>5. PermitTypes BY TaskAssumption DEF Init, PermitTypes, Answers
<1>6. TimeInv BY <1>1, NoWatchFits DEF TimeInv
<1>7. ASSUME NEW j \in Jobs PROVE Knows(j) /\ Placed(j)
    BY <1>1, <1>2 DEF Init, Knows, Placed, At, Owns, Waiting, Bare, Hands
<1>8. Posted BY DEF Init, Posted
<1>9. Budget BY FS_EmptySet, TaskAssumption DEF Init, Budget
<1>10. Closed BY DEF Init, Closed
<1> QED BY <1>3, <1>4, <1>5, <1>6, <1>7, <1>8, <1>9, <1>10 DEF JInv, PermitInv

(* Every step keeps the types, the deadlines and the permits.              *)
LEMMA JobsStep == ASSUME JInv, [Next]_vars PROVE JInv'
<1>1. CASE UNCHANGED vars
    <2>1. UNCHANGED <<ctl, permitVars, hand, watch, late, settled, gen, gone>>
        BY <1>1 DEF vars, rowVars, permitVars, grantVars, attemptVars, laneVars, limitVars, envVars
    <2>2. gen' \in [Jobs -> Nat] BY <2>1 DEF JInv, JobTypes
    <2> QED BY <2>1, <2>2, FrameKeeps DEF permitVars, grantVars
<1>2. ASSUME NEW l \in Lanes, ReadLimit(l) \/ Pull(l) \/ LaneReturns(l) PROVE JInv' BY <1>2, PullKeeps, OthersKeep
<1>3. ASSUME NEW j \in Jobs, ControllerStep(j) PROVE JInv'
    BY <1>3, BareKeeps, AcquireKeeps, TakeKeeps, ReleasedKeeps, FinishKeeps, StopKeeps DEF ControllerStep
<1>4. ASSUME NEW j \in Jobs, FrameworkStep(j) \/ UserStep(j) PROVE JInv'
    <2>1. HandlerStep(j) \/ RaisePaused(j) \/ YieldPermit(j)
        BY <1>4 DEF FrameworkStep, UserStep, HandlerStep
    <2> QED BY <2>1, HandlerKeeps, BareKeeps, YieldKeeps
<1>5. ASSUME NEW j \in Jobs, NEW k \in Timers, DeadlinePasses(j, k) \/ Expire(j, k) \/ WakeTimedOut(j) PROVE JInv'
    BY <1>5, DeadlineKeeps
<1>6. CASE SupervisorStep
    <2>1. ASSUME NEW j \in Jobs, WakeTimedOut(j) PROVE JInv' BY <1>5, <2>1 DEF Timers
    <2>2. ASSUME NEW j \in Jobs, NEW k \in {"total", "chk", "ext"}, Expire(j, k) PROVE JInv'
        BY <1>5, <2>2 DEF Timers
    <2> QED BY <1>6, <2>1, <2>2, OthersKeep, LeasesKeep DEF SupervisorStep
<1>7. ASSUME NEW j \in Jobs, RestartJob(j) \/ PauseJob(j) \/ ResumeJob(j) PROVE JInv' BY <1>7, OthersKeep
<1>8. ASSUME NEW j \in Jobs, NEW k \in {"total", "chk", "ext"}, DeadlinePasses(j, k) PROVE JInv'
    BY <1>5, <1>8 DEF Timers
<1> QED BY <1>1, <1>2, <1>3, <1>4, <1>6, <1>7, <1>8, OthersKeep, BatchKeeps, SettleKeeps DEF Next

(***************************************************************************)
(* The lanes share the limit.                                              *)
(***************************************************************************)
LEMMA DivMod ==
    ASSUME NEW a \in Nat, NEW n \in Nat, n > 0
    PROVE  a \div n \in Nat /\ a % n \in 0 .. n - 1 /\ a - n * (a \div n) = a % n
<1>1. a - n * (a \div n) = a % n OBVIOUS
<1>2. a \div n \in Nat OBVIOUS
<1>3. a % n \in 0 .. n - 1 OBVIOUS
<1> QED BY <1>1, <1>2, <1>3

LEMMA Split ==
    ASSUME NEW a \in Nat, NEW n \in Nat, n > 0
    PROVE  \E q \in Nat, r \in 0 .. n - 1 : q = a \div n /\ r = a % n /\ a = n * q + r
<1>1. PICK q \in Nat : q = a \div n BY DivMod
<1>2. PICK r \in 0 .. n - 1 : r = a % n BY DivMod
<1>3. a - n * q = r BY <1>1, <1>2, DivMod
<1>4. n * q \in Int OBVIOUS
<1>5. a = n * q + r BY <1>3, <1>4
<1> QED BY <1>1, <1>2, <1>5

(* Fewer lanes with as much to share: no share shrinks.                    *)
LEMMA Shares ==
    ASSUME NEW n \in Nat, NEW m \in Nat, 0 < m, m <= n, NEW q \in Nat, NEW p \in Nat,
           NEW r \in 0 .. n - 1, NEW s \in 0 .. m - 1, n * q + r <= m * p + s
    PROVE  p > q \/ (p = q /\ s >= r)
<1>1. CASE p > q BY <1>1
<1>2. CASE p = q
    <2>1. m * q <= n * q OBVIOUS
    <2>2. m * q \in Int /\ n * q \in Int OBVIOUS
    <2> QED BY <1>2, <2>1, <2>2
<1>3. CASE p < q
    <2>1. m * (p + 1) <= m * q BY <1>3
    <2>2. m * q <= n * q OBVIOUS
    <2>3. m * (p + 1) = m * p + m OBVIOUS
    <2>4. m * p \in Int /\ m * q \in Int /\ n * q \in Int OBVIOUS
    <2>5. m * p + m <= n * q BY <2>1, <2>2, <2>3, <2>4
    <2> QED BY <2>4, <2>5
<1> QED BY <1>1, <1>2, <1>3

Before(R, l) == {m \in R : m < l}
Share(R, total, l) ==
    total \div Cardinality(R) + (IF Cardinality(Before(R, l)) < total % Cardinality(R) THEN 1 ELSE 0)

LEMMA RanksFinite ==
    ASSUME NEW R \in SUBSET Lanes
    PROVE  /\ IsFiniteSet(R) /\ Cardinality(R) \in Nat /\ R \subseteq Nat
           /\ \A l : IsFiniteSet(Before(R, l)) /\ Cardinality(Before(R, l)) \in Nat
<1>1. IsFiniteSet(Lanes) /\ Lanes \subseteq Nat BY TaskAssumption
<1>2. IsFiniteSet(R) BY <1>1, FS_Subset
<1>3. \A l : Before(R, l) \subseteq R BY DEF Before
<1>4. \A l : IsFiniteSet(Before(R, l)) BY <1>2, <1>3, FS_Subset
<1> QED BY <1>1, <1>2, <1>4, FS_CardinalityType

(* A lane before another has the smaller rank, and every rank is below the *)
(* number of lanes.                                                        *)
LEMMA RankGrows ==
    ASSUME NEW R \in SUBSET Lanes, NEW l \in R, NEW T \in SUBSET R, Before(R, l) \cup {l} \subseteq T
    PROVE  Cardinality(Before(R, l)) < Cardinality(T)
<1>1. l \in Nat BY RanksFinite
<1>2. l \notin Before(R, l) BY <1>1 DEF Before
<1>3. IsFiniteSet(T) BY RanksFinite, FS_Subset
<1>4. Cardinality(Before(R, l) \cup {l}) = Cardinality(Before(R, l)) + 1 BY <1>2, RanksFinite, FS_AddElement
<1>5. Cardinality(Before(R, l) \cup {l}) <= Cardinality(T) BY <1>3, FS_Subset
<1>6. Cardinality(T) \in Nat /\ Cardinality(Before(R, l)) \in Nat BY <1>3, RanksFinite, FS_CardinalityType
<1> QED BY <1>4, <1>5, <1>6

LEMMA RankBelow ==
    ASSUME NEW R \in SUBSET Lanes, NEW l \in R
    PROVE  Cardinality(Before(R, l)) < Cardinality(R)
BY RankGrows DEF Before

LEMMA RankUnique ==
    ASSUME NEW R \in SUBSET Lanes, NEW l \in R, NEW m \in R,
           Cardinality(Before(R, l)) = Cardinality(Before(R, m))
    PROVE  l = m
<1>1. R \subseteq Nat /\ l \in Nat /\ m \in Nat BY RanksFinite
<1>2. ASSUME NEW a \in R, NEW b \in R, a < b PROVE Cardinality(Before(R, a)) < Cardinality(Before(R, b))
    <2>1. a \in Nat /\ b \in Nat BY <1>1
    <2>2. \A x \in R : x < a => x < b
        <3> SUFFICES ASSUME NEW x \in R, x < a PROVE x < b OBVIOUS
        <3>1. x \in Nat BY <1>1
        <3> QED BY <1>2, <2>1, <3>1
    <2>3. Before(R, a) \cup {a} \subseteq Before(R, b) BY <1>2, <2>2 DEF Before
    <2>4. Before(R, b) \in SUBSET R BY DEF Before
    <2> QED BY <2>3, <2>4, RankGrows
<1>3. Cardinality(Before(R, l)) \in Nat /\ Cardinality(Before(R, m)) \in Nat BY RanksFinite
<1>4. ~(l < m) BY <1>2, <1>3
<1>5. ~(m < l) BY <1>2, <1>3
<1> QED BY <1>1, <1>4, <1>5

LEMMA ShareOf ==
    ASSUME NEW R \in SUBSET Lanes, R # {}, NEW total \in Nat
    PROVE  \E q \in Nat, r \in 0 .. Cardinality(R) - 1 :
              /\ total = Cardinality(R) * q + r
              /\ \A l : Share(R, total, l) = q + (IF Cardinality(Before(R, l)) < r THEN 1 ELSE 0)
<1>1. PICK n \in Nat : n = Cardinality(R) BY RanksFinite
<1>2. n > 0
    <2>1. n # 0 BY <1>1, RanksFinite, FS_EmptySet
    <2> QED BY <2>1
<1>3. PICK q \in Nat, r \in 0 .. n - 1 : q = total \div n /\ r = total % n /\ total = n * q + r
    BY <1>2, Split
<1>4. \A l : Share(R, total, l) = q + (IF Cardinality(Before(R, l)) < r THEN 1 ELSE 0)
    BY <1>1, <1>3 DEF Share
<1> QED BY <1>1, <1>3, <1>4

LEMMA ShareNat ==
    ASSUME NEW R \in SUBSET Lanes, R # {}, NEW total \in Nat, NEW l
    PROVE  Share(R, total, l) \in Nat
<1>1. PICK q \in Nat, r \in 0 .. Cardinality(R) - 1 :
          /\ total = Cardinality(R) * q + r
          /\ \A m : Share(R, total, m) = q + (IF Cardinality(Before(R, m)) < r THEN 1 ELSE 0)
    BY ShareOf, Zenon
<1>2. Share(R, total, l) = q \/ Share(R, total, l) = q + 1 BY <1>1
<1> QED BY <1>2

(* Fewer lanes, or a higher limit: no lane has to give a fiber up.         *)
LEMMA ShareGrows ==
    ASSUME NEW R \in SUBSET Lanes, NEW T \in SUBSET R, NEW l \in T,
           NEW total \in Nat, NEW more \in Nat, total <= more
    PROVE  Share(T, more, l) >= Share(R, total, l)
<1>0. T \in SUBSET Lanes /\ T # {} /\ R # {} OBVIOUS
<1>1. PICK n \in Nat : n = Cardinality(R) BY RanksFinite
<1>2. PICK m \in Nat : m = Cardinality(T) BY <1>0, RanksFinite
<1>3. m <= n BY <1>1, <1>2, RanksFinite, FS_Subset
<1>4. m > 0
    <2>1. m # 0 BY <1>0, <1>2, RanksFinite, FS_EmptySet
    <2> QED BY <2>1
<1>5. PICK q \in Nat, r \in 0 .. n - 1 :
          total = n * q + r /\ Share(R, total, l) = q + (IF Cardinality(Before(R, l)) < r THEN 1 ELSE 0)
    BY <1>0, <1>1, ShareOf
<1>6. PICK p \in Nat, s \in 0 .. m - 1 :
          more = m * p + s /\ Share(T, more, l) = p + (IF Cardinality(Before(T, l)) < s THEN 1 ELSE 0)
    BY <1>0, <1>2, ShareOf
<1>7. p > q \/ (p = q /\ s >= r) BY <1>3, <1>4, <1>5, <1>6, Shares
<1>8. PICK x \in Nat : x = Cardinality(Before(R, l)) BY RanksFinite
<1>9. PICK y \in Nat : y = Cardinality(Before(T, l)) BY <1>0, RanksFinite
<1>10. y <= x
    <2>1. Before(T, l) \in SUBSET Before(R, l) BY DEF Before
    <2> QED BY <1>8, <1>9, <2>1, RanksFinite, FS_Subset
<1>11. CASE p > q BY <1>5, <1>6, <1>8, <1>9, <1>11
<1>12. CASE p = q /\ s >= r BY <1>5, <1>6, <1>8, <1>9, <1>10, <1>12
<1> QED BY <1>7, <1>11, <1>12

Running == Lanes \ gone
LEMMA LimitIsShare ==
    /\ \A l \in Running : LimitFor(l) = Share(Running, limit, l)
    /\ \A l \in Running' : LimitFor(l)' = Share(Running', limit', l)
<1>1. \A l \in Running : LimitFor(l) = Share(Running, limit, l) BY DEF LimitFor, Running, Share, Before
<1>2. \A l \in Running' : LimitFor(l)' = Share(Running', limit', l) BY DEF LimitFor, Running, Share, Before
<1> QED BY <1>1, <1>2

LEMMA FibersFinite ==
    /\ IsFiniteSet(Api)
    /\ \A S \in SUBSET Api : IsFiniteSet(S) /\ Cardinality(S) \in Nat
<1>1. IsFiniteSet(Api) BY TaskAssumption, FS_Subset
<1>2. \A S \in SUBSET Api : IsFiniteSet(S) BY <1>1, FS_Subset
<1> QED BY <1>1, <1>2, FS_CardinalityType

LEMMA LimitNat == ASSUME LaneTypes, NEW l \in Running PROVE LimitFor(l) \in Nat
<1>1. Running \in SUBSET Lanes /\ Running # {} /\ limit \in Nat BY DEF Running, LaneTypes
<1>2. Share(Running, limit, l) \in Nat BY <1>1, ShareNat
<1> QED BY <1>2, LimitIsShare

(* A lane may lose fibers, return when it has none, and the limit may be   *)
(* raised.                                                                 *)
LEMMA LanesShrink ==
    ASSUME LInv, LaneTypes', gone \subseteq gone',
           \A j \in Api : lane'[j] \in {lane[j], None},
           \A l \in gone' \ gone : Fibers(l) = {},
           kept' = kept, limit <= limit'
    PROVE  LInv'
<1>1. gone' \subseteq Lanes /\ gone \subseteq Lanes /\ limit \in Nat /\ limit' \in Nat
    BY DEF LInv, LaneTypes
<1>2. ASSUME NEW j \in Api PROVE lane'[j] \notin gone'
    <2>1. CASE lane'[j] = None BY <1>1, <2>1, TaskAssumption
    <2>2. CASE lane'[j] = lane[j]
        <3>1. lane[j] \notin gone BY DEF LInv, LaneInv
        <3> QED BY <2>2, <3>1 DEF Fibers
    <2> QED BY <2>1, <2>2
<1>3. ASSUME NEW l \in Running' PROVE Cardinality(Counted(l)') <= LimitFor(l)'
    <2>1. l \in Running /\ Running' \in SUBSET Running /\ Running \in SUBSET Lanes /\ l # None
        BY TaskAssumption DEF Running
    <2>2. Counted(l)' \in SUBSET Counted(l) /\ Counted(l) \in SUBSET Api BY <2>1 DEF Fibers, Counted
    <2>3. Cardinality(Counted(l)') <= Cardinality(Counted(l)) BY <2>2, FibersFinite, FS_Subset
    <2>4. Cardinality(Counted(l)) <= LimitFor(l) BY <2>1 DEF LInv, LaneInv, Running
    <2>5. Cardinality(Counted(l)') \in Nat /\ Cardinality(Counted(l)) \in Nat BY <2>2, FibersFinite
    <2>6. LimitFor(l) \in Nat BY <2>1, LimitNat DEF LInv
    <2>7. LimitFor(l)' \in Nat
        <3>1. Running' \in SUBSET Lanes /\ Running' # {} BY <2>1
        <3>2. Share(Running', limit', l) \in Nat BY <1>1, <3>1, ShareNat
        <3> QED BY <3>2, LimitIsShare
    <2>8. LimitFor(l)' >= LimitFor(l) BY <1>1, <2>1, LimitIsShare, ShareGrows
    <2> QED BY <2>3, <2>4, <2>5, <2>6, <2>7, <2>8
<1>4. LaneInv' BY <1>2, <1>3 DEF LaneInv, Running
<1> QED BY <1>4 DEF LInv

(* What a lane pulls within its share counts, and what it pulls within one *)
(* that was lowered since it read it does not.                             *)
LEMMA LanesPull == ASSUME LInv, NEW l \in Lanes, Pull(l) PROVE LInv'
<1>1. PICK S \in SUBSET {j \in Api : row[j] = "queued" /\ At(j) = "idle"} :
          /\ Cardinality(S) + Cardinality(Fibers(l)) <= share[l]
          /\ lane' = [j \in Jobs |-> IF j \in S THEN l ELSE lane[j]]
          /\ kept' = IF Outdated(l) THEN kept \cup S ELSE kept \ S
    BY DEF Pull
<1>2. l \notin gone /\ gone' = gone /\ limit' = limit /\ share' = [share EXCEPT ![l] = Unread] BY DEF Pull
<1>3. LaneTypes' BY <1>1, <1>2 DEF LInv, LaneTypes, Unread
<1>4. Api \subseteq Jobs /\ S \in SUBSET Api BY TaskAssumption
<1>5. \A j \in Api : lane'[j] \notin gone' BY <1>1, <1>2, <1>4 DEF LInv, LaneInv
<1>6. \A m \in Lanes : LimitFor(m)' = LimitFor(m) BY <1>2 DEF LimitFor
<1>7. ASSUME NEW m \in Running' PROVE Cardinality(Counted(m)') <= LimitFor(m)'
    <2>1. m \in Lanes /\ m \in Running /\ Cardinality(Counted(m)) <= LimitFor(m)
        BY <1>2 DEF Running, LInv, LaneInv
    <2>2. Fibers(m) \in SUBSET Api /\ Counted(m) \in SUBSET Api BY DEF Fibers, Counted
    <2>3. LimitFor(m) \in Nat BY <2>1, LimitNat DEF LInv
    <2>4. CASE m = l /\ ~Outdated(l)
        <3>1. Counted(m)' \in SUBSET (Fibers(m) \cup S) BY <1>1, <1>4, <2>4 DEF Fibers, Counted
        <3>2. Cardinality(Fibers(m) \cup S) =
                 Cardinality(Fibers(m)) + Cardinality(S) - Cardinality(Fibers(m) \cap S)
            BY <1>4, <2>2, FibersFinite, FS_Union
        <3>3. Fibers(m) \cap S \in SUBSET Api /\ Fibers(m) \cup S \in SUBSET Api BY <1>4, <2>2
        <3>4. Counted(m)' \in SUBSET Api BY <3>1, <3>3
        <3>5. /\ Cardinality(Fibers(m)) \in Nat /\ Cardinality(S) \in Nat
              /\ Cardinality(Fibers(m) \cap S) \in Nat /\ Cardinality(Counted(m)') \in Nat
            BY <1>4, <2>2, <3>3, <3>4, FibersFinite
        <3>6. Cardinality(Counted(m)') <= Cardinality(Fibers(m) \cup S) BY <3>1, <3>3, FibersFinite, FS_Subset
        <3>7. share[l] \in Int /\ share[l] <= LimitFor(l)
            <4>1. share[l] \in Int BY DEF LInv, LaneTypes
            <4> QED BY <2>3, <2>4, <4>1 DEF Outdated
        <3>8. Cardinality(Counted(m)') <= LimitFor(m)
            BY <1>1, <2>3, <2>4, <3>2, <3>5, <3>6, <3>7
        <3> QED BY <1>6, <2>1, <3>8
    <2>5. CASE m # l \/ Outdated(l)
        <3>1. Counted(m)' \in SUBSET Counted(m) BY <1>1, <1>4, <2>5 DEF Fibers, Counted
        <3>2. Cardinality(Counted(m)') <= Cardinality(Counted(m)) BY <2>2, <3>1, FibersFinite, FS_Subset
        <3>3. Cardinality(Counted(m)') \in Nat /\ Cardinality(Counted(m)) \in Nat BY <2>2, <3>1, FibersFinite
        <3> QED BY <1>6, <2>1, <2>3, <3>2, <3>3
    <2> QED BY <2>4, <2>5
<1>8. LaneInv' BY <1>5, <1>7 DEF LaneInv, Running
<1> QED BY <1>3, <1>8 DEF LInv

LEMMA LanesInit == ASSUME Init PROVE LInv
<1>1. LaneTypes BY TaskAssumption DEF Init, LaneTypes, Unread
<1>2. \A j \in Api : lane[j] = None BY TaskAssumption DEF Init
<1>3. \A l \in Lanes : Counted(l) = {} BY <1>2, TaskAssumption DEF Fibers, Counted
<1>4. \A j \in Api : lane[j] \notin gone BY <1>1, <1>2, TaskAssumption DEF LaneTypes
<1>5. ASSUME NEW l \in Running PROVE Cardinality(Counted(l)) <= LimitFor(l)
    <2>1. l \in Lanes BY DEF Running
    <2> QED BY <1>1, <1>3, <2>1, LimitNat, FS_EmptySet
<1> QED BY <1>1, <1>4, <1>5 DEF LInv, LaneInv, Running

(* Every step keeps the lanes within their shares.                         *)
LEMMA LanesStep == ASSUME LInv, [Next]_vars PROVE LInv'
<1> USE DEF laneVars, limitVars
<1>0. /\ Api \subseteq Jobs /\ lane \in [Jobs -> Lanes \cup {None}] /\ limit \in Nat /\ limit <= limit
      /\ share \in [Lanes -> Int]
    BY TaskAssumption DEF LInv, LaneTypes
<1>1. ASSUME UNCHANGED laneVars PROVE LInv'
    <2>1. LaneTypes' BY <1>1 DEF LInv, LaneTypes
    <2> QED BY <1>0, <1>1, <2>1, LanesShrink
<1>2. ASSUME NEW j \in Jobs, lane' = [lane EXCEPT ![j] = None], UNCHANGED <<gone, limitVars>> PROVE LInv'
    <2>1. LaneTypes' BY <1>2 DEF LInv, LaneTypes
    <2>2. \A k \in Api : lane'[k] \in {lane[k], None} BY <1>0, <1>2
    <2> QED BY <1>0, <1>2, <2>1, <2>2, LanesShrink
<1>3. ASSUME NEW l \in Lanes, LaneReturns(l) PROVE LInv'
    <2>1. lane' = lane /\ UNCHANGED limitVars /\ gone' = gone \cup {l} /\ Fibers(l) = {} BY <1>3 DEF LaneReturns
    <2>2. LaneTypes' BY <2>1 DEF LInv, LaneTypes
    <2> QED BY <1>0, <2>1, <2>2, LanesShrink
<1>4. CASE SetNodeLimit
    <2>1. /\ lane' = lane /\ gone' = gone /\ share' = share /\ limit' \in Nat
          /\ kept' = IF limit' < limit THEN {j \in Api : lane[j] # None} ELSE kept
        BY <1>4, TaskAssumption DEF SetNodeLimit
    <2>2. LaneTypes' BY <2>1 DEF LInv, LaneTypes
    <2>3. CASE limit <= limit'
        <3>1. kept' = kept BY <1>0, <2>1, <2>3
        <3> QED BY <1>0, <2>1, <2>2, <2>3, <3>1, LanesShrink
    <2>4. CASE limit' < limit
        <3>1. ASSUME NEW l \in Running' PROVE Cardinality(Counted(l)') <= LimitFor(l)'
            <4>1. l # None BY TaskAssumption DEF Running
            <4>2. Counted(l)' = {} BY <2>1, <2>4, <4>1 DEF Counted, Fibers
            <4>3. Running' \in SUBSET Lanes /\ Running' # {} BY DEF Running
            <4>4. Share(Running', limit', l) \in Nat BY <2>1, <4>3, ShareNat
            <4> QED BY <4>2, <4>4, LimitIsShare, FS_EmptySet
        <3>2. \A j \in Api : lane'[j] \notin gone' BY <2>1 DEF LInv, LaneInv
        <3> QED BY <2>2, <3>1, <3>2 DEF LInv, LaneInv, Running
    <2> QED BY <1>0, <2>1, <2>3, <2>4
<1>5. ASSUME NEW l \in Lanes, ReadLimit(l) PROVE LInv'
    <2>1. UNCHANGED <<lane, gone, limit, kept>> /\ share' = [share EXCEPT ![l] = LimitFor(l)] /\ l \in Running
        BY <1>5 DEF ReadLimit, Running
    <2>2. LimitFor(l) \in Nat BY <2>1, LimitNat DEF LInv
    <2>3. LaneTypes' BY <1>0, <2>1, <2>2 DEF LInv, LaneTypes
    <2> QED BY <1>0, <2>1, <2>3, LanesShrink
<1>6. ASSUME NEW j \in Jobs, ControllerStep(j) PROVE LInv'
    <2>1. CASE AbandonUnstarted(j) BY <1>2, <2>1 DEF AbandonUnstarted
    <2>2. CASE StopLane(j) BY <1>2, <2>2 DEF StopLane
    <2>3. CASE Publish(j)
        <3>1. (lane' = [lane EXCEPT ![j] = None] \/ lane' = lane) /\ UNCHANGED <<err, gone, limitVars>>
            BY <2>3 DEF Publish
        <3>2. CASE lane' = lane BY <1>1, <3>1, <3>2
        <3> QED BY <1>2, <3>1, <3>2
    <2>4. CASE StartFiber(j) \/ ClaimJob(j) \/ Acquire(j) \/ TakeAnswer(j) \/ Released(j)
               \/ CreateAttempt(j) \/ FinishAttempt(j) \/ Reclaim(j)
        BY <1>1, <2>4 DEF StartFiber, ClaimJob, Acquire, TakeAnswer, Released, CreateAttempt, FinishAttempt, Reclaim
    <2> QED BY <1>6, <2>1, <2>2, <2>3, <2>4 DEF ControllerStep
<1>7. ASSUME NEW j \in Jobs, FrameworkStep(j) \/ UserStep(j) PROVE LInv'
    <2>1. UNCHANGED laneVars
        BY <1>7 DEF FrameworkStep, UserStep, BeginHandler, CheckpointSaved, BeginExternalWait,
           RenewExternalWait, SignalComplete, RaisePaused, ManagedCall, Checkpoint, EnterWait, Replay,
           EndExternalWait, YieldPermit, HandlerExit, handlerFrame
    <2> QED BY <1>1, <2>1
<1>8. ASSUME \/ SetApiLimit \/ WriteBatch \/ BatchFails \/ SupervisorStep \/ CompareFails \/ SettleSession
             \/ \E j \in Jobs, k \in {"total", "chk", "ext"} : DeadlinePasses(j, k)
             \/ \E j \in Jobs : RestartJob(j) \/ PauseJob(j) \/ ResumeJob(j)
      PROVE  LInv'
    <2>1. UNCHANGED laneVars
        BY <1>8 DEF SetApiLimit, WriteBatch, BatchFails, SupervisorStep, WakeTimedOut, Expire, ReadRevision,
           CompareLeases, CompareFails, SettleSession, DeadlinePasses, RestartJob, PauseJob, ResumeJob,
           handlerFrame
    <2> QED BY <1>1, <2>1
<1>9. CASE UNCHANGED vars BY <1>1, <1>9 DEF vars
<1> QED BY <1>3, <1>4, <1>5, <1>6, <1>7, <1>8, <1>9, LanesPull DEF Next

(***************************************************************************)
(* The shares add up to the limit: the first k lanes have at most          *)
(* k * q + min(k, r) fibers that count.                                    *)
(***************************************************************************)
LEMMA SharesAddUp ==
    ASSUME LInv
    PROVE  Cardinality({j \in Api : lane[j] # None} \ kept) <= limit
<1> DEFINE rank(l) == Cardinality(Before(Running, l))
<1> DEFINE First(k) == {j \in Api \ kept : lane[j] \in Running /\ rank(lane[j]) < k}
<1> DEFINE All == {j \in Api : lane[j] # None} \ kept
<1>1. /\ limit \in Nat /\ Running \in SUBSET Lanes
      /\ \A j \in Api : lane[j] # None => lane[j] \in Running
    <2>1. \A j \in Api : lane[j] \in Lanes \cup {None} /\ lane[j] \notin gone
        BY TaskAssumption DEF LInv, LaneTypes, LaneInv
    <2> QED BY <2>1 DEF LInv, LaneTypes, Running
<1>2. CASE Running = {}
    <2>1. All = {} BY <1>1, <1>2
    <2> QED BY <1>1, <2>1, FS_EmptySet
<1>3. CASE Running # {}
    <2>1. PICK n \in Nat : n = Cardinality(Running) BY <1>1, RanksFinite
    <2>2. PICK q \in Nat, r \in 0 .. n - 1 :
              /\ limit = n * q + r
              /\ \A l : Share(Running, limit, l) = q + (IF rank(l) < r THEN 1 ELSE 0)
        <3>1. \E q \in Nat, r \in 0 .. Cardinality(Running) - 1 :
                 /\ limit = Cardinality(Running) * q + r
                 /\ \A l : Share(Running, limit, l) = q + (IF rank(l) < r THEN 1 ELSE 0)
            BY <1>1, <1>3, ShareOf, Zenon
        <3> QED BY <2>1, <3>1, Zenon
    <2>3. \A l \in Running : Cardinality(Counted(l)) <= q + (IF rank(l) < r THEN 1 ELSE 0)
        BY <2>2, LimitIsShare DEF LInv, LaneInv, Running
    <2>4. \A l \in Running : rank(l) \in Nat /\ rank(l) < n BY <1>1, <2>1, RanksFinite, RankBelow
    <2>5. \A l, m \in Running : rank(l) = rank(m) => l = m BY <1>1, RankUnique
    <2> HIDE DEF rank
    <2> DEFINE least(k) == IF k < r THEN k ELSE r
    <2> DEFINE Bad == {k \in 0 .. n : ~(Cardinality(First(k)) <= k * q + least(k))}
    <2>6. Bad = {}
        <3>1. SUFFICES ASSUME Bad # {} PROVE FALSE OBVIOUS
        <3>2. Bad \in SUBSET Nat BY <2>1
        <3>3. PICK k \in Bad : \A i \in Bad : k <= i BY <3>1, <3>2, LeastNatural
        <3>4. k # 0
            <4>1. First(0) = {} BY <2>4
            <4>2. Cardinality(First(0)) = 0 BY <4>1, FS_EmptySet
            <4>3. 0 * q + least(0) = 0 BY <2>1, <2>2
            <4> QED BY <3>3, <4>2, <4>3
        <3>5. PICK i \in Nat : k = i + 1 /\ i \in 0 .. n /\ i \notin Bad BY <2>1, <3>3, <3>4
        <3>6. PICK x \in Nat : x = Cardinality(First(i)) BY FibersFinite
        <3>7. x <= i * q + least(i) BY <3>5, <3>6
        <3>8. (i + 1) * q = i * q + q /\ i * q \in Nat BY <3>5
        <3>9. CASE \E l \in Running : rank(l) = i
            <4>1. PICK l \in Running : rank(l) = i BY <3>9
            <4>2. First(k) \in SUBSET (First(i) \cup Counted(l))
                <5> SUFFICES ASSUME NEW j \in First(k), j \notin First(i) PROVE j \in Counted(l) OBVIOUS
                <5>1. j \in Api \ kept /\ lane[j] \in Running /\ rank(lane[j]) < i + 1 /\ ~(rank(lane[j]) < i) BY <3>5
                <5>2. rank(lane[j]) = i BY <2>4, <3>5, <5>1
                <5> QED BY <2>5, <4>1, <5>1, <5>2 DEF Fibers, Counted
            <4>3. First(i) \in SUBSET Api /\ Counted(l) \in SUBSET Api BY DEF Fibers, Counted
            <4>4. PICK y \in Nat : y = Cardinality(Counted(l)) BY <4>3, FibersFinite
            <4>5. PICK z \in Nat : z = Cardinality(First(i) \cap Counted(l)) BY <4>3, FibersFinite
            <4>6. /\ IsFiniteSet(First(i) \cup Counted(l))
                  /\ Cardinality(First(i) \cup Counted(l)) = x + y - z
                BY <3>6, <4>3, <4>4, <4>5, FibersFinite, FS_Union
            <4>7. Cardinality(First(k)) <= x + y - z BY <4>2, <4>6, FS_Subset
            <4>8. y <= q + (IF i < r THEN 1 ELSE 0) BY <2>3, <4>1, <4>4
            <4>9. PICK v \in Nat : v = Cardinality(First(k)) BY FibersFinite
            <4>10. v <= k * q + least(k)
                <5>1. PICK u \in Nat : u = i * q BY <3>8
                <5>2. k * q = u + q BY <3>5, <3>8, <5>1
                <5>3. least(k) = least(i) + (IF i < r THEN 1 ELSE 0) BY <2>1, <2>2, <3>5
                <5>4. x <= u + least(i) BY <3>7, <5>1
                <5>5. v <= x + y - z BY <4>7, <4>9
                <5>6. least(i) \in Nat BY <2>1, <2>2
                <5> HIDE DEF least
                <5> QED BY <4>8, <5>2, <5>3, <5>4, <5>5, <5>6
            <4> QED BY <3>3, <4>9, <4>10
        <3>10. CASE ~ \E l \in Running : rank(l) = i
            <4>1. First(k) = First(i)
                <5> SUFFICES ASSUME NEW l \in Running PROVE rank(l) < k <=> rank(l) < i BY <2>4
                <5> QED BY <2>4, <3>5, <3>10
            <4>2. PICK u \in Nat : u = i * q BY <3>8
            <4>3. k * q = u + q BY <3>5, <3>8, <4>2
            <4>4. x <= k * q + least(k) BY <2>1, <2>2, <3>5, <3>7, <4>2, <4>3
            <4> QED BY <3>3, <3>6, <4>1, <4>4
        <3> QED BY <3>9, <3>10
    <2>7. Cardinality(First(n)) <= n * q + least(n) BY <2>1, <2>6
    <2>8. All \in SUBSET First(n) BY <1>1, <2>4
    <2>9. First(n) \in SUBSET Api OBVIOUS
    <2>10. Cardinality(All) <= Cardinality(First(n)) BY <2>8, <2>9, FibersFinite, FS_Subset
    <2>11. least(n) = r BY <2>1, <2>2
    <2>12. Cardinality(All) \in Nat /\ Cardinality(First(n)) \in Nat
        BY <2>9, FibersFinite
    <2> QED BY <1>1, <2>2, <2>7, <2>10, <2>11, <2>12
<1> QED BY <1>2, <1>3

(***************************************************************************)
(* The theorems.                                                           *)
(***************************************************************************)
(* Permits, deadlines and lanes stay consistent through every interleaving *)
(* of controllers, handlers, the supervisor and the mutation lane.         *)
THEOREM TaskInvariance == Spec => []TInv
<1>1. Init => TInv BY JobsInit, LanesInit DEF TInv
<1>2. TInv /\ [Next]_vars => TInv' BY JobsStep, LanesStep DEF TInv
<1> QED BY <1>1, <1>2, PTL DEF Spec

(* API capacity is neither leaked nor given out beyond a limit that goes   *)
(* up and down: more permits than the project's limit are all from before  *)
(* it was lowered (storage/api_admission.py), each is owned by a           *)
(* controller that gives it back, and the fibers started since the node's  *)
(* limit was lowered are within it (fibers.py), whatever answers are lost  *)
(* and lanes return.                                                       *)
THEOREM CapacitySafety == Spec => []CapacityExact
<1>1. TInv => CapacityExact
    <2> SUFFICES ASSUME TInv PROVE CapacityExact OBVIOUS
    <2>1. JInv /\ LInv BY DEF TInv
    <2>2. LanesExact BY <2>1, SharesAddUp DEF LanesExact, LInv, LaneInv
    <2>3. Cardinality(permits) + Foreign <= apiLimit \/ permits \subseteq keptPermits
        BY <2>1 DEF JInv, PermitInv, Budget
    <2>4. ASSUME NEW p \in permits
          PROVE  /\ ~settled /\ ctl[p[1]].gen = p[2]
                 /\ p[1] \in held \/ At(p[1]) \in {"asked", "releasing"}
        <3>1. p[1] \in Jobs /\ p = <<p[1], p[2]>> /\ p[2] = ctl[p[1]].gen
            BY <2>1 DEF JInv, PermitTypes, PermitInv, Budget
        <3>2. ~settled BY <2>1 DEF JInv, PermitInv, Closed
        <3>3. Knows(p[1]) /\ Owns(p[1]) BY <2>1, <3>1 DEF JInv, PermitInv, Owns
        <3> QED BY <3>1, <3>2, <3>3 DEF Knows, Waiting
    <2>5. ASSUME NEW j \in Api, Handling(j), ctl[j].att = 1 PROVE <<j, ctl[j].gen>> \in permits
        <3>1. j \in Jobs /\ Knows(j) BY <2>1, TaskAssumption DEF JInv, PermitInv
        <3> QED BY <2>5, <3>1 DEF Handling, Knows, Owns, Waiting
    <2> QED BY <2>2, <2>3, <2>4, <2>5 DEF CapacityExact, PermitsExact
<1> QED BY <1>1, TaskInvariance, PTL

(* A checkpoint deadline ends an attempt only when it passed in user code  *)
(* or at a pause (supervisor_core.py): never for a report that is being    *)
(* saved, a network call of the framework or the end of the handler.       *)
THEOREM TimeoutSafety == Spec => []NoFalseTimeout
<1>1. TInv => NoFalseTimeout BY DEF TInv, JInv, TimeInv, Honest, NoFalseTimeout
<1> QED BY <1>1, TaskInvariance, PTL
=============================================================================
