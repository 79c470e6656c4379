-------------------------- MODULE AtomicMutations --------------------------
(***************************************************************************)
(* What the mutation lane promises its callers, whatever batches, groups,  *)
(* priorities and writer threads it uses: every request is decided once,   *)
(* an accepted one has its effect before that is told, and a barrier       *)
(* returns only when everything requested before it has been told.  An     *)
(* error is no proof that nothing was done: a transaction is refused whole *)
(* when what follows its commit fails, and then may have been kept.  It is *)
(* never half told: a decision that accepts something keeps exactly what   *)
(* it accepts.                                                             *)
(***************************************************************************)
CONSTANTS Requests, Callers

VARIABLES asked,    \* requests submitted so far
          effects,  \* requests whose mutation is in the database
          verdict,  \* what the database decided
          answer,   \* what the caller's future says
          awaited   \* the requests a barrier waits for, or "idle" or "over"

vars == <<asked, effects, verdict, answer, awaited>>

Init ==
    /\ asked = {} /\ effects = {}
    /\ verdict = [r \in Requests |-> "none"]
    /\ answer = [r \in Requests |-> "pending"]
    /\ awaited = [c \in Callers |-> [state |-> "idle", requests |-> {}]]

Ask(r) == /\ r \notin asked /\ asked' = asked \cup {r}
          /\ UNCHANGED <<effects, verdict, answer, awaited>>
Withdraw(r) == /\ r \in asked /\ answer[r] = "pending"
               /\ answer' = [answer EXCEPT ![r] = "cancelled"]
               /\ UNCHANGED <<asked, effects, verdict, awaited>>

(* One transaction decides B and applies what it does not refuse. *)
Decide(B, refused) ==
    /\ B \subseteq asked /\ \A r \in B : verdict[r] = "none"
    /\ verdict' = [r \in Requests |-> IF r \notin B THEN verdict[r]
                                      ELSE IF r \in refused THEN "error" ELSE "ok"]
    /\ effects' = effects \cup (B \ refused)
    /\ UNCHANGED <<asked, answer, awaited>>
(* One transaction keeps some of B and is refused whole: it is in doubt. *)
Doubt(B, kept) ==
    /\ B \subseteq asked /\ \A r \in B : verdict[r] = "none"
    /\ verdict' = [r \in Requests |-> IF r \in B THEN "error" ELSE verdict[r]]
    /\ effects' = effects \cup kept
    /\ UNCHANGED <<asked, answer, awaited>>
Tell(B) ==
    /\ \A r \in B : verdict[r] # "none"
    /\ answer' = [r \in Requests |-> IF r \in B /\ answer[r] = "pending"
                                     THEN verdict[r] ELSE answer[r]]
    /\ UNCHANGED <<asked, effects, verdict, awaited>>

Await(c) ==
    /\ awaited[c].state = "idle"
    /\ awaited' = [awaited EXCEPT ![c] = [state |-> "waiting", requests |-> asked]]
    /\ UNCHANGED <<asked, effects, verdict, answer>>
Return(c) ==
    /\ awaited[c].state = "waiting"
    /\ \A r \in awaited[c].requests : verdict[r] # "none" /\ answer[r] # "pending"
    /\ awaited' = [awaited EXCEPT ![c].state = "over"]
    /\ UNCHANGED <<asked, effects, verdict, answer>>

Next ==
    \/ \E r \in Requests : Ask(r) \/ Withdraw(r)
    \/ \E B \in SUBSET Requests : Tell(B) \/ \E S \in SUBSET B : Decide(B, S) \/ Doubt(B, S)
    \/ \E c \in Callers : Await(c) \/ Return(c)

Spec == Init /\ [][Next]_vars
=============================================================================
