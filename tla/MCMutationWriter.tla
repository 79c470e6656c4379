-------------------------- MODULE MCMutationWriter --------------------------
(* Instances of MutationWriter for TLC.  Mixed: two urgent requests beside *)
(* an ordinary one.  Grouped: a single request beside two of one group.    *)
EXTENDS MutationWriter, TLC
CONSTANTS first, second, plain, group

MixedPriority == [r \in Requests |-> IF r = plain THEN 10 ELSE 0]
SamePriority == [r \in Requests |-> 10]
UnitWeight == [r \in Requests |-> 1]
NoGroups == [r \in Requests |-> NoGroup]
OneGroup == [r \in Requests |-> IF r = plain THEN NoGroup ELSE group]
=============================================================================
